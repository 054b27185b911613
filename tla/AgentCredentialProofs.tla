----------------------- MODULE AgentCredentialProofs ------------------------
(***************************************************************************)
(* Proofs about the agent's credential and the broker's identity, for      *)
(* every number of commands, operations and provisions, every length of    *)
(* certificates and tokens, and every clock.                               *)
(***************************************************************************)
EXTENDS AgentCredential, TLAPS

CredFields == {"cert", "pin", "stok", "btok"}
RunFields == {"kind", "wrong", "pc", "cred", "client", "new", "had", "aud", "ops", "att",
              "tries", "recov", "reauth", "auths", "orig", "saw", "exec", "fault", "out"}

\* A credential as it is written: an agent's certificate for the handle, a pin, and
\* tokens, the broker's bound to the certificate.
Held(c) ==
  /\ DOMAIN c = CredFields
  /\ c.cert.role = "prsn" /\ c.cert.id = Handle /\ c.cert.n \in Nat
  /\ c.pin \in Nat /\ c.stok \in Tokens /\ c.btok \in Tokens
  /\ c.btok # NoTok => c.btok.cnf = c.cert.n
Kept(c) == c = NoFile \/ Held(c)

\* What the file may be: nothing, a credential, or what a save left torn.
Stored(f) == f \in Torn \/ Kept(f)

\* The fields of a run that are the same at every program counter.
Typed(p, r) ==
  /\ DOMAIN r = RunFields
  /\ Kept(r.cred) /\ Kept(r.client) /\ Kept(r.new)
  /\ r.att \in 1 .. 2 /\ r.tries \in 0 .. MaxRetries
  /\ r.ops \in Nat /\ r.ops < MaxOps[p]
  /\ r.exec \in 0 .. 1 /\ r.auths \in 0 .. 1
  /\ r.reauth \in BOOLEAN /\ r.fault \in BOOLEAN
  /\ ~r.reauth => r.auths = 0
  /\ r.recov # "none" => r.kind = "use" /\ r.recov \in {"pin", "auth"}

\* What a keystore operation works with: a credential, and for a command that may
\* recover, a client built on its certificate.
InOp(r) ==
  /\ Held(r.cred)
  /\ r.kind = "use" => Held(r.client) /\ r.client.cert = r.cred.cert /\ r.aud = "broker"

OpPcs == {"tok", "tok.save", "tok.write", "wire", "opdone"}
PickupPcs == {"pk.post", "pk.tok", "pk.save", "pk.write", "pk.load"}
RenewPcs == {"rc.load", "rc.post", "rc.save", "rc.write", "rc.stok", "rc.btok", "rc.save2", "rc.write2",
             "rc.reload"}

\* What the program counter says of the other fields.
Phased(r) ==
  /\ r.pc \in OpPcs => InOp(r)
  /\ r.pc \in PickupPcs /\ r.recov # "none" => InOp(r)
  /\ r.pc = "opdone" => r.kind = "use"
  /\ r.pc = "ready" => Held(r.cred)
  /\ r.pc \in RenewPcs /\ (r.kind # "renew_cert" \/ r.pc = "rc.reload") => Held(r.cred)
  /\ r.pc \in (RenewPcs \ {"rc.load", "rc.reload"}) \cup {"pk.tok", "pk.save", "pk.write"} => Held(r.new)
  /\ r.recov # "none" => r.pc \in OpPcs \cup PickupPcs
  /\ r.pc = "pk.load" => r.recov # "none"
  /\ r.recov = "none" /\ r.pc \notin OpPcs => ~r.reauth

\* An operation that was done is never tried again.
Spent(r) == r.exec = 1 => r.pc = "opdone"

RunInv(p, r) == Typed(p, r) /\ Phased(r) /\ Spent(r)

\* The runs, and the file.
CredInv ==
  /\ DOMAIN run = Agents
  /\ Stored(file)
  /\ \A p \in Agents : RunInv(p, run[p])

-----------------------------------------------------------------------------
(* How operations and their parts end. *)

\* A fresh run and one that is over hold nothing (OverRun).
LEMMA OverSafe ==
  ASSUME NEW p \in Agents, NEW r, NEW out
  PROVE  /\ RunInv(p, OverRun(r, out)) /\ OverRun(r, out).pc = "over"
         /\ OverRun(r, out).kind = "none" /\ OverRun(r, out).exec = 0
         /\ OverRun(r, out).recov = "none" /\ ~OverRun(r, out).reauth
<1> DEFINE q == OverRun(r, out)
<1>1. /\ DOMAIN q = RunFields /\ q.cred = NoFile /\ q.client = NoFile /\ q.new = NoFile
      /\ q.att = 1 /\ q.tries = 0 /\ q.ops = 0 /\ q.exec = 0 /\ q.auths = 0
      /\ q.reauth = FALSE /\ q.fault = FALSE /\ q.recov = "none" /\ q.pc = "over"
      /\ q.kind = "none"
  BY Zenon DEF OverRun, Idle, RunFields
<1> HIDE DEF q
<1>2. MaxOps[p] \in Nat \ {0} /\ MaxRetries \in Nat
  BY AgentAssumption, HttpAssumption, Zenon
<1>3. Typed(p, q)
  <2>1. q.reauth \in BOOLEAN /\ q.fault \in BOOLEAN /\ (~q.reauth => q.auths = 0)
    BY <1>1, Zenon
  <2>2. Kept(q.cred) /\ Kept(q.client) /\ Kept(q.new)
    BY <1>1, Zenon DEF Kept
  <2>3. /\ q.att \in 1 .. 2 /\ q.tries \in 0 .. MaxRetries /\ q.ops \in Nat
        /\ q.ops < MaxOps[p] /\ q.exec \in 0 .. 1 /\ q.auths \in 0 .. 1
    BY <1>1, <1>2, SMT
  <2> QED
    BY <1>1, <2>1, <2>2, <2>3, Zenon DEF Typed
<1>4. Phased(q) /\ Spent(q)
  BY <1>1 DEF Phased, Spent, OpPcs, PickupPcs, RenewPcs
<1> QED
  BY <1>1, <1>3, <1>4, Zenon DEF RunInv, q

\* Moving the program counter leaves the typed fields alone.
LEMMA PcTyped ==
  ASSUME NEW p, NEW r, Typed(p, r), NEW pc
  PROVE  Typed(p, [r EXCEPT !.pc = pc])
  BY Zenon DEF Typed, RunFields

\* Noting an answer leaves everything but the note alone (Saw).
LEMMA SawSame ==
  ASSUME NEW p, NEW r, Typed(p, r), NEW s
  PROVE  LET q == Saw(r, s)
         IN  /\ Typed(p, q) /\ q.pc = r.pc /\ q.kind = r.kind /\ q.cred = r.cred
             /\ q.client = r.client /\ q.new = r.new /\ q.aud = r.aud /\ q.att = r.att
             /\ q.recov = r.recov /\ q.reauth = r.reauth /\ q.auths = r.auths
             /\ q.exec = r.exec /\ q.had = r.had /\ q.orig = r.orig /\ q.saw = s
             /\ q.tries = r.tries /\ q.out = r.out
             /\ q.fault = (r.fault \/ events' # events)
<1> DEFINE q == Saw(r, s)
<1>1. /\ DOMAIN q = RunFields /\ q.pc = r.pc /\ q.kind = r.kind /\ q.cred = r.cred
      /\ q.client = r.client /\ q.new = r.new /\ q.aud = r.aud /\ q.att = r.att
      /\ q.recov = r.recov /\ q.reauth = r.reauth /\ q.auths = r.auths
      /\ q.exec = r.exec /\ q.had = r.had /\ q.orig = r.orig /\ q.saw = s
      /\ q.tries = r.tries /\ q.ops = r.ops /\ q.out = r.out
      /\ q.fault = (r.fault \/ events' # events)
  BY Zenon DEF Saw, Typed, RunFields
<1> HIDE DEF q
<1>2. Typed(p, q)
  BY <1>1, Zenon DEF Typed
<1> QED
  BY <1>1, <1>2, Zenon DEF q

\* An operation that ends (OpDone).
LEMMA DoneSafe ==
  ASSUME NEW p, NEW r, Typed(p, r), InOp(r), r.kind = "use", NEW out
  PROVE  LET q == OpDone(r, out)
         IN  /\ RunInv(p, q) /\ q.pc = "opdone" /\ q.out = out
             /\ q.fault = r.fault /\ q.reauth = r.reauth /\ q.client = r.client
             /\ q.kind = "use"
<1> DEFINE q == OpDone(r, out)
<1>1. /\ DOMAIN q = RunFields /\ q.pc = "opdone" /\ q.kind = r.kind /\ q.cred = r.cred
      /\ q.client = r.client /\ q.new = r.new /\ q.aud = r.aud /\ q.att = r.att
      /\ q.recov = r.recov /\ q.reauth = r.reauth /\ q.auths = r.auths
      /\ q.exec = r.exec /\ q.tries = r.tries /\ q.ops = r.ops /\ q.out = out
      /\ q.fault = r.fault
  BY Zenon DEF OpDone, Typed, RunFields
<1> HIDE DEF q
<1>2. Typed(p, q)
  BY <1>1, Zenon DEF Typed
<1>3. Phased(q) /\ Spent(q)
  BY <1>1, Zenon DEF Phased, Spent, InOp, OpPcs, PickupPcs, RenewPcs
<1> QED
  BY <1>1, <1>2, <1>3, Zenon DEF RunInv, q

\* The fields of an operation that has ended, one by one.
LEMMA DoneFields ==
  ASSUME NEW p, NEW r, Typed(p, r), InOp(r), r.kind = "use", NEW out
  PROVE  /\ OpDone(r, out).pc = "opdone" /\ OpDone(r, out).out = out
         /\ OpDone(r, out).fault = r.fault /\ OpDone(r, out).reauth = r.reauth
         /\ OpDone(r, out).client = r.client /\ OpDone(r, out).kind = "use"
  BY DoneSafe

\* What an error leads to: the end of a command that does not recover, the end of the
\* operation, or a pickup that the error has earned (perform_op, recovery_for).
Earned(q, r, e) ==
  /\ q.pc = "pk.post" /\ q.kind = "use" /\ q.saw = r.saw /\ q.fault = r.fault
  /\ r.recov = "none" /\ q.auths <= 1
  /\ \/ q.recov = "pin" /\ e = "broker_pin_mismatch"
     \/ q.recov = "auth" /\ e \in {"access_paused", "token_denied"}
Ended(q, r, e) ==
  /\ q = OpDone(r, e) /\ r.kind = "use"
  /\ r.recov # "none" \/ RecoveryFor(e, r.reauth) = "none"

LEMMA FailedSafe ==
  ASSUME NEW p \in Agents, NEW r, Typed(p, r), InOp(r), NEW e,
         r.exec = 1 => e = "broker_unreachable"
  PROVE  LET q == OpFailed(r, e)
         IN  /\ RunInv(p, q)
             /\ q = OverRun(r, e) \/ Ended(q, r, e) \/ Earned(q, r, e)
<1> DEFINE q == OpFailed(r, e)
           auth == RecoveryFor(e, r.reauth) = "auth"
<1>1. CASE r.kind # "use"
  <2>1. q = OverRun(r, e)
    BY <1>1, Zenon DEF OpFailed
  <2> QED
    BY <2>1, OverSafe, Zenon
<1>2. CASE r.kind = "use" /\ (r.recov # "none" \/ RecoveryFor(e, r.reauth) = "none")
  <2>1. q = OpDone(r, e)
    BY <1>2, Zenon DEF OpFailed
  <2>2. RunInv(p, OpDone(r, e))
    BY <1>2, DoneSafe, Zenon
  <2> QED
    BY <1>2, <2>1, <2>2, Zenon DEF Ended
<1>3. CASE r.kind = "use" /\ r.recov = "none" /\ RecoveryFor(e, r.reauth) # "none"
  <2>1. q = [r EXCEPT !.pc = "pk.post", !.recov = RecoveryFor(e, r.reauth), !.orig = e,
                      !.reauth = r.reauth \/ auth, !.auths = IF auth THEN r.auths + 1 ELSE r.auths]
    BY <1>3, Zenon DEF OpFailed
  <2>2. /\ DOMAIN q = RunFields /\ q.pc = "pk.post" /\ q.kind = r.kind /\ q.cred = r.cred
        /\ q.client = r.client /\ q.new = r.new /\ q.aud = r.aud /\ q.att = r.att
        /\ q.recov = RecoveryFor(e, r.reauth) /\ q.reauth = (r.reauth \/ auth)
        /\ q.auths = (IF auth THEN r.auths + 1 ELSE r.auths) /\ q.saw = r.saw
        /\ q.exec = r.exec /\ q.tries = r.tries /\ q.ops = r.ops /\ q.fault = r.fault
    <3> HIDE DEF q, auth
    <3> QED
      BY <2>1, Zenon DEF Typed, RunFields
  <2>3. \/ q.recov = "pin" /\ e = "broker_pin_mismatch" /\ ~auth
        \/ q.recov = "auth" /\ e \in {"access_paused", "token_denied"} /\ ~r.reauth /\ auth
    <3>1. CASE e = "broker_pin_mismatch"
      BY <2>2, <3>1, Zenon DEF RecoveryFor
    <3>2. CASE e \in {"access_paused", "token_denied"} /\ ~r.reauth
      BY <2>2, <3>2, Zenon DEF RecoveryFor
    <3> QED
      BY <1>3, <3>1, <3>2, Zenon DEF RecoveryFor
  <2>4. r.exec = 0
    <3>1. e # "broker_unreachable"
      BY <2>3, Zenon
    <3> QED
      BY <3>1 DEF Typed
  <2> HIDE DEF q, auth
  <2>5. /\ q.auths \in 0 .. 1 /\ q.reauth \in BOOLEAN
        /\ ~q.reauth => q.auths = 0
    <3>1. CASE auth
      <4>1. r.auths = 0
        BY <2>3, <3>1, Zenon DEF Typed
      <4> QED
        <5>1. q.auths = 1
          BY <2>2, <3>1, <4>1
        <5>2. q.reauth = TRUE
          BY <2>2, <3>1, Zenon
        <5>3. q.auths \in 0 .. 1
          BY <5>1
        <5> QED
          BY <5>2, <5>3, Zenon
    <3>2. CASE ~auth
      <4>1. q.auths = r.auths /\ q.reauth = r.reauth
        BY <2>2, <3>2, Zenon DEF Typed
      <4> QED
        BY <4>1, Zenon DEF Typed
    <3> QED
      BY <3>1, <3>2, Zenon
  <2>6. Typed(p, q)
    BY <1>3, <2>2, <2>3, <2>5, Zenon DEF Typed
  <2>7. Phased(q) /\ Spent(q)
    BY <1>3, <2>2, <2>4 DEF Phased, Spent, InOp, OpPcs, PickupPcs, RenewPcs
  <2>8. Earned(q, r, e)
    BY <1>3, <2>2, <2>3, <2>5 DEF Earned
  <2> QED
    BY <2>6, <2>7, <2>8, Zenon DEF RunInv, q
<1> QED
  BY <1>1, <1>2, <1>3, Zenon

\* An error on the wire: one more attempt with a fresh token, or as above
\* (perform_op_inner).
LEMMA WireFailedSafe ==
  ASSUME NEW p \in Agents, NEW r, Typed(p, r), InOp(r), NEW e,
         r.exec = 1 => e = "broker_unreachable"
  PROVE  LET q == WireFailed(r, e)
         IN  /\ RunInv(p, q)
             /\ \/ q = OverRun(r, e) \/ Ended(q, r, e) \/ Earned(q, r, e)
                \/ /\ q = [r EXCEPT !.pc = "tok", !.att = 2] /\ r.kind = "use"
             /\ Ended(q, r, e) => r.att = 2 \/ e \notin {"token_expired", "unauthorized"}
<1> DEFINE q == WireFailed(r, e)
<1>1. CASE r.kind = "use" /\ r.att = 1 /\ e \in {"token_expired", "unauthorized"}
  <2>1. q = [r EXCEPT !.pc = "tok", !.att = 2]
    BY <1>1, Zenon DEF WireFailed
  <2>2. /\ DOMAIN q = RunFields /\ q.pc = "tok" /\ q.kind = r.kind /\ q.cred = r.cred
        /\ q.client = r.client /\ q.new = r.new /\ q.aud = r.aud /\ q.att = 2
        /\ q.recov = r.recov /\ q.reauth = r.reauth /\ q.auths = r.auths
        /\ q.exec = r.exec /\ q.tries = r.tries /\ q.ops = r.ops /\ q.fault = r.fault
    <3> HIDE DEF q
    <3> QED
      BY <2>1, Zenon DEF Typed, RunFields
  <2>3. r.exec = 0
    BY <1>1 DEF Typed
  <2>4. OpDone(r, e).pc = "opdone"
    BY <1>1, DoneSafe
  <2> HIDE DEF q
  <2>5. Typed(p, q)
    BY <2>2 DEF Typed
  <2>6. Phased(q) /\ Spent(q)
    BY <2>2, <2>3 DEF Phased, Spent, InOp, OpPcs, PickupPcs, RenewPcs
  <2>7. ~Ended(q, r, e)
    BY <2>2, <2>4, Zenon DEF Ended
  <2> QED
    BY <1>1, <2>1, <2>5, <2>6, <2>7, Zenon DEF RunInv, q
<1>2. CASE ~(r.kind = "use" /\ r.att = 1 /\ e \in {"token_expired", "unauthorized"})
  <2>1. q = OpFailed(r, e)
    BY <1>2, Zenon DEF WireFailed
  <2>2. Ended(q, r, e) => r.att = 2 \/ e \notin {"token_expired", "unauthorized"}
    BY <1>2 DEF Ended, Typed
  <2>3. RunInv(p, OpFailed(r, e))
    BY FailedSafe, Zenon
  <2>4. LET o == OpFailed(r, e) IN o = OverRun(r, e) \/ Ended(o, r, e) \/ Earned(o, r, e)
    BY FailedSafe, Zenon
  <2> QED
    BY <2>1, <2>2, <2>3, <2>4, Zenon
<1> QED
  BY <1>1, <1>2, Zenon

\* A pickup that fails ends the operation that asked for it, or the command.
LEMMA PickupFailedSafe ==
  ASSUME NEW p \in Agents, NEW r, Typed(p, r), r.recov # "none" => InOp(r), NEW e
  PROVE  LET q == PickupFailed(r, e)
         IN  /\ RunInv(p, q)
             /\ \/ q = OverRun(r, e) /\ r.recov = "none"
                \/ q = OpDone(r, e) /\ r.kind = "use" /\ r.recov # "none"
                \/ q = OpDone(r, r.orig) /\ r.kind = "use" /\ r.recov # "none"
<1>1. CASE r.recov = "none"
  <2>1. PickupFailed(r, e) = OverRun(r, e)
    BY <1>1, Zenon DEF PickupFailed
  <2> QED
    BY <1>1, <2>1, OverSafe, Zenon
<1>2. CASE r.recov # "none"
  <2>1. r.kind = "use" /\ r.recov \in {"pin", "auth"}
    BY <1>2, Zenon DEF Typed
  <2>2. PickupFailed(r, e) = OpDone(r, e) \/ PickupFailed(r, e) = OpDone(r, r.orig)
    BY <2>1, Zenon DEF PickupFailed
  <2>3. RunInv(p, OpDone(r, e)) /\ RunInv(p, OpDone(r, r.orig))
    BY <1>2, <2>1, DoneSafe, Zenon
  <2> QED
    BY <1>2, <2>1, <2>2, <2>3, Zenon
<1> QED
  BY <1>1, <1>2, Zenon

\* A renewal that fails leaves an automatic one's command with what it loaded.
LEMMA RenewalFailedSafe ==
  ASSUME NEW p \in Agents, NEW r, Typed(p, r), r.kind # "renew_cert" => Held(r.cred),
         r.recov = "none", r.exec = 0, ~r.reauth, NEW e
  PROVE  LET q == RenewalFailed(r, e)
         IN  /\ RunInv(p, q) /\ q.pc \in {"over", "ready"} /\ q.recov = "none"
<1> DEFINE q == RenewalFailed(r, e)
<1>1. CASE r.kind = "renew_cert"
  <2>1. q = OverRun(r, e)
    BY <1>1, Zenon DEF RenewalFailed
  <2> QED
    BY <2>1, OverSafe, ZenonT(60)
<1>2. CASE r.kind # "renew_cert"
  <2>1. q = [r EXCEPT !.pc = "ready"]
    BY <1>2, Zenon DEF RenewalFailed
  <2>2. q.pc = "ready" /\ q.kind = r.kind /\ q.cred = r.cred /\ q.recov = "none" /\ q.exec = 0
        /\ q.reauth = r.reauth
    BY <2>1, Zenon DEF Typed, RunFields
  <2>3. Typed(p, q)
    BY <2>1, PcTyped
  <2> HIDE DEF q
  <2>4. Phased(q) /\ Spent(q)
    BY <1>2, <2>2 DEF Phased, Spent, OpPcs, PickupPcs, RenewPcs
  <2> QED
    BY <2>2, <2>3, <2>4, Zenon DEF RunInv, q
<1> QED
  BY <1>1, <1>2, Zenon

-----------------------------------------------------------------------------
(* The credentials that are made. *)

ProvFields == {"pc", "key", "tries", "left", "stale", "out"}

\* The provisions are counted by natural numbers, and a part of them by a smaller one.
\* This follows from their being finitely many (ProvsFinite below).
Counted ==
  \A S \in SUBSET Provs : /\ Cardinality(S) \in Nat
                          /\ S # Provs => Cardinality(S) < Cardinality(Provs)

\* The clock, the server and the provisions.
World ==
  /\ Counted
  /\ now \in 0 .. MaxTime /\ events \in 0 .. MaxEvents
  /\ solo \in Agents \cup Provs \cup {"none"}
  /\ issued \in Nat /\ DOMAIN grant = {"state", "cur"}
  /\ grant.state \in {"active", "wait", "paused"} /\ grant.cur \in 0 .. issued
  /\ reg \in 0 .. Cardinality(Provs) /\ used \subseteq Provs
  /\ DOMAIN prov = Provs
  /\ \A v \in Provs : DOMAIN prov[v] = ProvFields /\ prov[v].key \in 0 .. Cardinality(Provs)

LEMMA ProvsCounted ==
  ASSUME Counted
  PROVE  Cardinality(Provs) \in Nat
  BY Zenon DEF Counted

\* A token is bound to the certificate it was asked for with.
LEMMA TokenBound ==
  ASSUME World, NEW aud \in {"server", "broker"}, NEW cert, cert.n \in Nat
  PROVE  /\ Token(aud, cert) \in Tokens /\ Token(aud, cert).cnf = cert.n
         /\ Token(aud, cert).aud = aud /\ Token(aud, cert).sub = Handle
         /\ Token(aud, cert).exp = now + TokenTtl
<1>1. now \in Nat /\ TokenTtl \in Nat
  BY PkiAssumption, BrokerAssumption DEF World
<1> QED
  BY <1>1 DEF Token, Tokens, EncodeSigningInput, Handle

LEMMA NoTokTyped == NoTok \in Tokens
  BY Zenon DEF NoTok, Tokens, Handle

\* The certificate of serial n (IssueAgentCert).
LEMMA CertMade ==
  ASSUME NEW n \in Nat
  PROVE  Cert(n).role = "prsn" /\ Cert(n).id = Handle /\ Cert(n).n = n
  BY Zenon DEF Cert, IssueAgentCert, BuildLeaf

\* What a pickup hands out is a credential with the pin of the moment.
LEMMA PickedUp ==
  ASSUME World, NEW n \in Nat
  PROVE  LET c == PoPCredential(Cert(n))
         IN  Held(c) /\ c.cert = Cert(n) /\ c.pin = reg /\ c.btok = NoTok
<1> DEFINE c == PoPCredential(Cert(n))
<1>1. DOMAIN c = CredFields /\ c.cert = Cert(n) /\ c.pin = reg /\ c.btok = NoTok
      /\ c.stok = Token("server", Cert(n))
  BY Zenon DEF PoPCredential, CredFields
<1>2. reg \in Nat
  <2>1. Cardinality(Provs) \in Nat /\ reg \in 0 .. Cardinality(Provs)
    BY ProvsCounted, Zenon DEF World
  <2> QED
    BY <2>1
<1>3. c.stok \in Tokens
  BY <1>1, CertMade, TokenBound
<1> HIDE DEF c
<1> QED
  BY <1>1, <1>2, <1>3, CertMade, NoTokTyped, Zenon DEF Held, c

\* A rotation keeps the pin and drops the token of the old certificate.
LEMMA Rotated ==
  ASSUME NEW c, Held(c), NEW n \in Nat
  PROVE  Held(RotateCert(c, Cert(n)))
<1> DEFINE d == RotateCert(c, Cert(n))
<1>1. DOMAIN d = CredFields /\ d.cert = Cert(n) /\ d.btok = NoTok /\ d.pin = c.pin /\ d.stok = c.stok
  BY Zenon DEF RotateCert, Held, CredFields
<1> HIDE DEF d
<1> QED
  BY <1>1, CertMade, NoTokTyped DEF Held, d

\* A credential takes a token of its own certificate, or none.
LEMMA BrokerTokenTaken ==
  ASSUME World, NEW c, Held(c), NEW t, t = Token("broker", c.cert) \/ t = NoTok
  PROVE  LET d == [c EXCEPT !.btok = t]
         IN  Held(d) /\ d.cert = c.cert /\ d.pin = c.pin /\ d.btok = t
<1> DEFINE d == [c EXCEPT !.btok = t]
<1>1. DOMAIN d = CredFields /\ d.cert = c.cert /\ d.btok = t /\ d.pin = c.pin /\ d.stok = c.stok
  BY Zenon DEF Held, CredFields
<1>2. t \in Tokens /\ (t # NoTok => t.cnf = c.cert.n)
  BY TokenBound, NoTokTyped, Zenon DEF Held
<1> HIDE DEF d
<1> QED
  BY <1>1, <1>2, Zenon DEF Held, d

LEMMA ServerTokenTaken ==
  ASSUME World, NEW c, Held(c)
  PROVE  LET d == [c EXCEPT !.stok = Token("server", c.cert)]
         IN  Held(d) /\ d.cert = c.cert /\ d.pin = c.pin /\ d.btok = c.btok
<1> DEFINE d == [c EXCEPT !.stok = Token("server", c.cert)]
<1>1. DOMAIN d = CredFields /\ d.cert = c.cert /\ d.btok = c.btok /\ d.pin = c.pin
      /\ d.stok = Token("server", c.cert)
  BY Zenon DEF Held, CredFields
<1>2. Token("server", c.cert) \in Tokens
  BY TokenBound, Zenon DEF Held
<1> HIDE DEF d
<1> QED
  BY <1>1, <1>2, Zenon DEF Held, d

-----------------------------------------------------------------------------
(* The steps of one command. *)

\* A step of p changes p's run, to a safe one, and writes a whole credential or tears it.
Stepped(p) ==
  /\ DOMAIN run' = Agents
  /\ \A q \in Agents \ {p} : run'[q] = run[q]
  /\ RunInv(p, run'[p])
  /\ Stored(file')

\* A recovery pickup that begins in this step was earned.
Deserved(p) ==
  run'[p].pc = "pk.post" /\ run[p].pc # "pk.post" /\ run'[p].recov # "none" =>
      /\ run'[p].auths <= 1
      /\ run'[p].saw \in IF run'[p].recov = "pin" THEN {"broker_pin_mismatch"}
                         ELSE {"refused", "access_paused"}

\* A run that is safe, with the file as it was, whole, or torn.
LEMMA SetSafe ==
  ASSUME CredInv, NEW p \in Agents, NEW r, Set(p, r), RunInv(p, r),
         file' = file \/ Held(file') \/ file' \in Torn
  PROVE  Stepped(p) /\ run'[p] = r
<1>1. DOMAIN run = Agents
  BY Zenon DEF CredInv
<1>2. DOMAIN run' = Agents /\ run'[p] = r /\ \A q \in Agents \ {p} : run'[q] = run[q]
  BY <1>1, Zenon DEF Set
<1> QED
  BY <1>2, Zenon DEF Stepped, CredInv, Stored, Kept

\* A file that can be read is a credential.
LEMMA ReadableHeld ==
  ASSUME CredInv, file \notin Unreadable
  PROVE  Held(file)
  BY Zenon DEF CredInv, Stored, Kept, Unreadable

LEMMA HeldReadable ==
  ASSUME NEW f, Held(f)
  PROVE  f \notin Unreadable
  BY DEF Held, CredFields, Unreadable, NoFile, Torn, Empty, Partial

\* The facts of a run at rest that its steps start from.
LEMMA RunNow ==
  ASSUME CredInv, NEW p \in Agents
  PROVE  /\ Typed(p, run[p]) /\ Phased(run[p]) /\ Spent(run[p])
         /\ run[p].pc # "opdone" => run[p].exec = 0
<1>1. Typed(p, run[p]) /\ Phased(run[p]) /\ Spent(run[p])
  BY Zenon DEF CredInv, RunInv
<1> QED
  BY <1>1 DEF Typed, Spent

\* A command begins, claiming or loading.
Begun(q, r) ==
  /\ DOMAIN q = RunFields /\ q.pc \in {"load", "rc.load", "pk.post"}
  /\ q.pc = "rc.load" => q.kind = "renew_cert"
  /\ q.cred = r.cred /\ q.client = r.client /\ q.new = r.new /\ q.att = r.att
  /\ q.recov = r.recov /\ q.reauth = r.reauth /\ q.auths = r.auths
  /\ q.exec = r.exec /\ q.tries = r.tries /\ q.ops = r.ops /\ q.fault = r.fault

LEMMA BegunSafe ==
  ASSUME CredInv, NEW p \in Agents, run[p].pc = "start", NEW q, Begun(q, run[p])
  PROVE  RunInv(p, q) /\ q.recov = "none" /\ q.pc \in {"load", "rc.load", "pk.post"}
<1> DEFINE r == run[p]
<1>1. Typed(p, r) /\ Phased(r) /\ r.exec = 0
  BY RunNow, Zenon
<1>2. r.recov = "none" /\ ~r.reauth
  BY <1>1, Zenon DEF Phased, OpPcs, PickupPcs
<1> HIDE DEF r
<1>3. Begun(q, r)
  BY Zenon DEF r
<1>4. Typed(p, q)
  BY <1>1, <1>2, <1>3, Zenon DEF Typed, Begun
<1>5. Phased(q) /\ Spent(q)
  BY <1>1, <1>2, <1>3 DEF Phased, Spent, InOp, OpPcs, PickupPcs, RenewPcs, Begun
<1> QED
  BY <1>2, <1>3, <1>4, <1>5, Zenon DEF RunInv, Begun

LEMMA BeginStep ==
  ASSUME CredInv, NEW p \in Agents, run[p].pc = "start", NEW q, Begin(p, q),
         Begun(q, run[p]) \/ \E r, out : q = OverRun(r, out)
  PROVE  Stepped(p) /\ Deserved(p) /\ run'[p].pc \in {"over", "load", "rc.load", "pk.post"}
<1>1. Set(p, q) /\ file' = file
  BY Zenon DEF Begin
<1>2. RunInv(p, q) /\ q.recov = "none" /\ q.pc \in {"over", "load", "rc.load", "pk.post"}
  BY BegunSafe, OverSafe
<1>3. Stepped(p) /\ run'[p] = q
  BY <1>1, <1>2, SetSafe, Zenon
<1> QED
  BY <1>2, <1>3, Zenon DEF Deserved

\* The first step of a command.
Begins(p) == Stepped(p) /\ Deserved(p) /\ run'[p].pc \in {"over", "load", "rc.load", "pk.post"}

LEMMA CommandStep ==
  ASSUME CredInv, NEW p \in Agents, Command(p)
  PROVE  Begins(p)
<1>1. DOMAIN run[p] = RunFields
  BY RunNow, Zenon DEF Typed
<1>2. ASSUME NEW given, NEW asserted, OpenKeystore(p, given, asserted)
      PROVE  Begins(p)
  <2> DEFINE r == [run[p] EXCEPT !.kind = "use", !.wrong = asserted = "other"]
             q == IF ~BrokerCredentialPath(given, asserted) THEN OverRun(r, "config_error")
                  ELSE IF file # NoFile THEN [r EXCEPT !.pc = "load"]
                  ELSE AutoPickup(r, asserted)
  <2>1. run[p].pc = "start" /\ Begin(p, q)
    BY <1>2, Zenon DEF OpenKeystore
  <2>2. Begun([r EXCEPT !.pc = "load"], run[p]) /\ Begun([r EXCEPT !.pc = "pk.post"], run[p])
    BY <1>1, Zenon DEF Begun, RunFields
  <2>3. Begun(q, run[p]) \/ \E x, out : q = OverRun(x, out)
    <3> HIDE DEF r
    <3> QED
      BY <2>2, Zenon DEF AutoPickup
  <2> HIDE DEF q
  <2> QED
    BY <2>1, <2>3, BeginStep, Zenon DEF Begins
<1>3. ASSUME NEW asserted, PickupCommand(p, asserted)
      PROVE  Begins(p)
  <2> DEFINE r == [run[p] EXCEPT !.kind = "pickup"]
             q == IF asserted = "none" THEN OverRun(r, "config_error")
                  ELSE [r EXCEPT !.pc = "pk.post"]
  <2>1. run[p].pc = "start" /\ Begin(p, q)
    BY <1>3, Zenon DEF PickupCommand
  <2>2. Begun([r EXCEPT !.pc = "pk.post"], run[p])
    BY <1>1, Zenon DEF Begun, RunFields
  <2>3. Begun(q, run[p]) \/ \E x, out : q = OverRun(x, out)
    <3> HIDE DEF r
    <3> QED
      BY <2>2, Zenon
  <2> HIDE DEF q
  <2> QED
    BY <2>1, <2>3, BeginStep, Zenon DEF Begins
<1>4. ASSUME NEW given, NEW asserted, NEW aud, RenewCommand(p, given, asserted, aud)
      PROVE  Begins(p)
  <2> DEFINE r == [run[p] EXCEPT !.kind = "renew", !.aud = aud]
             q == IF ResolveCredentialPath(given, asserted) THEN [r EXCEPT !.pc = "load"]
                  ELSE OverRun(r, "invalid_arguments")
  <2>1. run[p].pc = "start" /\ Begin(p, q)
    BY <1>4, Zenon DEF RenewCommand
  <2>2. Begun([r EXCEPT !.pc = "load"], run[p])
    BY <1>1, Zenon DEF Begun, RunFields
  <2>3. Begun(q, run[p]) \/ \E x, out : q = OverRun(x, out)
    <3> HIDE DEF r
    <3> QED
      BY <2>2, Zenon
  <2> HIDE DEF q
  <2> QED
    BY <2>1, <2>3, BeginStep, Zenon DEF Begins
<1>5. ASSUME NEW given, NEW asserted, RenewCertCommand(p, given, asserted)
      PROVE  Begins(p)
  <2> DEFINE r == [run[p] EXCEPT !.kind = "renew_cert"]
             q == IF ResolveCredentialPath(given, asserted) THEN [r EXCEPT !.pc = "rc.load"]
                  ELSE OverRun(r, "invalid_arguments")
  <2>1. run[p].pc = "start" /\ Begin(p, q)
    BY <1>5, Zenon DEF RenewCertCommand
  <2>2. Begun([r EXCEPT !.pc = "rc.load"], run[p])
    BY <1>1, Zenon DEF Begun, RunFields
  <2>3. Begun(q, run[p]) \/ \E x, out : q = OverRun(x, out)
    <3> HIDE DEF r
    <3> QED
      BY <2>2, Zenon
  <2> HIDE DEF q
  <2> QED
    BY <2>1, <2>3, BeginStep, Zenon DEF Begins
<1>6. ASSUME NEW given, NEW asserted, DirectCommand(p, given, asserted)
      PROVE  Begins(p)
  <2> DEFINE r == [run[p] EXCEPT !.kind = "direct"]
             q == IF ResolveCredentialPath(given, asserted) THEN [r EXCEPT !.pc = "load"]
                  ELSE OverRun(r, "invalid_arguments")
  <2>1. run[p].pc = "start" /\ Begin(p, q)
    BY <1>6, Zenon DEF DirectCommand
  <2>2. Begun([r EXCEPT !.pc = "load"], run[p])
    BY <1>1, Zenon DEF Begun, RunFields
  <2>3. Begun(q, run[p]) \/ \E x, out : q = OverRun(x, out)
    <3> HIDE DEF r
    <3> QED
      BY <2>2, Zenon
  <2> HIDE DEF q
  <2> QED
    BY <2>1, <2>3, BeginStep, Zenon DEF Begins
<1> QED
  BY <1>2, <1>3, <1>4, <1>5, <1>6, Zenon DEF Command

\* A run whose cred, client and new are whole, whatever its counter: the rest as it was.
Carried(q, r) ==
  /\ DOMAIN q = RunFields /\ q.kind = r.kind /\ q.recov = r.recov
  /\ q.att = r.att /\ q.tries = r.tries /\ q.ops = r.ops /\ q.exec = r.exec
  /\ q.auths = r.auths /\ q.reauth = r.reauth
  /\ q.fault \in BOOLEAN

LEMMA CarriedTyped ==
  ASSUME NEW p, NEW r, Typed(p, r), NEW q, Carried(q, r),
         Kept(q.cred), Kept(q.client), Kept(q.new)
  PROVE  Typed(p, q)
  BY Zenon DEF Typed, Carried

\* A command outside an operation and its recovery has none under way.
LEMMA NoRecovery ==
  ASSUME CredInv, NEW p \in Agents, run[p].pc \notin OpPcs \cup PickupPcs
  PROVE  run[p].recov = "none" /\ run[p].exec = 0 /\ ~run[p].reauth
  BY RunNow, Zenon DEF Phased, OpPcs

LEMMA LoadStep ==
  ASSUME CredInv, NEW p \in Agents, Load(p)
  PROVE  /\ Stepped(p) /\ run'[p].pc \in {"over", "tok", "rc.load", "ready"}
         /\ run'[p].pc = "tok" => run'[p].kind = "renew"
         /\ run'[p].pc = "over" => file \in Unreadable /\ run'[p] = OverRun(run[p], LoadError)
<1> DEFINE r == [run[p] EXCEPT !.cred = file]
           pc == IF r.kind = "renew" THEN "tok" ELSE IF Due(file) THEN "rc.load" ELSE "ready"
           q == [r EXCEPT !.pc = pc]
<1>1. file' = file /\ run[p].pc = "load"
  BY Zenon DEF Load
<1>2. CASE file \in Unreadable
  <2>1. Set(p, OverRun(run[p], LoadError))
    BY <1>2, Zenon DEF Load
  <2>2. RunInv(p, OverRun(run[p], LoadError)) /\ OverRun(run[p], LoadError).pc = "over"
    BY OverSafe, Zenon
  <2>3. Stepped(p) /\ run'[p] = OverRun(run[p], LoadError)
    BY <1>1, <2>1, <2>2, SetSafe, Zenon
  <2>4. run'[p].pc = "over"
    BY <2>2, <2>3, Zenon
  <2> QED
    BY <1>2, <2>3, <2>4, Zenon
<1>3. CASE file \notin Unreadable
  <2>1. Set(p, q)
    <3>1. CASE r.kind = "renew"
      BY <1>3, <3>1, Zenon DEF Load
    <3>2. CASE r.kind # "renew"
      BY <1>3, <3>2, Zenon DEF Load
    <3> QED
      BY <3>1, <3>2, Zenon
  <2>2. Typed(p, run[p]) /\ run[p].recov = "none" /\ run[p].exec = 0 /\ ~run[p].reauth
    BY <1>1, RunNow, NoRecovery, Zenon DEF OpPcs, PickupPcs
  <2>3. pc \in {"tok", "rc.load", "ready"} /\ (pc = "tok" => run[p].kind = "renew")
    BY <2>2, Zenon DEF Typed, RunFields
  <2> HIDE DEF pc
  <2>4. Carried(q, run[p]) /\ q.cred = file /\ q.client = run[p].client /\ q.new = run[p].new
        /\ q.pc = pc
    BY <2>2, Zenon DEF Carried, Typed, RunFields
  <2>5. Held(file)
    BY <1>3, ReadableHeld, Zenon
  <2> HIDE DEF q, r
  <2>6. Typed(p, q)
    BY <2>2, <2>4, <2>5, CarriedTyped DEF Typed, Kept
  <2>7. Phased(q) /\ Spent(q)
    BY <2>2, <2>3, <2>4, <2>5 DEF Phased, Spent, InOp, Carried, OpPcs, PickupPcs, RenewPcs
  <2>8. RunInv(p, q)
    BY <2>6, <2>7, Zenon DEF RunInv
  <2>9. Stepped(p) /\ run'[p] = q
    BY <1>1, <2>1, <2>8, SetSafe, Zenon
  <2> QED
    BY <2>3, <2>4, <2>9, Zenon DEF Carried
<1> QED
  BY <1>2, <1>3, Zenon

LEMMA ReadyStep ==
  ASSUME CredInv, NEW p \in Agents, Ready(p)
  PROVE  /\ Stepped(p) /\ run'[p].pc \in {"over", "tok"}
         /\ run'[p].recov = "none" /\ ~run'[p].reauth
<1> DEFINE r == run[p]
           q == [r EXCEPT !.pc = "tok", !.aud = "broker", !.client = r.cred,
                          !.new = NoFile, !.had = FALSE]
<1>1. file' = file /\ r.pc = "ready"
  BY Zenon DEF Ready
<1>2. CASE ~CheckIdentityMatch(r.wrong)
  <2>1. Set(p, OverRun(r, "identity_mismatch"))
    BY <1>2, Zenon DEF Ready
  <2>2. Stepped(p) /\ run'[p] = OverRun(r, "identity_mismatch")
    BY <1>1, <2>1, OverSafe, SetSafe
  <2> QED
    BY <2>2, OverSafe
<1>3. CASE CheckIdentityMatch(r.wrong)
  <2>1. Set(p, q)
    BY <1>3, Zenon DEF Ready
  <2>2. Typed(p, r) /\ Phased(r) /\ r.recov = "none" /\ r.exec = 0 /\ ~r.reauth
    BY <1>1, RunNow, NoRecovery, Zenon DEF OpPcs, PickupPcs
  <2>3. Held(r.cred)
    BY <1>1, <2>2, Zenon DEF Phased
  <2> HIDE DEF r
  <2>4. Carried(q, r) /\ q.cred = r.cred /\ q.client = r.cred /\ q.new = NoFile
        /\ q.pc = "tok" /\ q.aud = "broker"
    BY <2>2, Zenon DEF Carried, Typed, RunFields
  <2> HIDE DEF q
  <2>5. Typed(p, q)
    BY <2>2, <2>3, <2>4, CarriedTyped, ZenonT(60) DEF Kept
  <2>6. Phased(q) /\ Spent(q)
    BY <2>2, <2>3, <2>4 DEF Phased, Spent, InOp, Carried, OpPcs, PickupPcs, RenewPcs
  <2>7. RunInv(p, q)
    BY <2>5, <2>6, Zenon DEF RunInv
  <2>8. Stepped(p) /\ run'[p] = q
    BY <1>1, <2>1, <2>7, SetSafe, Zenon
  <2> QED
    BY <2>2, <2>4, <2>8, Zenon DEF Carried
<1> QED
  BY <1>2, <1>3, Zenon

\* A renewal under way holds the credential it renews.
LEMMA Renewing ==
  ASSUME CredInv, NEW p \in Agents, run[p].pc \in RenewPcs
  PROVE  /\ Typed(p, run[p]) /\ run[p].recov = "none" /\ run[p].exec = 0 /\ ~run[p].reauth
         /\ run[p].kind # "renew_cert" \/ run[p].pc = "rc.reload" => Held(run[p].cred)
         /\ run[p].pc \notin {"rc.load", "rc.reload"} => Held(run[p].new)
<1>1. run[p].pc \notin OpPcs \cup PickupPcs
  BY Zenon DEF RenewPcs, OpPcs, PickupPcs
<1> QED
  BY <1>1, RunNow, NoRecovery, Zenon DEF Phased

LEMMA RenewalEnds ==
  ASSUME CredInv, NEW p \in Agents, run[p].pc \in RenewPcs, NEW e, NEW s
  PROVE  /\ RunInv(p, RenewalFailed(run[p], e)) /\ RunInv(p, RenewalFailed(Saw(run[p], s), e))
         /\ RenewalFailed(run[p], e).pc \in {"over", "ready"}
         /\ RenewalFailed(Saw(run[p], s), e).pc \in {"over", "ready"}
<1> DEFINE r == run[p]
           w == Saw(run[p], s)
<1>1. Typed(p, r) /\ r.recov = "none" /\ r.exec = 0 /\ ~r.reauth /\ (r.kind # "renew_cert" => Held(r.cred))
  BY Renewing, Zenon
<1>2. Typed(p, w) /\ w.recov = "none" /\ w.exec = 0 /\ ~w.reauth /\ (w.kind # "renew_cert" => Held(w.cred))
  BY <1>1, SawSame
<1> HIDE DEF r, w
<1>3. RunInv(p, RenewalFailed(r, e)) /\ RenewalFailed(r, e).pc \in {"over", "ready"}
  BY <1>1, RenewalFailedSafe, Zenon
<1>4. RunInv(p, RenewalFailed(w, e)) /\ RenewalFailed(w, e).pc \in {"over", "ready"}
  BY <1>2, RenewalFailedSafe, Zenon
<1> QED
  BY <1>3, <1>4, Zenon DEF r, w

LEMMA RenewCertFlowStep ==
  ASSUME CredInv, NEW p \in Agents, RenewCertFlow(p)
  PROVE  Stepped(p) /\ run'[p].pc \in {"over", "ready", "rc.post"}
<1> DEFINE r == run[p]
           had == file.btok # NoTok
           q == [r EXCEPT !.pc = "rc.post", !.new = file, !.had = had]
           d == RenewalFailed(r, LoadError)
<1>1. file' = file /\ r.pc = "rc.load"
  BY Zenon DEF RenewCertFlow
<1>2. CASE file \in Unreadable
  <2>1. Set(p, d)
    BY <1>2, Zenon DEF RenewCertFlow
  <2>2. RunInv(p, d) /\ d.pc \in {"over", "ready"}
    BY <1>1, RenewalEnds, Zenon DEF RenewPcs
  <2> HIDE DEF d
  <2>3. Stepped(p) /\ run'[p] = d
    BY <1>1, <2>1, <2>2, SetSafe, Zenon
  <2> QED
    BY <2>2, <2>3, Zenon
<1>3. CASE file \notin Unreadable
  <2>1. Set(p, q)
    BY <1>3, Zenon DEF RenewCertFlow
  <2>2. Typed(p, r) /\ Phased(r) /\ r.recov = "none" /\ r.exec = 0 /\ ~r.reauth
    BY <1>1, RunNow, NoRecovery, Zenon DEF OpPcs, PickupPcs
  <2>3. Held(file) /\ (r.kind # "renew_cert" => Held(r.cred))
    BY <1>1, <1>3, <2>2, ReadableHeld, Zenon DEF Phased, RenewPcs
  <2> HIDE DEF r, had
  <2>4. Carried(q, r) /\ q.cred = r.cred /\ q.client = r.client /\ q.new = file
        /\ q.pc = "rc.post"
    BY <2>2, Zenon DEF Carried, Typed, RunFields
  <2> HIDE DEF q
  <2>5. Typed(p, q)
    BY <2>2, <2>3, <2>4, CarriedTyped, Zenon DEF Typed, Kept
  <2>6. Phased(q) /\ Spent(q)
    BY <2>2, <2>3, <2>4 DEF Phased, Spent, InOp, Carried, OpPcs, PickupPcs, RenewPcs
  <2>7. RunInv(p, q)
    BY <2>5, <2>6, Zenon DEF RunInv
  <2>8. Stepped(p) /\ run'[p] = q
    BY <1>1, <2>1, <2>7, SetSafe, Zenon
  <2> QED
    BY <2>4, <2>8, Zenon
<1> QED
  BY <1>2, <1>3, Zenon

\* The next phase of a renewal.
Renewed(q, r) ==
  /\ Carried(q, r) /\ q.cred = r.cred /\ q.client = r.client /\ Held(q.new)
  /\ q.pc = "rc.reload" => r.kind # "renew_cert"
  /\ q.pc \in {"rc.save", "rc.write", "rc.stok", "rc.btok", "rc.save2", "rc.write2", "rc.reload"}

LEMMA RenewedSafe ==
  ASSUME CredInv, NEW p \in Agents, run[p].pc \in RenewPcs, NEW q, Renewed(q, run[p])
  PROVE  RunInv(p, q)
<1> DEFINE r == run[p]
<1>1. Typed(p, r) /\ r.recov = "none" /\ r.exec = 0 /\ ~r.reauth /\ (r.kind # "renew_cert" => Held(r.cred))
  BY Renewing, Zenon
<1>2. Renewed(q, r)
  BY Zenon
<1> HIDE DEF r
<1>3. Typed(p, q)
  BY <1>1, <1>2, CarriedTyped DEF Typed, Kept, Renewed
<1>4. Phased(q) /\ Spent(q)
  BY <1>1, <1>2 DEF Renewed, Phased, Spent, InOp, Carried, OpPcs, PickupPcs, RenewPcs
<1> QED
  BY <1>3, <1>4, Zenon DEF RunInv

\* Noting a loss after the renewal has failed.
LEMMA LostRenewal ==
  ASSUME NEW p \in Agents, NEW r, RunInv(p, r), r.pc \in {"over", "ready"}, NEW s
  PROVE  RunInv(p, Saw(r, s)) /\ Saw(r, s).pc \in {"over", "ready"}
<1> DEFINE q == Saw(r, s)
<1>1. Typed(p, r) /\ Phased(r) /\ Spent(r)
  BY Zenon DEF RunInv
<1>2. Typed(p, q) /\ q.pc = r.pc /\ q.kind = r.kind /\ q.cred = r.cred /\ q.recov = r.recov
      /\ q.exec = r.exec /\ q.reauth = r.reauth
  BY <1>1, SawSame
<1> HIDE DEF q
<1>3. Phased(q) /\ Spent(q)
  BY <1>1, <1>2, Zenon DEF Phased, Spent, OpPcs, PickupPcs, RenewPcs
<1> QED
  BY <1>2, <1>3, Zenon DEF RunInv, q

LEMMA RequestCertRenewalStep ==
  ASSUME World, CredInv, NEW p \in Agents, RequestCertRenewal(p)
  PROVE  Stepped(p) /\ run'[p].pc \in {"over", "ready", "rc.save"}
<1> DEFINE r == run[p]
           new == RotateCert(r.new, Cert(issued + 1))
           q == [r EXCEPT !.pc = "rc.save", !.new = new]
           d == RenewalFailed(r, "cert_renewal_denied")
           u == RenewalFailed(r, "token_endpoint_unreachable")
<1>1. file' = file /\ r.pc = "rc.post"
  BY Zenon DEF RequestCertRenewal
<1>2. r.pc \in RenewPcs
  BY <1>1, Zenon DEF RenewPcs
<1>3. Set(p, q) \/ Set(p, d) \/ Set(p, Saw(u, "lost"))
  BY Zenon DEF RequestCertRenewal
<1>4. RunInv(p, q) /\ q.pc = "rc.save"
  <2>1. Held(new)
    BY <1>1, <1>2, Renewing, Rotated DEF World
  <2>2. Typed(p, r)
    BY RunNow, Zenon
  <2> HIDE DEF r, new
  <2>3. Renewed(q, r) /\ q.pc = "rc.save"
    BY <2>1, <2>2, Zenon DEF Renewed, Carried, Typed, RunFields
  <2> HIDE DEF q
  <2> QED
    BY <1>2, <2>3, RenewedSafe, ZenonT(60) DEF r
<1>5. RunInv(p, d) /\ d.pc \in {"over", "ready"}
  BY <1>2, RenewalEnds, Zenon
<1>6. RunInv(p, Saw(u, "lost")) /\ Saw(u, "lost").pc \in {"over", "ready"}
  <2>1. RunInv(p, u) /\ u.pc \in {"over", "ready"}
    BY <1>2, RenewalEnds, Zenon
  <2> HIDE DEF u
  <2> QED
    BY <2>1, LostRenewal, Zenon
<1> HIDE DEF q, d, u
<1>7. CASE Set(p, q)
  BY <1>1, <1>4, <1>7, SetSafe, Zenon
<1>8. CASE Set(p, d)
  BY <1>1, <1>5, <1>8, SetSafe, Zenon
<1>9. CASE Set(p, Saw(u, "lost"))
  <2>1. Stepped(p) /\ run'[p] = Saw(u, "lost")
    BY <1>1, <1>6, <1>9, SetSafe, Zenon
  <2> QED
    BY <1>6, <2>1, Zenon
<1> QED
  BY <1>3, <1>7, <1>8, <1>9, Zenon

\* What an operation under way has.
LEMMA Operating ==
  ASSUME CredInv, NEW p \in Agents, run[p].pc \in {"tok", "tok.save", "tok.write", "wire"}
  PROVE  Typed(p, run[p]) /\ InOp(run[p]) /\ run[p].exec = 0
  BY RunNow, Zenon DEF Phased, OpPcs

\* A pickup under way: within an operation, if it is a recovery.
LEMMA PickingUp ==
  ASSUME CredInv, NEW p \in Agents, run[p].pc \in PickupPcs
  PROVE  /\ Typed(p, run[p]) /\ run[p].exec = 0
         /\ run[p].recov # "none" => InOp(run[p])
         /\ run[p].recov = "none" => ~run[p].reauth
         /\ run[p].pc \in {"pk.tok", "pk.save", "pk.write"} => Held(run[p].new)
<1>1. run[p].pc # "opdone" /\ run[p].pc \notin OpPcs
  BY Zenon DEF PickupPcs, OpPcs
<1> QED
  BY <1>1, RunNow, Zenon DEF Phased

\* What a save writes is a credential.
LEMMA SavingHeld ==
  ASSUME CredInv, NEW p \in Agents, run[p].pc \in Writes
  PROVE  Held(Saving(run[p]))
<1>1. CASE run[p].pc = "tok.write"
  <2>1. Saving(run[p]) = run[p].cred
    BY <1>1, Zenon DEF Saving
  <2> QED
    BY <1>1, <2>1, Operating, Zenon DEF InOp
<1>2. CASE run[p].pc = "pk.write"
  <2>1. Saving(run[p]) = run[p].new
    BY <1>2, Zenon DEF Saving
  <2> QED
    BY <1>2, <2>1, PickingUp, Zenon DEF PickupPcs
<1>3. CASE run[p].pc \in {"rc.write", "rc.write2"}
  <2>1. Saving(run[p]) = run[p].new
    BY <1>3, Zenon DEF Saving
  <2> QED
    BY <1>3, <2>1, Renewing, Zenon DEF RenewPcs
<1> QED
  BY <1>1, <1>2, <1>3, Zenon DEF Writes

\* A save leaves the file whole, or torn.
LEMMA WrittenFile ==
  ASSUME CredInv, NEW p \in Agents, run[p].pc \in Writes,
         Written(p) \/ file' \in HalfWritten(file, Saving(run[p]))
  PROVE  file' = file \/ Held(file') \/ file' \in Torn
<1>1. Held(Saving(run[p]))
  BY SavingHeld, Zenon
<1>2. file' \in {file, Partial, Saving(run[p])}
  BY Zenon DEF Written, Overwritten, HalfWritten
<1> QED
  BY <1>1, <1>2, Zenon DEF Torn

LEMMA RotateAndSaveStep ==
  ASSUME CredInv, NEW p \in Agents, RotateAndSave(p)
  PROVE  Stepped(p) /\ run'[p].pc = "rc.stok"
<1> DEFINE r == run[p]
           q == [r EXCEPT !.pc = "rc.stok"]
<1>1. r.pc = "rc.write" /\ Written(p) /\ Set(p, q)
  BY Zenon DEF RotateAndSave
<1>2. r.pc \in RenewPcs /\ r.pc \notin {"rc.load", "rc.reload"}
  BY <1>1, Zenon DEF RenewPcs
<1>3. file' = file \/ Held(file') \/ file' \in Torn
  BY <1>1, WrittenFile, Zenon DEF Writes
<1>4. RunInv(p, q) /\ q.pc = "rc.stok"
  <2>1. Held(r.new) /\ Typed(p, r)
    BY <1>2, Renewing, Zenon
  <2> HIDE DEF r
  <2>3. Renewed(q, r) /\ q.pc = "rc.stok"
    BY <2>1, Zenon DEF Renewed, Carried, Typed, RunFields
  <2> HIDE DEF q
  <2> QED
    BY <1>2, <2>3, RenewedSafe, Zenon DEF r
<1> HIDE DEF q, r
<1>5. Stepped(p) /\ run'[p] = q
  BY <1>1, <1>3, <1>4, SetSafe, Zenon
<1> QED
  BY <1>4, <1>5, Zenon

LEMMA RefreshTokensStep ==
  ASSUME World, CredInv, NEW p \in Agents, NEW s, RefreshTokens(p, s)
  PROVE  Stepped(p) /\ run'[p].pc \in {"over", "ready", "rc.btok", "rc.save2"}
<1> DEFINE r == Saw(run[p], s)
           pc == IF r.had THEN "rc.btok" ELSE "rc.save2"
           q == [r EXCEPT !.new.stok = Token("server", r.new.cert), !.pc = pc]
           b == [r EXCEPT !.new.btok = Token("broker", r.new.cert), !.pc = "rc.save2"]
           d == RenewalFailed(r, RequestToken(s))
<1>1. file' = file /\ run[p].pc \in {"rc.stok", "rc.btok"}
  BY Zenon DEF RefreshTokens
<1>2. run[p].pc \in RenewPcs /\ run[p].pc \notin {"rc.load", "rc.reload"}
  BY <1>1, Zenon DEF RenewPcs
<1>3. Set(p, d) \/ Set(p, q) \/ Set(p, b)
  BY Zenon DEF RefreshTokens
<1>4. Held(run[p].new) /\ Typed(p, run[p])
  BY <1>2, Renewing, Zenon
<1>5. RunInv(p, d) /\ d.pc \in {"over", "ready"}
  BY <1>2, RenewalEnds, Zenon
<1>6. /\ Typed(p, r) /\ Carried(r, run[p]) /\ r.cred = run[p].cred /\ r.client = run[p].client
      /\ r.new = run[p].new
  <2>1. /\ Typed(p, r) /\ r.kind = run[p].kind /\ r.cred = run[p].cred
        /\ r.client = run[p].client /\ r.new = run[p].new /\ r.att = run[p].att
        /\ r.recov = run[p].recov /\ r.reauth = run[p].reauth /\ r.auths = run[p].auths
        /\ r.exec = run[p].exec /\ r.tries = run[p].tries
    BY <1>4, SawSame
  <2>2. r.ops = run[p].ops
    BY <1>4, Zenon DEF Saw, Typed, RunFields
  <2> HIDE DEF r
  <2> QED
    BY <2>1, <2>2, ZenonT(60) DEF Carried, Typed
<1>7. /\ Held([r.new EXCEPT !.stok = Token("server", r.new.cert)])
      /\ Held([r.new EXCEPT !.btok = Token("broker", r.new.cert)])
  <2> HIDE DEF r
  <2>1. Held(r.new)
    BY <1>4, <1>6, Zenon
  <2> QED
    BY <2>1, ServerTokenTaken, BrokerTokenTaken, Zenon
<1>8. pc \in {"rc.btok", "rc.save2"}
  BY Zenon
<1> HIDE DEF r, pc
<1>9. /\ Carried(q, r) /\ q.cred = r.cred /\ q.client = r.client /\ q.pc = pc
      /\ q.new = [r.new EXCEPT !.stok = Token("server", r.new.cert)]
  BY <1>6, Zenon DEF Carried, Typed, RunFields
<1>10. /\ Carried(b, r) /\ b.cred = r.cred /\ b.client = r.client /\ b.pc = "rc.save2"
       /\ b.new = [r.new EXCEPT !.btok = Token("broker", r.new.cert)]
  BY <1>6, Zenon DEF Carried, Typed, RunFields
<1> HIDE DEF q, b, d
<1>11. Renewed(q, run[p]) /\ Renewed(b, run[p])
  BY <1>6, <1>7, <1>8, <1>9, <1>10, ZenonT(60) DEF Renewed, Carried
<1>12. RunInv(p, q) /\ RunInv(p, b)
  BY <1>2, <1>11, RenewedSafe, Zenon
<1>13. CASE Set(p, q)
  <2>1. Stepped(p) /\ run'[p] = q
    BY <1>1, <1>8, <1>9, <1>12, <1>13, SetSafe, ZenonT(60)
  <2> QED
    BY <1>8, <1>9, <2>1, Zenon
<1>14. CASE Set(p, b)
  <2>1. Stepped(p) /\ run'[p] = b
    BY <1>1, <1>10, <1>12, <1>14, SetSafe, Zenon
  <2> QED
    BY <1>10, <2>1, Zenon
<1>15. CASE Set(p, d)
  <2>1. Stepped(p) /\ run'[p] = d
    BY <1>1, <1>5, <1>15, SetSafe, Zenon
  <2> QED
    BY <1>5, <2>1, Zenon
<1> QED
  BY <1>3, <1>13, <1>14, <1>15, Zenon

LEMMA SaveRenewedStep ==
  ASSUME CredInv, NEW p \in Agents, SaveRenewed(p)
  PROVE  Stepped(p) /\ run'[p].pc \in {"over", "rc.reload"}
<1> DEFINE r == run[p]
           q == [r EXCEPT !.pc = "rc.reload"]
           o == OverRun(r, "ok")
<1>1. r.pc = "rc.write2" /\ Written(p) /\ ((Set(p, q) /\ r.kind # "renew_cert") \/ Set(p, o))
  BY Zenon DEF SaveRenewed
<1>2. r.pc \in RenewPcs /\ r.pc \notin {"rc.load", "rc.reload"}
  BY <1>1, Zenon DEF RenewPcs
<1>3. file' = file \/ Held(file') \/ file' \in Torn
  BY <1>1, WrittenFile, Zenon DEF Writes
<1>4. r.kind # "renew_cert" => RunInv(p, q) /\ q.pc = "rc.reload"
  <2> SUFFICES ASSUME r.kind # "renew_cert"
               PROVE  RunInv(p, q) /\ q.pc = "rc.reload"
    BY Zenon
  <2>1. Held(r.new) /\ Typed(p, r)
    BY <1>2, Renewing, Zenon
  <2> HIDE DEF r
  <2>3. Renewed(q, r) /\ q.pc = "rc.reload"
    BY <2>1, Zenon DEF Renewed, Carried, Typed, RunFields
  <2> HIDE DEF q
  <2> QED
    BY <1>2, <2>3, RenewedSafe, ZenonT(60) DEF r
<1>5. RunInv(p, o) /\ o.pc = "over"
  BY OverSafe, Zenon
<1> HIDE DEF q, r, o
<1>6. CASE Set(p, q) /\ r.kind # "renew_cert"
  <2>1. Stepped(p) /\ run'[p] = q
    BY <1>3, <1>4, <1>6, SetSafe, Zenon
  <2> QED
    BY <1>4, <1>6, <2>1, Zenon
<1>7. CASE Set(p, o)
  <2>1. Stepped(p) /\ run'[p] = o
    BY <1>3, <1>5, <1>7, SetSafe, Zenon
  <2> QED
    BY <1>5, <2>1, Zenon
<1> QED
  BY <1>1, <1>6, <1>7, Zenon

LEMMA AutoRenewedStep ==
  ASSUME CredInv, NEW p \in Agents, AutoRenewed(p)
  PROVE  Stepped(p) /\ run'[p].pc = "ready"
<1> DEFINE r == run[p]
           c == IF file \in Unreadable THEN r.cred ELSE file
           q == [r EXCEPT !.pc = "ready", !.cred = c]
<1>1. file' = file /\ r.pc = "rc.reload" /\ Set(p, q)
  BY Zenon DEF AutoRenewed
<1>2. Typed(p, r) /\ r.recov = "none" /\ r.exec = 0 /\ ~r.reauth
      /\ Held(r.cred)
  BY <1>1, Renewing, Zenon DEF RenewPcs
<1>3. Held(c)
  BY <1>2, ReadableHeld, Zenon
<1> HIDE DEF r, c
<1>5. Carried(q, r) /\ q.cred = c /\ q.client = r.client /\ q.new = r.new /\ q.pc = "ready"
  BY <1>2, Zenon DEF Carried, Typed, RunFields
<1> HIDE DEF q
<1>6. Typed(p, q)
  BY <1>2, <1>3, <1>5, CarriedTyped, Zenon DEF Typed, Kept
<1>7. Phased(q) /\ Spent(q)
  BY <1>2, <1>3, <1>5 DEF Phased, Spent, Carried, OpPcs, PickupPcs, RenewPcs
<1>8. Stepped(p) /\ run'[p] = q
  BY <1>1, <1>6, <1>7, SetSafe, ZenonT(60) DEF RunInv
<1> QED
  BY <1>5, <1>8, Zenon

\* The next phase of an operation, with a token perhaps.
Onward(q, r) ==
  /\ Carried(q, r) /\ q.client = r.client /\ q.new = r.new /\ q.aud = r.aud
  /\ Held(q.cred) /\ q.cred.cert = r.cred.cert
  /\ q.pc \in {"tok.save", "tok.write", "wire"}

LEMMA OnwardSafe ==
  ASSUME NEW p, NEW r, Typed(p, r), InOp(r), r.exec = 0, NEW q, Onward(q, r)
  PROVE  RunInv(p, q)
<1>1. Typed(p, q)
  <2>1. Carried(q, r) /\ Kept(q.cred) /\ Kept(q.client) /\ Kept(q.new)
    BY Zenon DEF Typed, Kept, Onward
  <2> QED
    BY <2>1, CarriedTyped, Zenon
<1>2. Phased(q) /\ Spent(q)
  BY DEF Onward, Phased, Spent, InOp, Carried, OpPcs, PickupPcs, RenewPcs, Typed
<1> QED
  BY <1>1, <1>2, Zenon DEF RunInv

\* What a token request's answers come to.
LEMMA TokenErrors ==
  ASSUME NEW s \in TokenAnswers
  PROVE  /\ RequestToken(s) \notin {"broker_pin_mismatch", "access_paused", "token_expired",
                                    "unauthorized", "broker_unreachable"}
         /\ RequestToken(s) = "token_denied" => s = "refused"
         /\ s \in {"refused", "server_error", "proxy", "lost"} => RequestToken(s) # "ok"
  BY DEF TokenAnswers, RequestToken, RejectKind

\* A token taken.
LEMMA WithTokenTaken ==
  ASSUME World, NEW p, NEW r, Typed(p, r), Held(r.cred)
  PROVE  LET q == [WithToken(r) EXCEPT !.pc = "tok.save"]
         IN  /\ Onward(q, r) /\ q.pc = "tok.save" /\ q.fault = r.fault
             /\ q.aud = "broker" => q.cred.btok = Token("broker", q.cred.cert)
<1> DEFINE q == [WithToken(r) EXCEPT !.pc = "tok.save"]
           b == [r.cred EXCEPT !.btok = Token("broker", r.cred.cert)]
           c == [r.cred EXCEPT !.stok = Token("server", r.cred.cert)]
<1>1. Held(b) /\ b.cert = r.cred.cert /\ b.btok = Token("broker", r.cred.cert)
  BY BrokerTokenTaken, Zenon
<1>2. Held(c) /\ c.cert = r.cred.cert
  BY ServerTokenTaken, Zenon
<1>3. CASE r.aud = "broker"
  <2>1. q = [[r EXCEPT !.cred = b] EXCEPT !.pc = "tok.save"]
    BY <1>3, Zenon DEF WithToken
  <2> HIDE DEF q, b
  <2>2. /\ Carried(q, r) /\ q.client = r.client /\ q.new = r.new /\ q.aud = r.aud
        /\ q.cred = b /\ q.pc = "tok.save" /\ q.fault = r.fault
    BY <2>1, Zenon DEF Carried, Typed, RunFields
  <2> QED
    BY <1>1, <2>2, Zenon DEF Onward, q
<1>4. CASE r.aud # "broker"
  <2>1. q = [[r EXCEPT !.cred = c] EXCEPT !.pc = "tok.save"]
    BY <1>4, Zenon DEF WithToken
  <2> HIDE DEF q, c
  <2>2. /\ Carried(q, r) /\ q.client = r.client /\ q.new = r.new /\ q.aud = r.aud
        /\ q.cred = c /\ q.pc = "tok.save" /\ q.fault = r.fault
    BY <2>1, Zenon DEF Carried, Typed, RunFields
  <2> QED
    BY <1>2, <1>4, <2>2, Zenon DEF Onward, q
<1> QED
  BY <1>3, <1>4, Zenon

\* Where an operation's error leads.
LEMMA FailedPcs ==
  ASSUME NEW p \in Agents, NEW r, Typed(p, r), InOp(r), NEW e, NEW q,
         q = OverRun(r, e) \/ Ended(q, r, e) \/ Earned(q, r, e)
  PROVE  /\ q.pc \in {"over", "opdone", "pk.post"}
         /\ q.pc = "pk.post" => Earned(q, r, e)
<1>1. q = OverRun(r, e) => q.pc = "over"
  BY OverSafe, Zenon
<1>2. Ended(q, r, e) => q.pc = "opdone"
  BY DoneSafe DEF Ended
<1> QED
  BY <1>1, <1>2, Zenon DEF Earned

LEMMA EnsureBrokerTokenStep ==
  ASSUME World, CredInv, NEW p \in Agents, EnsureBrokerToken(p)
  PROVE  Stepped(p) /\ Deserved(p)
<1>1. file' = file /\ run[p].pc = "tok"
  BY Zenon DEF EnsureBrokerToken
<1>2. Typed(p, run[p]) /\ InOp(run[p]) /\ run[p].exec = 0
  BY <1>1, Operating, Zenon
<1>3. CASE Set(p, [run[p] EXCEPT !.pc = "wire"])
  <2> DEFINE r == run[p]
             q == [r EXCEPT !.pc = "wire"]
  <2>1. Typed(p, r) /\ InOp(r) /\ r.exec = 0 /\ Set(p, q)
    BY <1>2, <1>3, Zenon
  <2> HIDE DEF r
  <2>2. Onward(q, r) /\ q.pc = "wire"
    BY <2>1, Zenon DEF Onward, Carried, Typed, RunFields, InOp
  <2> HIDE DEF q
  <2>3. Stepped(p) /\ run'[p] = q
    BY <1>1, <2>1, <2>2, OnwardSafe, SetSafe, ZenonT(60)
  <2> QED
    BY <2>2, <2>3, Zenon DEF Deserved
<1>4. ASSUME NEW s \in TokenAnswers,
             \/ Set(p, [WithToken(Saw(run[p], s)) EXCEPT !.pc = "tok.save"])
             \/ Set(p, OpFailed(Saw(run[p], s), RequestToken(s)))
      PROVE  Stepped(p) /\ Deserved(p)
  <2> DEFINE r == Saw(run[p], s)
             e == RequestToken(s)
             q == [WithToken(r) EXCEPT !.pc = "tok.save"]
             d == OpFailed(r, e)
  <2>1. Typed(p, r) /\ r.exec = 0 /\ r.cred = run[p].cred /\ r.client = run[p].client
        /\ r.kind = run[p].kind /\ r.aud = run[p].aud /\ r.saw = s
    BY <1>2, SawSame
  <2>2. Set(p, q) \/ Set(p, d)
    BY <1>4, Zenon
  <2> HIDE DEF r
  <2>3. InOp(r) /\ Held(r.cred)
    BY <1>2, <2>1, Zenon DEF InOp
  <2>4. CASE Set(p, q)
    <3>1. Onward(q, r) /\ q.pc = "tok.save"
      BY <2>1, <2>3, WithTokenTaken, ZenonT(60)
    <3> HIDE DEF q
    <3>2. Stepped(p) /\ run'[p] = q
      BY <1>1, <2>1, <2>3, <2>4, <3>1, OnwardSafe, SetSafe, ZenonT(60)
    <3> QED
      BY <3>1, <3>2, Zenon DEF Deserved
  <2>5. CASE Set(p, d)
    <3> HIDE DEF e
    <3>1. RunInv(p, d) /\ (d = OverRun(r, e) \/ Ended(d, r, e) \/ Earned(d, r, e))
      BY <2>1, <2>3, FailedSafe
    <3> HIDE DEF d
    <3>2. d.pc \in {"over", "opdone", "pk.post"} /\ (d.pc = "pk.post" => Earned(d, r, e))
      BY <2>1, <2>3, <3>1, FailedPcs, Zenon
    <3>3. Stepped(p) /\ run'[p] = d
      BY <1>1, <2>5, <3>1, <3>2, SetSafe, ZenonT(60)
    <3>4. Earned(d, r, e) => d.auths <= 1 /\ d.recov = "auth" /\ d.saw = "refused"
      <4>1. e # "broker_pin_mismatch" /\ e # "access_paused" /\ (e = "token_denied" => s = "refused")
        BY TokenErrors, Zenon DEF e
      <4> QED
        BY <2>1, <4>1, Zenon DEF Earned
    <3> QED
      BY <3>2, <3>3, <3>4, ZenonT(60) DEF Deserved
  <2> QED
    BY <2>2, <2>4, <2>5, ZenonT(60)
<1>5. \/ Set(p, [run[p] EXCEPT !.pc = "wire"])
      \/ \E s \in TokenAnswers :
           \/ Set(p, [WithToken(Saw(run[p], s)) EXCEPT !.pc = "tok.save"])
           \/ Set(p, OpFailed(Saw(run[p], s), RequestToken(s)))
  BY Zenon DEF EnsureBrokerToken
<1> QED
  BY <1>3, <1>4, <1>5, Zenon

LEMMA SaveTokenStep ==
  ASSUME CredInv, NEW p \in Agents, SaveToken(p)
  PROVE  Stepped(p) /\ run'[p].pc \in {"over", "wire"}
<1> DEFINE r == run[p]
           q == [r EXCEPT !.pc = "wire"]
           o == OverRun(r, "ok")
<1>1. run[p].pc = "tok.write" /\ Written(p) /\ (Set(p, q) \/ Set(p, o))
  BY Zenon DEF SaveToken
<1>2. Typed(p, r) /\ InOp(r) /\ r.exec = 0
  BY <1>1, Operating, Zenon
<1>3. file' = file \/ Held(file') \/ file' \in Torn
  BY <1>1, WrittenFile, Zenon DEF Writes
<1>4. Held(r.cred)
  BY <1>2, Zenon DEF InOp
<1>5. CASE Set(p, q)
  <2> HIDE DEF r
  <2>2. Onward(q, r) /\ q.pc = "wire"
    BY <1>2, <1>4, Zenon DEF Onward, Carried, Typed, RunFields
  <2> HIDE DEF q
  <2>3. Stepped(p) /\ run'[p] = q
    BY <1>2, <1>3, <1>5, <2>2, OnwardSafe, SetSafe, ZenonT(60)
  <2> QED
    BY <2>2, <2>3, Zenon
<1>6. CASE Set(p, o)
  <2>1. RunInv(p, o) /\ o.pc = "over"
    BY OverSafe, Zenon
  <2> HIDE DEF o
  <2>2. Stepped(p) /\ run'[p] = o
    BY <1>3, <1>6, <2>1, SetSafe, ZenonT(60)
  <2> QED
    BY <2>1, <2>2, ZenonT(60)
<1> QED
  BY <1>1, <1>5, <1>6, ZenonT(60)

LEMMA PerformWireStep ==
  ASSUME CredInv, NEW p \in Agents, NEW a \in Answers, NEW did \in BOOLEAN,
         PerformWire(p, a, did)
  PROVE  Stepped(p) /\ Deserved(p)
<1> DEFINE w == Saw(run[p], a)
           x == IF did THEN w.exec + 1 ELSE w.exec
           r == [w EXCEPT !.exec = x]
<1>1. file' = file /\ run[p].pc = "wire" /\ BrokerAnswer(run[p], a, did)
  BY Zenon DEF PerformWire
<1>2. Typed(p, run[p]) /\ InOp(run[p]) /\ run[p].exec = 0
  BY <1>1, Operating, ZenonT(60)
<1>3. Typed(p, w) /\ w.exec = 0 /\ w.cred = run[p].cred /\ w.client = run[p].client
      /\ w.kind = run[p].kind /\ w.aud = run[p].aud /\ w.saw = a
  BY <1>2, SawSame
<1>4. did => a \in {"ok", "broker_unreachable"}
  BY <1>1, Zenon DEF BrokerAnswer
<1>5. CASE a # "ok" /\ Set(p, WireFailed(r, a))
  <2>1. x \in 0 .. 1 /\ (x = 1 => a = "broker_unreachable")
    BY <1>3, <1>4, <1>5
  <2> HIDE DEF w, x
  <2>2. /\ DOMAIN r = RunFields /\ r.cred = w.cred /\ r.client = w.client /\ r.new = w.new
        /\ r.kind = w.kind /\ r.aud = w.aud /\ r.saw = a /\ r.exec = x /\ r.att = w.att
        /\ r.tries = w.tries /\ r.ops = w.ops /\ r.auths = w.auths /\ r.reauth = w.reauth
        /\ r.fault = w.fault /\ r.recov = w.recov
    BY <1>3, Zenon DEF Typed, RunFields
  <2> HIDE DEF r
  <2>3. Typed(p, r)
    BY <1>3, <2>1, <2>2, Zenon DEF Typed
  <2>4. InOp(r)
    BY <1>2, <1>3, <2>2, ZenonT(60) DEF InOp
  <2> DEFINE d == WireFailed(r, a)
  <2>5. /\ RunInv(p, d)
        /\ \/ d = OverRun(r, a) \/ Ended(d, r, a) \/ Earned(d, r, a)
           \/ d = [r EXCEPT !.pc = "tok", !.att = 2]
    <3>1. r.exec = 1 => a = "broker_unreachable"
      BY <2>1, <2>2, Zenon
    <3> QED
      BY <2>3, <2>4, <3>1, WireFailedSafe, ZenonT(60)
  <2>6. Set(p, d)
    BY <1>5, Zenon
  <2> HIDE DEF d
  <2>7. d.pc \in {"over", "opdone", "tok", "pk.post"} /\ (d.pc = "pk.post" => Earned(d, r, a))
    <3>1. CASE d = [r EXCEPT !.pc = "tok", !.att = 2]
      BY <2>2, <3>1, Zenon DEF RunFields
    <3>2. CASE d = OverRun(r, a) \/ Ended(d, r, a) \/ Earned(d, r, a)
      BY <2>3, <2>4, <3>2, FailedPcs, Zenon
    <3> QED
      BY <2>5, <3>1, <3>2, Zenon
  <2>8. Stepped(p) /\ run'[p] = d
    BY <1>1, <2>5, <2>6, <2>7, SetSafe, ZenonT(60)
  <2>9. Earned(d, r, a) => /\ d.auths <= 1
                           /\ \/ d.recov = "pin" /\ d.saw = "broker_pin_mismatch"
                              \/ d.recov = "auth" /\ d.saw = "access_paused"
    <3>1. a # "token_denied"
      BY Zenon DEF Answers
    <3> QED
      BY <2>2, <3>1, Zenon DEF Earned
  <2> QED
    BY <2>7, <2>8, <2>9, ZenonT(60) DEF Deserved
<1>6. CASE Set(p, OpDone(r, "ok")) /\ r.kind = "use"
  <2>1. x \in 0 .. 1
    BY <1>3
  <2> HIDE DEF w, x
  <2>2. /\ DOMAIN r = RunFields /\ r.cred = w.cred /\ r.client = w.client /\ r.new = w.new
        /\ r.kind = w.kind /\ r.aud = w.aud /\ r.saw = a /\ r.exec = x /\ r.att = w.att
        /\ r.tries = w.tries /\ r.ops = w.ops /\ r.auths = w.auths /\ r.reauth = w.reauth
        /\ r.fault = w.fault /\ r.recov = w.recov
    BY <1>3, Zenon DEF Typed, RunFields
  <2> HIDE DEF r
  <2>3. Typed(p, r)
    BY <1>3, <2>1, <2>2, ZenonT(60) DEF Typed
  <2>4. InOp(r)
    BY <1>2, <1>3, <2>2 DEF InOp
  <2> DEFINE d == OpDone(r, "ok")
  <2>5. RunInv(p, d) /\ d.pc = "opdone"
    BY <1>6, <2>3, <2>4, DoneSafe
  <2>6. Set(p, d)
    BY <1>6, Zenon
  <2> HIDE DEF d
  <2>7. Stepped(p) /\ run'[p] = d
    BY <1>1, <2>5, <2>6, SetSafe, ZenonT(60)
  <2> QED
    BY <2>5, <2>7, Zenon DEF Deserved
<1>7. CASE Set(p, OverRun(r, "ok"))
  <2> DEFINE o == OverRun(r, "ok")
  <2>1. RunInv(p, o) /\ o.pc = "over"
    BY OverSafe, ZenonT(60)
  <2>2. Set(p, o)
    BY <1>7, Zenon
  <2> HIDE DEF o
  <2>3. Stepped(p) /\ run'[p] = o
    BY <1>1, <2>1, <2>2, SetSafe, ZenonT(60)
  <2> QED
    BY <2>1, <2>3, Zenon DEF Deserved
<1>8. \/ a # "ok" /\ Set(p, WireFailed(r, a))
      \/ Set(p, OpDone(r, "ok")) /\ r.kind = "use"
      \/ Set(p, OverRun(r, "ok"))
  BY Zenon DEF PerformWire
<1> QED
  BY <1>5, <1>6, <1>7, <1>8, ZenonT(60)

LEMMA NextOpStep ==
  ASSUME CredInv, NEW p \in Agents, NextOp(p)
  PROVE  Stepped(p) /\ run'[p].pc \in {"over", "tok"}
<1> DEFINE r == run[p]
           q == [r EXCEPT !.pc = "tok", !.ops = r.ops + 1, !.att = 1, !.recov = "none",
                          !.orig = "none", !.saw = "none", !.exec = 0, !.out = "none"]
<1>1. file' = file /\ r.pc = "opdone"
  BY Zenon DEF NextOp
<1>2. Typed(p, r) /\ InOp(r) /\ r.kind = "use"
  BY <1>1, RunNow, Zenon DEF Phased, OpPcs
<1>3. CASE r.ops + 1 = MaxOps[p]
  <2>1. Set(p, OverRun(r, r.out))
    BY <1>3, Zenon DEF NextOp
  <2> QED
    BY <1>1, <2>1, OverSafe, SetSafe
<1>4. CASE r.ops + 1 # MaxOps[p]
  <2>1. Set(p, q)
    BY <1>4, Zenon DEF NextOp
  <2> HIDE DEF r
  <2>2. /\ DOMAIN q = RunFields /\ q.cred = r.cred /\ q.client = r.client /\ q.new = r.new
        /\ q.kind = r.kind /\ q.aud = r.aud /\ q.exec = 0 /\ q.att = 1
        /\ q.tries = r.tries /\ q.ops = r.ops + 1 /\ q.auths = r.auths /\ q.reauth = r.reauth
        /\ q.fault = r.fault /\ q.recov = "none" /\ q.pc = "tok"
    BY <1>2, Zenon DEF Typed, RunFields
  <2> HIDE DEF q
  <2>3. r.ops + 1 \in Nat /\ r.ops + 1 < MaxOps[p]
    BY <1>2, <1>4, AgentAssumption DEF Typed
  <2>4. Typed(p, q)
    BY <1>2, <2>2, <2>3 DEF Typed
  <2>5. Phased(q) /\ Spent(q)
    BY <1>2, <2>2 DEF Phased, Spent, InOp, OpPcs, PickupPcs, RenewPcs
  <2>6. Stepped(p) /\ run'[p] = q
    BY <1>1, <2>1, <2>2, <2>4, <2>5, SetSafe, ZenonT(60) DEF RunInv
  <2> QED
    BY <2>2, <2>6, Zenon
<1> QED
  BY <1>3, <1>4, Zenon

\* What one pass of the pickup's request comes to (signed_call).
LEMMA PickupPass ==
  ASSUME NEW n, NEW o \in {"ok", "403", "transport"}
  PROVE  LET pass == SignedCall(FALSE, "POST", n, o)
         IN  \/ pass.next = "answer" /\ o = "ok"
             \/ pass.next = "again" /\ o = "transport" /\ n < MaxRetries
             \/ pass.next = "fail" /\ o # "ok"
  BY Zenon DEF SignedCall, RefuseWriteIfReadOnly, Attempted, Pass

\* The next phase of a pickup.
Claimed(q, r) ==
  /\ DOMAIN q = RunFields /\ q.kind = r.kind /\ q.recov = r.recov
  /\ q.att = r.att /\ q.tries \in 0 .. MaxRetries /\ q.ops = r.ops /\ q.exec = r.exec
  /\ q.auths = r.auths /\ q.reauth = r.reauth /\ q.fault \in BOOLEAN
  /\ q.cred = r.cred /\ q.client = r.client /\ q.aud = r.aud
  /\ Kept(q.new) /\ (q.pc \in {"pk.tok", "pk.save", "pk.write"} => Held(q.new))

LEMMA ClaimedSafe ==
  ASSUME CredInv, NEW p \in Agents, run[p].pc \in PickupPcs, NEW q, Claimed(q, run[p]),
         \/ q.pc \in PickupPcs /\ (q.pc = "pk.load" => q.recov # "none")
         \/ q.pc = "load" /\ q.recov = "none"
  PROVE  RunInv(p, q)
<1> DEFINE r == run[p]
<1>1. Typed(p, r) /\ r.exec = 0 /\ (r.recov # "none" => InOp(r))
      /\ (r.recov = "none" => ~r.reauth)
  BY PickingUp, Zenon
<1>2. Claimed(q, r)
  BY Zenon
<1> HIDE DEF r
<1>3. Typed(p, q)
  BY <1>1, <1>2, ZenonT(60) DEF Typed, Claimed
<1>4. Phased(q) /\ Spent(q)
  BY <1>1, <1>2 DEF Phased, Spent, InOp, Claimed, OpPcs, PickupPcs, RenewPcs
<1> QED
  BY <1>3, <1>4, Zenon DEF RunInv

LEMMA PickupStep ==
  ASSUME World, CredInv, NEW p \in Agents, NEW o \in {"ok", "403", "transport"}, Pickup(p, o)
  PROVE  Stepped(p) /\ (run[p].pc = "pk.post")
<1> DEFINE r == run[p]
           pass == SignedCall(FALSE, "POST", r.tries, o)
           new == PoPCredential(Cert(issued + 1))
           q == [r EXCEPT !.pc = "pk.tok", !.tries = 0, !.new = new]
           w == Saw(r, "lost")
           g == [w EXCEPT !.tries = w.tries + 1]
           v == Saw(r, o)
           f == [v EXCEPT !.tries = 0]
           d == PickupFailed(f, pass.err)
<1>1. file' = file /\ r.pc = "pk.post"
  BY Zenon DEF Pickup
<1>2. Typed(p, r) /\ r.exec = 0 /\ (r.recov # "none" => InOp(r)) /\ r.pc \in PickupPcs
  BY <1>1, PickingUp, Zenon DEF PickupPcs
<1>3. /\ \/ pass.next = "answer"
         \/ pass.next = "again" /\ r.tries < MaxRetries
         \/ pass.next = "fail"
      /\ Set(p, CASE pass.next = "answer" -> q
                  [] pass.next = "again" -> g
                  [] pass.next = "fail" -> d)
  <2>1. \/ pass.next = "answer"
        \/ pass.next = "again" /\ r.tries < MaxRetries
        \/ pass.next = "fail"
    BY PickupPass, Zenon
  <2>2. Set(p, CASE pass.next = "answer" -> q
                 [] pass.next = "again" -> g
                 [] pass.next = "fail" -> d)
    BY ZenonT(60) DEF Pickup
  <2> QED
    BY <2>1, <2>2, Zenon
<1>4. MaxRetries \in Nat /\ r.tries \in 0 .. MaxRetries /\ 0 \in 0 .. MaxRetries
  BY <1>2, HttpAssumption DEF Typed
<1> HIDE DEF pass
<1>5. CASE Set(p, q)
  <2>1. Held(new)
    BY PickedUp DEF World
  <2> HIDE DEF new, r
  <2>2. Claimed(q, r) /\ q.pc = "pk.tok"
    BY <1>2, <1>4, <2>1, Zenon DEF Claimed, Typed, RunFields, Kept
  <2> HIDE DEF q
  <2>3. RunInv(p, q)
    BY <1>2, <2>2, ClaimedSafe, Zenon DEF PickupPcs, r
  <2> QED
    BY <1>1, <1>5, <2>3, SetSafe, ZenonT(60) DEF r
<1>6. CASE Set(p, g) /\ r.tries < MaxRetries
  <2>1. /\ Typed(p, w) /\ w.pc = r.pc /\ w.kind = r.kind /\ w.cred = r.cred
        /\ w.client = r.client /\ w.new = r.new /\ w.aud = r.aud /\ w.att = r.att
        /\ w.recov = r.recov /\ w.reauth = r.reauth /\ w.auths = r.auths
        /\ w.exec = r.exec /\ w.tries = r.tries
    BY <1>2, SawSame
  <2>2. w.ops = r.ops
    BY <1>2, Zenon DEF Saw, Typed, RunFields
  <2>3. w.tries + 1 \in 0 .. MaxRetries
    BY <1>4, <1>6, <2>1
  <2> HIDE DEF w, r
  <2>4. Claimed(g, r) /\ g.pc = "pk.post"
    BY <1>1, <1>2, <2>1, <2>2, <2>3, ZenonT(60) DEF Claimed, Typed, RunFields
  <2> HIDE DEF g
  <2>5. RunInv(p, g)
    BY <1>2, <2>4, ClaimedSafe, Zenon DEF PickupPcs, r
  <2> QED
    BY <1>1, <1>6, <2>5, SetSafe, ZenonT(60) DEF r
<1>7. CASE Set(p, d)
  <2>1. /\ Typed(p, v) /\ v.kind = r.kind /\ v.cred = r.cred
        /\ v.client = r.client /\ v.aud = r.aud /\ v.recov = r.recov
    BY <1>2, SawSame
  <2> HIDE DEF v, r
  <2>2. f.kind = v.kind /\ f.cred = v.cred /\ f.client = v.client /\ f.aud = v.aud
        /\ f.recov = v.recov /\ Typed(p, f)
    BY <1>4, <2>1, Zenon DEF Typed, RunFields
  <2> HIDE DEF f
  <2>3. f.recov # "none" => InOp(f)
    BY <1>2, <2>1, <2>2, Zenon DEF InOp
  <2>4. /\ RunInv(p, d)
        /\ \/ d = OverRun(f, pass.err)
           \/ d = OpDone(f, pass.err) /\ f.kind = "use" /\ f.recov # "none"
           \/ d = OpDone(f, f.orig) /\ f.kind = "use" /\ f.recov # "none"
    BY <2>2, <2>3, PickupFailedSafe, ZenonT(60)
  <2> HIDE DEF d
  <2>5. d.pc \in {"over", "opdone"}
    BY <2>2, <2>3, <2>4, OverSafe, DoneSafe
  <2> QED
    BY <1>1, <1>7, <2>4, <2>5, SetSafe, ZenonT(60) DEF r
<1> HIDE DEF q, g, d
<1> QED
  BY <1>3, <1>5, <1>6, <1>7, ZenonT(60)

LEMMA PickupTokenStep ==
  ASSUME World, CredInv, NEW p \in Agents, NEW s, PickupToken(p, s)
  PROVE  Stepped(p) /\ run'[p].pc = "pk.save"
<1> DEFINE r == Saw(run[p], s)
           t == IF s = "token" THEN Token("broker", r.new.cert) ELSE NoTok
           q == [r EXCEPT !.pc = "pk.save", !.new.btok = t]
<1>1. file' = file /\ run[p].pc = "pk.tok" /\ Set(p, q)
  BY Zenon DEF PickupToken
<1>2. Typed(p, run[p]) /\ run[p].pc \in PickupPcs /\ Held(run[p].new)
  BY <1>1, PickingUp, ZenonT(60) DEF PickupPcs
<1>3. /\ Typed(p, r) /\ r.kind = run[p].kind /\ r.cred = run[p].cred
      /\ r.client = run[p].client /\ r.new = run[p].new /\ r.aud = run[p].aud
      /\ r.att = run[p].att /\ r.recov = run[p].recov /\ r.reauth = run[p].reauth
      /\ r.auths = run[p].auths /\ r.exec = run[p].exec /\ r.tries = run[p].tries
  BY <1>2, SawSame
<1>4. r.ops = run[p].ops
  BY <1>2, Zenon DEF Saw, Typed, RunFields
<1> HIDE DEF r
<1>5. t = Token("broker", r.new.cert) \/ t = NoTok
  BY Zenon
<1> HIDE DEF t
<1>6. Held([r.new EXCEPT !.btok = t])
  BY <1>2, <1>3, <1>5, BrokerTokenTaken, ZenonT(60)
<1>7. /\ Carried(q, r) /\ q.cred = r.cred /\ q.client = r.client /\ q.aud = r.aud
      /\ q.new = [r.new EXCEPT !.btok = t] /\ q.pc = "pk.save"
  BY <1>3, ZenonT(60) DEF Carried, Typed, RunFields
<1> HIDE DEF q
<1>8. Claimed(q, run[p])
  BY <1>3, <1>4, <1>6, <1>7, ZenonT(60) DEF Claimed, Carried, Typed, Kept
<1>9. RunInv(p, q)
  BY <1>2, <1>7, <1>8, ClaimedSafe, Zenon DEF PickupPcs
<1>10. Stepped(p) /\ run'[p] = q
  BY <1>1, <1>7, <1>9, SetSafe, ZenonT(60)
<1> QED
  BY <1>7, <1>10, Zenon

LEMMA PickupAndSaveStep ==
  ASSUME CredInv, NEW p \in Agents, PickupAndSave(p)
  PROVE  Stepped(p) /\ run'[p].pc \in {"over", "load", "pk.load"}
<1> DEFINE s == run[p]
           r == [s EXCEPT !.new = NoFile]
           q == [r EXCEPT !.pc = "pk.load"]
           l == [r EXCEPT !.pc = "load"]
           o == OverRun(r, "ok")
<1>1. s.pc = "pk.write" /\ Written(p)
  BY Zenon DEF PickupAndSave
<1>2. Typed(p, s) /\ s.exec = 0 /\ (s.recov # "none" => InOp(s)) /\ Held(s.new) /\ s.pc \in PickupPcs
  BY <1>1, PickingUp, Zenon DEF PickupPcs
<1>3. \/ Set(p, q) /\ r.recov # "none"
      \/ Set(p, l) /\ r.recov = "none"
      \/ Set(p, o)
  BY Zenon DEF PickupAndSave
<1>4. file' = file \/ Held(file') \/ file' \in Torn
  BY <1>1, WrittenFile, Zenon DEF Writes
<1>5. s = run[p]
  BY Zenon
<1> HIDE DEF s
<1>6. Carried(r, s) /\ r.cred = s.cred /\ r.client = s.client /\ r.aud = s.aud /\ r.new = NoFile
  BY <1>1, <1>2, Zenon DEF Carried, Typed, RunFields
<1> HIDE DEF r
<1>7. CASE Set(p, q) /\ r.recov # "none"
  <2>1. Claimed(q, s) /\ q.pc = "pk.load" /\ q.recov # "none"
    BY <1>2, <1>6, <1>7, Zenon DEF Claimed, Carried, Typed, RunFields, Kept
  <2> HIDE DEF q
  <2>2. RunInv(p, q)
    BY <1>2, <1>5, <2>1, ClaimedSafe, Zenon DEF PickupPcs
  <2>3. Stepped(p) /\ run'[p] = q
    BY <1>4, <1>7, <2>2, SetSafe, ZenonT(60)
  <2> QED
    BY <2>1, <2>3, Zenon
<1>8. CASE Set(p, l) /\ r.recov = "none"
  <2>1. Claimed(l, s) /\ l.pc = "load" /\ l.recov = "none"
    BY <1>2, <1>6, <1>8, Zenon DEF Claimed, Carried, Typed, RunFields, Kept
  <2> HIDE DEF l
  <2>2. RunInv(p, l)
    BY <1>2, <1>5, <2>1, ClaimedSafe, Zenon
  <2>3. Stepped(p) /\ run'[p] = l
    BY <1>4, <1>8, <2>2, SetSafe, ZenonT(60)
  <2> QED
    BY <2>1, <2>3, Zenon
<1>9. CASE Set(p, o)
  <2>1. RunInv(p, o) /\ o.pc = "over"
    BY OverSafe, Zenon
  <2> HIDE DEF o
  <2>2. Stepped(p) /\ run'[p] = o
    BY <1>4, <1>9, <2>1, SetSafe, ZenonT(60)
  <2> QED
    BY <2>1, <2>2, Zenon
<1> QED
  BY <1>3, <1>7, <1>8, <1>9, ZenonT(60)

\* A save that fails ends what asked for it.
LEMMA SaveFailedSafe ==
  ASSUME CredInv, NEW p \in Agents, run[p].pc \in Saves \cup Writes
  PROVE  RunInv(p, SaveFailed(run[p])) /\ SaveFailed(run[p]).pc \in {"over", "ready", "opdone"}
<1> DEFINE r == run[p]
           e == "output_write_failed"
           w == Saw(r, "unsaved")
           n == [r EXCEPT !.new = NoFile]
<1>1. CASE r.pc \in {"tok.save", "tok.write"}
  <2> DEFINE d == OpFailed(w, e)
  <2>1. SaveFailed(r) = d
    BY <1>1, Zenon DEF SaveFailed
  <2>2. Typed(p, r) /\ InOp(r) /\ r.exec = 0
    BY <1>1, Operating, Zenon
  <2>3. Typed(p, w) /\ w.exec = 0 /\ w.cred = r.cred /\ w.client = r.client
        /\ w.kind = r.kind /\ w.aud = r.aud
    BY <2>2, SawSame
  <2> HIDE DEF w
  <2>4. InOp(w)
    BY <2>2, <2>3, ZenonT(60) DEF InOp
  <2>5. RunInv(p, d) /\ (d = OverRun(w, e) \/ Ended(d, w, e) \/ Earned(d, w, e))
    BY <2>3, <2>4, FailedSafe
  <2> HIDE DEF d
  <2>6. d.pc \in {"over", "opdone"}
    <3>1. d.pc \in {"over", "opdone", "pk.post"} /\ (d.pc = "pk.post" => Earned(d, w, e))
      BY <2>3, <2>4, <2>5, FailedPcs, ZenonT(60)
    <3>2. ~Earned(d, w, e)
      BY Zenon DEF Earned
    <3> QED
      BY <3>1, <3>2, Zenon
  <2> QED
    BY <2>1, <2>5, <2>6, Zenon
<1>2. CASE r.pc \in {"pk.save", "pk.write"}
  <2> DEFINE d == PickupFailed(n, e)
  <2>1. SaveFailed(r) = d
    BY <1>2, Zenon DEF SaveFailed
  <2>2. Typed(p, r) /\ (r.recov # "none" => InOp(r))
    BY <1>2, PickingUp, Zenon DEF PickupPcs
  <2> HIDE DEF r
  <2>3. Carried(n, r) /\ n.cred = r.cred /\ n.client = r.client /\ n.aud = r.aud /\ n.new = NoFile
    BY <2>2, Zenon DEF Carried, Typed, RunFields
  <2> HIDE DEF n
  <2>4. Typed(p, n) /\ (n.recov # "none" => InOp(n))
    BY <2>2, <2>3, ZenonT(60) DEF Carried, Typed, InOp, Kept
  <2>5. /\ RunInv(p, d)
        /\ \/ d = OverRun(n, e)
           \/ d = OpDone(n, e) /\ n.kind = "use" /\ n.recov # "none"
           \/ d = OpDone(n, n.orig) /\ n.kind = "use" /\ n.recov # "none"
    BY <2>4, PickupFailedSafe, ZenonT(60)
  <2> HIDE DEF d
  <2>6. d.pc \in {"over", "opdone"}
    BY <2>4, <2>5, OverSafe, DoneFields
  <2> QED
    BY <2>1, <2>5, <2>6, Zenon DEF r
<1>3. CASE r.pc \in {"rc.save", "rc.save2", "rc.write", "rc.write2"}
  <2>1. SaveFailed(r) = RenewalFailed(r, e)
    BY <1>3, Zenon DEF SaveFailed
  <2> QED
    BY <1>3, <2>1, RenewalEnds, Zenon DEF RenewPcs
<1> QED
  BY <1>1, <1>2, <1>3, Zenon DEF Saves, Writes

LEMMA OpenForSaveStep ==
  ASSUME CredInv, NEW p \in Agents, OpenForSave(p)
  PROVE  Stepped(p) /\ run'[p].pc \in {"over", "ready", "opdone"} \cup Writes
<1> DEFINE r == run[p]
           q == [r EXCEPT !.pc = WritePc(r.pc)]
<1>1. r.pc \in Saves
  BY Zenon DEF OpenForSave
<1>2. CASE file' = Empty /\ Set(p, q)
  <2>1. Typed(p, r)
    BY RunNow, Zenon
  <2>2. ASSUME NEW pc, pc = WritePc(r.pc), RunInv(p, [r EXCEPT !.pc = pc]), pc \in Writes
        PROVE  Stepped(p) /\ run'[p].pc \in Writes
    <3>1. Set(p, [r EXCEPT !.pc = pc])
      BY <1>2, <2>2, Zenon
    <3>2. file' \in Torn
      BY <1>2, Zenon DEF Torn
    <3>3. Stepped(p) /\ run'[p] = [r EXCEPT !.pc = pc]
      BY <2>2, <3>1, <3>2, SetSafe, Zenon
    <3>4. [r EXCEPT !.pc = pc].pc = pc
      BY <2>1, Zenon DEF Typed, RunFields
    <3> QED
      BY <2>2, <3>3, <3>4, Zenon
  <2>3. ASSUME NEW pc
        PROVE  LET s == [r EXCEPT !.pc = pc]
               IN  /\ Carried(s, r) /\ s.cred = r.cred /\ s.client = r.client /\ s.new = r.new
                   /\ s.aud = r.aud /\ s.pc = pc
    <3> HIDE DEF r
    <3> QED
      BY <2>1, Zenon DEF Carried, Typed, RunFields
  <2>4. ASSUME NEW pc, r.pc \in {"rc.save", "rc.save2"}, pc \in {"rc.write", "rc.write2"}
        PROVE  RunInv(p, [r EXCEPT !.pc = pc])
    <3> DEFINE s == [r EXCEPT !.pc = pc]
    <3>1. r.pc \in RenewPcs /\ Held(r.new)
      BY <2>4, Renewing, Zenon DEF RenewPcs
    <3>2. /\ Carried(s, r) /\ s.cred = r.cred /\ s.client = r.client /\ s.new = r.new /\ s.pc = pc
      BY <2>3, Zenon
    <3> HIDE DEF s
    <3>3. Renewed(s, r)
      BY <2>4, <3>1, <3>2, Zenon DEF Renewed
    <3> QED
      BY <3>1, <3>3, RenewedSafe, Zenon DEF s
  <2>5. ASSUME r.pc = "tok.save"
        PROVE  RunInv(p, [r EXCEPT !.pc = "tok.write"])
    <3> DEFINE s == [r EXCEPT !.pc = "tok.write"]
    <3>1. InOp(r) /\ r.exec = 0
      BY <2>5, Operating, Zenon
    <3>2. /\ Carried(s, r) /\ s.cred = r.cred /\ s.client = r.client /\ s.new = r.new
          /\ s.aud = r.aud /\ s.pc = "tok.write"
      BY <2>3, Zenon
    <3> HIDE DEF s
    <3>3. Onward(s, r)
      BY <3>1, <3>2, Zenon DEF Onward, InOp
    <3> QED
      BY <2>1, <3>1, <3>3, OnwardSafe, Zenon DEF s
  <2>6. ASSUME r.pc = "pk.save"
        PROVE  RunInv(p, [r EXCEPT !.pc = "pk.write"])
    <3> DEFINE s == [r EXCEPT !.pc = "pk.write"]
    <3>1. r.pc \in PickupPcs /\ Held(r.new)
      BY <2>6, PickingUp, Zenon DEF PickupPcs
    <3>2. /\ Carried(s, r) /\ s.cred = r.cred /\ s.client = r.client /\ s.new = r.new
          /\ s.aud = r.aud /\ s.pc = "pk.write"
      BY <2>3, Zenon
    <3> HIDE DEF s
    <3>3. Claimed(s, r)
      BY <2>1, <3>1, <3>2, Zenon DEF Claimed, Carried, Typed, Kept
    <3>4. s.pc \in PickupPcs /\ s.pc # "pk.load"
      BY <3>2, Zenon DEF PickupPcs
    <3> QED
      BY <3>1, <3>3, <3>4, ClaimedSafe, Zenon DEF s
  <2>7. CASE r.pc = "rc.save"
    <3>1. WritePc(r.pc) = "rc.write" /\ "rc.write" \in Writes
      BY <2>7, Zenon DEF WritePc, Writes
    <3>2. RunInv(p, [r EXCEPT !.pc = "rc.write"])
      BY <2>4, <2>7, SMT
    <3> QED
      BY <2>2, <3>1, <3>2, Zenon
  <2>8. CASE r.pc = "rc.save2"
    <3>1. WritePc(r.pc) = "rc.write2" /\ "rc.write2" \in Writes
      BY <2>8, Zenon DEF WritePc, Writes
    <3>2. RunInv(p, [r EXCEPT !.pc = "rc.write2"])
      BY <2>4, <2>8, SMT
    <3> QED
      BY <2>2, <3>1, <3>2, Zenon
  <2>9. CASE r.pc = "tok.save"
    <3>1. WritePc(r.pc) = "tok.write" /\ "tok.write" \in Writes
      BY <2>9, Zenon DEF WritePc, Writes
    <3> QED
      BY <2>2, <2>5, <2>9, <3>1, Zenon
  <2>10. CASE r.pc = "pk.save"
    <3>1. WritePc(r.pc) = "pk.write" /\ "pk.write" \in Writes
      BY <2>10, Zenon DEF WritePc, Writes
    <3> QED
      BY <2>2, <2>6, <2>10, <3>1, Zenon
  <2> QED
    BY <1>1, <2>7, <2>8, <2>9, <2>10, Zenon DEF Saves
<1>3. CASE file' = file /\ Set(p, SaveFailed(r))
  <2>1. RunInv(p, SaveFailed(r)) /\ SaveFailed(r).pc \in {"over", "ready", "opdone"}
    BY <1>1, SaveFailedSafe, Zenon
  <2>2. Stepped(p) /\ run'[p] = SaveFailed(r)
    BY <1>3, <2>1, SetSafe, Zenon
  <2> QED
    BY <2>1, <2>2, Zenon
<1> QED
  BY <1>2, <1>3, Zenon DEF OpenForSave

LEMMA WriteFailsStep ==
  ASSUME CredInv, NEW p \in Agents, WriteFails(p)
  PROVE  Stepped(p) /\ run'[p].pc \in {"over", "ready", "opdone"}
<1> DEFINE d == SaveFailed(run[p])
<1>1. run[p].pc \in Writes /\ file' \in HalfWritten(file, Saving(run[p])) /\ Set(p, d)
  BY Zenon DEF WriteFails
<1>2. RunInv(p, d) /\ d.pc \in {"over", "ready", "opdone"}
  BY <1>1, SaveFailedSafe, Zenon
<1>3. file' = file \/ Held(file') \/ file' \in Torn
  BY <1>1, WrittenFile, Zenon
<1> HIDE DEF d
<1>4. Stepped(p) /\ run'[p] = d
  BY <1>1, <1>2, <1>3, SetSafe, Zenon
<1> QED
  BY <1>2, <1>4, Zenon

LEMMA RepickupAndReloadStep ==
  ASSUME CredInv, NEW p \in Agents, RepickupAndReload(p)
  PROVE  /\ Stepped(p) /\ run'[p].pc \in {"tok", "opdone"}
         /\ file \notin Unreadable => run'[p].pc = "tok"
<1> DEFINE r == run[p]
           q == [r EXCEPT !.pc = "tok", !.att = 1, !.cred = file, !.client = file]
           d == PickupFailed(r, LoadError)
<1>1. file' = file /\ r.pc = "pk.load" /\ Set(p, IF file \in Unreadable THEN d ELSE q)
  BY Zenon DEF RepickupAndReload
<1>2. Typed(p, r) /\ r.exec = 0 /\ r.recov # "none" /\ InOp(r)
  <2>1. r.recov # "none"
    BY <1>1, RunNow, Zenon DEF Phased
  <2> QED
    BY <1>1, <2>1, PickingUp, Zenon DEF PickupPcs
<1>3. CASE file \in Unreadable
  <2>1. Set(p, d)
    BY <1>1, <1>3, Zenon
  <2> HIDE DEF r
  <2>2. /\ RunInv(p, d)
        /\ \/ d = OpDone(r, LoadError) /\ r.kind = "use"
           \/ d = OpDone(r, r.orig) /\ r.kind = "use"
    BY <1>2, PickupFailedSafe, ZenonT(60)
  <2> HIDE DEF d
  <2>3. d.pc = "opdone"
    BY <1>2, <2>2, DoneFields
  <2>4. Stepped(p) /\ run'[p] = d
    BY <1>1, <2>1, <2>2, SetSafe, ZenonT(60)
  <2> QED
    BY <1>3, <2>3, <2>4, Zenon
<1>4. CASE file \notin Unreadable
  <2>1. Set(p, q)
    BY <1>1, <1>4, Zenon
  <2>2. Held(file)
    BY <1>4, ReadableHeld, Zenon
  <2> HIDE DEF r
  <2>3. /\ DOMAIN q = RunFields /\ q.cred = file /\ q.client = file /\ q.new = r.new
        /\ q.kind = r.kind /\ q.aud = r.aud /\ q.exec = r.exec /\ q.att = 1
        /\ q.tries = r.tries /\ q.ops = r.ops /\ q.auths = r.auths /\ q.reauth = r.reauth
        /\ q.fault = r.fault /\ q.recov = r.recov /\ q.pc = "tok"
    BY <1>2, Zenon DEF Typed, RunFields
  <2> HIDE DEF q
  <2>4. Typed(p, q)
    BY <1>2, <2>2, <2>3 DEF Typed, Kept
  <2>5. Phased(q) /\ Spent(q)
    BY <1>2, <2>2, <2>3 DEF Phased, Spent, InOp, OpPcs, PickupPcs, RenewPcs
  <2>6. Stepped(p) /\ run'[p] = q
    BY <1>1, <2>1, <2>4, <2>5, SetSafe, ZenonT(60) DEF RunInv
  <2> QED
    BY <2>3, <2>6, Zenon
<1> QED
  BY <1>3, <1>4, Zenon

-----------------------------------------------------------------------------
(* The clock, the server and the provisions. *)

\* What a step of p may do outside its run and the file.
Around(p) ==
  /\ UNCHANGED <<now, bvars>>
  /\ events' = events \/ Event
  /\ solo' \in {p, "none"}
  /\ UNCHANGED ServerVars \/ Issue

LEMMA TokenAnswered ==
  ASSUME NEW cert, NEW s, TokenAnswer(cert, s)
  PROVE  events' = events \/ Event
  BY Zenon DEF TokenAnswer, NoEvent

LEMMA AgentAround ==
  ASSUME NEW p \in Agents, Command(p) \/ AgentStep(p) \/ Kill(p)
  PROVE  Around(p)
<1>1. CASE Command(p)
  <2>1. ASSUME NEW r, Begin(p, r)
        PROVE  Around(p)
    BY <2>1, Zenon DEF Begin, Around
  <2> QED
    BY <1>1, <2>1, Zenon DEF Command, OpenKeystore, RenewCertCommand, DirectCommand,
                             PickupCommand, RenewCommand
<1>2. CASE Load(p) \/ Ready(p) \/ RenewCertFlow(p) \/ AutoRenewed(p) \/ NextOp(p)
           \/ RepickupAndReload(p)
  BY <1>2, Zenon DEF Load, Ready, RenewCertFlow, AutoRenewed, NextOp, RepickupAndReload,
                     Keep, Around
<1>3. CASE RequestCertRenewal(p)
  BY <1>3, Zenon DEF RequestCertRenewal, Loses, NoEvent, Around
<1>4. CASE RotateAndSave(p) \/ SaveRenewed(p) \/ SaveToken(p) \/ PickupAndSave(p)
  BY <1>4, Zenon DEF RotateAndSave, SaveRenewed, SaveToken, PickupAndSave, Written, Keep, Around
<1>10. CASE OpenForSave(p) \/ WriteFails(p)
  BY <1>10, Zenon DEF OpenForSave, WriteFails, Loses, NoEvent, Around
<1>5. CASE EnsureBrokerToken(p)
  BY <1>5, TokenAnswered, Zenon DEF EnsureBrokerToken, Keep, NoEvent, Around
<1>6. ASSUME NEW s, RefreshTokens(p, s) \/ PickupToken(p, s)
      PROVE  Around(p)
  BY <1>6, TokenAnswered, Zenon DEF RefreshTokens, PickupToken, Keep, Around
<1>7. ASSUME NEW a, NEW did, PerformWire(p, a, did)
      PROVE  Around(p)
  <2>1. events' = events \/ Event
    BY <1>7, Zenon DEF PerformWire, BrokerAnswer, NoEvent
  <2> QED
    BY <1>7, <2>1, Zenon DEF PerformWire, Keep, Around
<1>8. ASSUME NEW o, Pickup(p, o)
      PROVE  Around(p)
  BY <1>8, Zenon DEF Pickup, Loses, NoEvent, Around
<1>9. CASE Kill(p)
  BY <1>9, Zenon DEF Kill, Unsettled, Around
<1> QED
  BY <1>1, <1>2, <1>3, <1>4, <1>5, <1>6, <1>7, <1>8, <1>9, <1>10, ZenonT(60) DEF AgentStep

LEMMA AroundWorld ==
  ASSUME World, NEW p \in Agents, Around(p)
  PROVE  World'
<1>1. UNCHANGED <<now, reg, used, prov>>
  BY Zenon DEF Around, bvars
<1>2. events' \in 0 .. MaxEvents
  <2>1. events' = events \/ (events < MaxEvents /\ events' = events + 1)
    BY Zenon DEF Around, Event
  <2> QED
    BY <2>1, BrokerAssumption DEF World
<1>3. /\ issued' \in Nat /\ DOMAIN grant' = {"state", "cur"}
      /\ grant'.state \in {"active", "wait", "paused"} /\ grant'.cur \in 0 .. issued'
  <2>1. CASE UNCHANGED ServerVars
    BY <2>1, Zenon DEF ServerVars, World
  <2>2. CASE Issue
    BY <2>2 DEF Issue, World
  <2> QED
    BY <2>1, <2>2, Zenon DEF Around
<1>4. solo' \in Agents \cup Provs \cup {"none"}
  BY Zenon DEF Around
<1> QED
  BY <1>1, <1>2, <1>3, <1>4, ZenonT(60) DEF World

\* A new key's number is one that no provision has (GenerateK3Key).
LEMMA NewKey ==
  ASSUME World, NEW v \in Provs, prov[v].pc = "start"
  PROVE  1 + Cardinality({w \in Provs : prov[w].pc # "start"}) \in 0 .. Cardinality(Provs)
<1> DEFINE S == {w \in Provs : prov[w].pc # "start"}
<1>1. S \in SUBSET Provs /\ S # Provs
  BY Zenon
<1> HIDE DEF S
<1>2. /\ Cardinality(S) \in Nat /\ Cardinality(Provs) \in Nat
      /\ Cardinality(S) < Cardinality(Provs)
  BY <1>1, ProvsCounted, Zenon DEF World, Counted
<1>3. 1 + Cardinality(S) \in 0 .. Cardinality(Provs)
  BY <1>2
<1> QED
  BY <1>3, Zenon DEF S

\* The runs of provision keep their shape and their numbers.
LEMMA ProvSet ==
  ASSUME World, NEW v \in Provs, NEW r, SetProv(v, r), DOMAIN r = ProvFields,
         r.key \in 0 .. Cardinality(Provs)
  PROVE  /\ DOMAIN prov' = Provs
         /\ \A w \in Provs : DOMAIN prov'[w] = ProvFields /\ prov'[w].key \in 0 .. Cardinality(Provs)
         /\ prov'[v] = r /\ \A w \in Provs \ {v} : prov'[w] = prov[w]
  BY Zenon DEF World, SetProv

LEMMA ProvOver ==
  ASSUME NEW r, NEW out
  PROVE  /\ DOMAIN OverProv(r, out) = ProvFields /\ OverProv(r, out).key = r.key
         /\ OverProv(r, out).pc = "over" /\ OverProv(r, out).stale = {}
  BY Zenon DEF OverProv, Fresh, ProvFields

\* What a step of a provision does to the other variables.
ProvAround(v) ==
  /\ UNCHANGED <<now, grant, issued>>
  /\ events' = events \/ Event
  /\ solo' \in {v, "none"}
  /\ reg' \in {reg, prov[v].key} /\ used' \subseteq used \cup {v}
  /\ \E r : /\ SetProv(v, r) /\ DOMAIN r = ProvFields
            /\ r.key \in 0 .. Cardinality(Provs)

LEMMA ProvStepAround ==
  ASSUME World, NEW v \in Provs, ProvStep(v) \/ KillProvision(v), UNCHANGED avars
  PROVE  ProvAround(v)
<1> DEFINE s == prov[v]
           Ok(r) == DOMAIN r = ProvFields /\ r.key \in 0 .. Cardinality(Provs)
<1>1. Ok(s)
  BY Zenon DEF World
<1>2. UNCHANGED <<grant, issued>>
  BY Zenon DEF avars
<1>3. \A out : Ok(OverProv(s, out))
  BY <1>1, ProvOver, Zenon
<1>4. CASE GenerateK3Key(v)
  <2> DEFINE key == 1 + Cardinality({w \in Provs : prov[w].pc # "start"})
             made == GenerateBrokerSeKey(GenerationLabel(key), key)
  <2>1. s.pc = "start" /\ UNCHANGED <<now, events, reg, used>> /\ solo' \in {v, "none"}
    BY <1>4, Zenon DEF GenerateK3Key, Others
  <2>2. SetProv(v, [s EXCEPT !.pc = "post", !.key = key]) \/ SetProv(v, OverProv(s, made.val))
    BY <1>4, Zenon DEF GenerateK3Key
  <2>3. key \in 0 .. Cardinality(Provs)
    BY <2>1, NewKey, Zenon
  <2> HIDE DEF key, s
  <2>4. Ok([s EXCEPT !.pc = "post", !.key = key])
    BY <1>1, <2>3, Zenon DEF ProvFields
  <2> HIDE DEF made
  <2> QED
    BY <1>2, <1>3, <2>1, <2>2, <2>4, ZenonT(60) DEF ProvAround
<1>5. ASSUME NEW o, Provision(v, o)
      PROVE  ProvAround(v)
  <2> DEFINE pass == PostText(FALSE, s.tries, o)
             q == [s EXCEPT !.pc = "save", !.tries = 0]
             g == [s EXCEPT !.tries = s.tries + 1]
             c == CASE pass.next = "answer" -> q
                    [] pass.next = "again" -> g
                    [] pass.next = "fail" -> OverProv(s, pass.err)
  <2>1. /\ now' = now /\ (events' = events \/ Event) /\ reg' \in {reg, s.key}
        /\ used' \subseteq used \cup {v} /\ solo' \in {v, "none"}
    BY <1>5, Zenon DEF Provision, Others, NoEvent
  <2>2. SetProv(v, c)
    BY <1>5, Zenon DEF Provision
  <2>3. pass.next \in {"answer", "again", "fail"}
    BY Zenon DEF PostText, RefuseWriteIfReadOnly, Attempted, Pass
  <2> HIDE DEF pass, s
  <2>4. Ok(q) /\ Ok(g)
    BY <1>1, Zenon DEF ProvFields
  <2>5. Ok(c)
    BY <1>3, <2>3, <2>4, ZenonT(60)
  <2> HIDE DEF c
  <2> QED
    BY <1>2, <2>1, <2>2, <2>5, ZenonT(60) DEF ProvAround, s
<1>6. CASE OpenCredentialFile(v) \/ Save(v) \/ ListStaleKeys(v) \/ SweepStaleKeys(v)
           \/ KillProvision(v) \/ VerifyBrokerServing(v)
  <2>1. /\ UNCHANGED <<now, reg, used>> /\ (events' = events \/ Event) /\ solo' \in {v, "none"}
    BY <1>6, Zenon DEF OpenCredentialFile, Save, ListStaleKeys, SweepStaleKeys, VerifyBrokerServing,
                       KillProvision, Others, NoEvent
  <2>2. \E pc, stale, left : \/ SetProv(v, [s EXCEPT !.pc = pc])
                             \/ SetProv(v, [s EXCEPT !.pc = pc, !.stale = stale])
                             \/ SetProv(v, [s EXCEPT !.left = left])
                             \/ \E out : SetProv(v, OverProv(s, out))
    <3>1. CASE OpenCredentialFile(v) \/ Save(v) \/ ListStaleKeys(v) \/ SweepStaleKeys(v)
               \/ KillProvision(v)
      BY <3>1, Zenon DEF OpenCredentialFile, Save, ListStaleKeys, SweepStaleKeys, KillProvision
    <3>2. CASE VerifyBrokerServing(v)
      <4> DEFINE c == VerifyServing(AssembleCredential(v))
      <4>1. SetProv(v, CASE c -> OverProv(s, "ok")
                         [] ~c /\ s.left > 1 -> [s EXCEPT !.left = s.left - 1]
                         [] OTHER -> OverProv(s, "broker_not_serving"))
        BY <3>2, Zenon DEF VerifyBrokerServing
      <4> HIDE DEF c, s
      <4>2. \/ SetProv(v, OverProv(s, "ok")) \/ SetProv(v, [s EXCEPT !.left = s.left - 1])
            \/ SetProv(v, OverProv(s, "broker_not_serving"))
        BY <4>1, Zenon
      <4> QED
        BY <4>2, Zenon DEF s
    <3> QED
      BY <1>6, <3>1, <3>2, ZenonT(60)
  <2> HIDE DEF s
  <2>3. \A pc, stale, left : /\ Ok([s EXCEPT !.pc = pc]) /\ Ok([s EXCEPT !.left = left])
                             /\ Ok([s EXCEPT !.pc = pc, !.stale = stale])
    BY <1>1, Zenon DEF ProvFields
  <2> QED
    BY <1>2, <1>3, <2>1, <2>2, <2>3, ZenonT(60) DEF ProvAround
<1>7. ASSUME NEW i, KickstartBroker(v, i)
      PROVE  ProvAround(v)
  <2>1. /\ UNCHANGED <<now, reg, used, events>> /\ solo' \in {v, "none"}
    BY <1>7, Zenon DEF KickstartBroker, Others
  <2>2. SetProv(v, [s EXCEPT !.pc = "probe"]) \/ SetProv(v, OverProv(s, "not_started"))
    BY <1>7, Zenon DEF KickstartBroker
  <2> HIDE DEF s
  <2>3. Ok([s EXCEPT !.pc = "probe"])
    BY <1>1, Zenon DEF ProvFields
  <2> QED
    BY <1>2, <1>3, <2>1, <2>2, <2>3, ZenonT(60) DEF ProvAround
<1> QED
  BY <1>4, <1>5, <1>6, <1>7, ZenonT(60) DEF ProvStep

LEMMA NextWorld ==
  ASSUME World, [Next]_vars
  PROVE  World'
<1>1. ASSUME NEW p \in Agents, Command(p) \/ AgentStep(p) \/ Kill(p)
      PROVE  World'
  BY <1>1, AgentAround, AroundWorld, ZenonT(60)
<1>2. ASSUME NEW v \in Provs, ProvStep(v) \/ KillProvision(v), UNCHANGED avars
      PROVE  World'
  <2>1. ProvAround(v)
    BY <1>2, ProvStepAround, Zenon
  <2>2. PICK r : SetProv(v, r) /\ DOMAIN r = ProvFields /\ r.key \in 0 .. Cardinality(Provs)
    BY <2>1, Zenon DEF ProvAround
  <2>3. DOMAIN prov' = Provs
        /\ \A w \in Provs : DOMAIN prov'[w] = ProvFields /\ prov'[w].key \in 0 .. Cardinality(Provs)
    BY <2>2, ProvSet, Zenon
  <2>4. events' \in 0 .. MaxEvents
    <3>1. events' = events \/ (events < MaxEvents /\ events' = events + 1)
      BY <2>1, Zenon DEF ProvAround, Event
    <3> QED
      BY <3>1, BrokerAssumption DEF World
  <2>5. reg' \in 0 .. Cardinality(Provs) /\ used' \subseteq Provs
    BY <2>1, Zenon DEF ProvAround, World
  <2>6. solo' \in Agents \cup Provs \cup {"none"}
    BY <2>1, ZenonT(60) DEF ProvAround
  <2> QED
    BY <2>1, <2>3, <2>4, <2>5, <2>6, ZenonT(60) DEF World, ProvAround
<1>3. CASE (ServeFromCredential \/ DaemonDies) /\ UNCHANGED avars
  <2>1. UNCHANGED <<now, grant, issued, reg, used, prov>> /\ solo' = "none"
        /\ (events' = events \/ (events < MaxEvents /\ events' = events + 1))
    BY <1>3, Zenon DEF ServeFromCredential, DaemonDies, Unsettled, avars, Event
  <2> QED
    BY <2>1, BrokerAssumption DEF World
<1>4. CASE Pause \/ Reauthorize
  <2>1. UNCHANGED <<now, issued, reg, used, prov>> /\ solo' = "none"
        /\ (events' = events \/ (events < MaxEvents /\ events' = events + 1))
    BY <1>4, Zenon DEF Pause, Reauthorize, Unsettled, bvars, Event
  <2>2. grant' = [state |-> "paused", cur |-> 0] \/ grant' = [grant EXCEPT !.state = "wait"]
    BY <1>4, Zenon DEF Pause, Reauthorize
  <2>3. DOMAIN grant' = {"state", "cur"} /\ grant'.state \in {"active", "wait", "paused"}
        /\ grant'.cur \in {0, grant.cur}
    BY <2>2 DEF World
  <2> QED
    BY <2>1, <2>3, BrokerAssumption DEF World
<1>5. CASE Tick
  <2>1. UNCHANGED <<grant, issued, reg, used, prov>> /\ solo' = "none" /\ now' \in Jumps
        /\ events < MaxEvents /\ events' = events + 1
    BY <1>5, Zenon DEF Tick, Unsettled, bvars, avars, Event
  <2> QED
    BY <2>1, BrokerAssumption, AgentAssumption DEF World
<1>6. CASE UNCHANGED vars
  BY <1>6, Zenon DEF vars, bvars, avars, World
<1> QED
  BY <1>1, <1>2, <1>3, <1>4, <1>5, <1>6, ZenonT(60) DEF Next

\* Every step of a command is safe, and earns the pickup it begins.
LEMMA AgentSafe ==
  ASSUME World, CredInv, NEW p \in Agents, Command(p) \/ AgentStep(p) \/ Kill(p)
  PROVE  Stepped(p) /\ Deserved(p)
<1> DEFINE Good == Stepped(p) /\ Deserved(p)
<1>0. Stepped(p) /\ (run'[p].pc # "pk.post" \/ run[p].pc = "pk.post") => Good
  BY Zenon DEF Deserved
<1>1. CASE Kill(p)
  <2>1. Set(p, OverRun(run[p], "killed")) /\ (file' = file \/ file' \in Torn)
    BY <1>1, ZenonT(60) DEF Kill, Torn
  <2>2. Stepped(p) /\ run'[p] = OverRun(run[p], "killed")
    BY <2>1, OverSafe, SetSafe, ZenonT(60)
  <2>3. run'[p].pc = "over"
    BY <2>2, OverSafe
  <2> QED
    BY <1>0, <2>2, <2>3, Zenon
<1>2. ASSUME Stepped(p), run'[p].pc \in {"over", "ready", "tok", "wire", "opdone", "load", "pk.load",
               "pk.save", "rc.load", "rc.post", "rc.save", "rc.stok", "rc.btok", "rc.save2", "rc.reload"}
               \cup Writes
      PROVE  Good
  BY <1>0, <1>2, Zenon DEF Writes
<1>3. CASE Load(p)
  BY <1>2, <1>3, LoadStep, Zenon
<1>4. CASE Ready(p)
  BY <1>2, <1>4, ReadyStep, Zenon
<1>5. CASE RenewCertFlow(p)
  BY <1>2, <1>5, RenewCertFlowStep, Zenon
<1>6. CASE RequestCertRenewal(p)
  BY <1>2, <1>6, RequestCertRenewalStep, Zenon
<1>7. CASE RotateAndSave(p)
  BY <1>2, <1>7, RotateAndSaveStep, Zenon
<1>8. CASE SaveRenewed(p)
  BY <1>2, <1>8, SaveRenewedStep, Zenon
<1>9. CASE AutoRenewed(p)
  BY <1>2, <1>9, AutoRenewedStep, Zenon
<1>10. CASE NextOp(p)
  BY <1>2, <1>10, NextOpStep, Zenon
<1>11. CASE PickupAndSave(p)
  BY <1>2, <1>11, PickupAndSaveStep, Zenon
<1>12. CASE RepickupAndReload(p)
  BY <1>2, <1>12, RepickupAndReloadStep, Zenon
<1>13. ASSUME NEW s, RefreshTokens(p, s)
       PROVE  Good
  BY <1>2, <1>13, RefreshTokensStep, Zenon
<1>14. ASSUME NEW s, PickupToken(p, s)
       PROVE  Good
  BY <1>2, <1>14, PickupTokenStep, Zenon
<1>15. ASSUME NEW o \in {"ok", "403", "transport"}, Pickup(p, o)
       PROVE  Good
  BY <1>0, <1>15, PickupStep, Zenon
<1>16. CASE SaveToken(p)
  BY <1>2, <1>16, SaveTokenStep, Zenon
<1>17. CASE OpenForSave(p)
  BY <1>2, <1>17, OpenForSaveStep, Zenon
<1>18. CASE WriteFails(p)
  BY <1>2, <1>18, WriteFailsStep, Zenon
<1> QED
  BY <1>1, <1>3, <1>4, <1>5, <1>6, <1>7, <1>8, <1>9, <1>10, <1>11, <1>12, <1>13, <1>14, <1>15,
     <1>16, <1>17, <1>18, CommandStep, EnsureBrokerTokenStep, PerformWireStep, ZenonT(60) DEF AgentStep, Begins

\* Everybody else leaves the agent's commands and their file alone.
Elsewhere ==
  \/ \E v \in Provs : (ProvStep(v) \/ KillProvision(v)) /\ UNCHANGED avars
  \/ (ServeFromCredential \/ DaemonDies) /\ UNCHANGED avars
  \/ Pause \/ Reauthorize \/ Tick

LEMMA ElsewhereSame ==
  ASSUME Elsewhere
  PROVE  UNCHANGED <<run, file>>
  BY Zenon DEF Elsewhere, Pause, Reauthorize, Tick, avars

LEMMA NextCred ==
  ASSUME World, CredInv, [Next]_vars
  PROVE  CredInv' /\ \A p \in Agents : Deserved(p)
<1>1. ASSUME NEW p \in Agents, Command(p) \/ AgentStep(p) \/ Kill(p)
      PROVE  CredInv' /\ \A q \in Agents : Deserved(q)
  <2>1. Stepped(p) /\ Deserved(p)
    BY <1>1, AgentSafe, Zenon
  <2>2. DOMAIN run' = Agents /\ Stored(file')
    BY <2>1, Zenon DEF Stepped
  <2>3. ASSUME NEW q \in Agents
        PROVE  RunInv(q, run'[q]) /\ Deserved(q)
    <3>1. CASE q = p
      BY <2>1, <3>1, Zenon DEF Stepped
    <3>2. CASE q # p
      <4>1. run'[q] = run[q]
        BY <2>1, <3>2, Zenon DEF Stepped
      <4> QED
        BY <4>1, Zenon DEF CredInv, Deserved
    <3> QED
      BY <3>1, <3>2, Zenon
  <2> QED
    BY <2>2, <2>3, Zenon DEF CredInv
<1>2. CASE Elsewhere \/ UNCHANGED vars
  <2>1. UNCHANGED <<run, file>>
    BY <1>2, ElsewhereSame, Zenon DEF vars, avars
  <2> QED
    BY <2>1, Zenon DEF CredInv, Deserved
<1> QED
  BY <1>1, <1>2, Zenon DEF Next, Elsewhere

LEMMA InitWorld ==
  ASSUME Init, Counted
  PROVE  World
<1>1. now = 0 /\ events = 0 /\ solo = "none" /\ reg = 0 /\ used = {} /\ issued = 1
  BY Zenon DEF Init, BrokerInit
<1>2. grant = [state |-> "wait", cur |-> 0] \/ grant = [state |-> "active", cur |-> 1]
  BY Zenon DEF Init
<1>3. DOMAIN prov = Provs /\ \A v \in Provs : DOMAIN prov[v] = ProvFields /\ prov[v].key = 0
  <2>1. PICK cast \in Casts : prov = [v \in Provs |-> IF v \in cast THEN Fresh ELSE OverProv(Fresh, "none")]
    BY Zenon DEF Init
  <2>2. DOMAIN Fresh = ProvFields /\ Fresh.key = 0
    BY Zenon DEF Fresh, ProvFields
  <2>3. DOMAIN OverProv(Fresh, "none") = ProvFields /\ OverProv(Fresh, "none").key = 0
    BY <2>2, ProvOver, Zenon
  <2> QED
    BY <2>1, <2>2, <2>3, Zenon
<1>4. 0 \in 0 .. Cardinality(Provs) /\ 0 \in 0 .. MaxTime /\ 0 \in 0 .. MaxEvents
  BY ProvsCounted, BrokerAssumption
<1>5. DOMAIN grant = {"state", "cur"} /\ grant.state \in {"active", "wait", "paused"}
      /\ grant.cur \in 0 .. issued
  BY <1>1, <1>2
<1> QED
  BY <1>1, <1>3, <1>4, <1>5, ZenonT(60) DEF World

LEMMA InitCred ==
  ASSUME Init, Counted
  PROVE  CredInv
<1>1. World
  BY InitWorld, Zenon
<1>2. PICK cast \in Casts : run = [p \in Agents |-> IF p \in cast THEN Idle ELSE OverRun(Idle, "none")]
  BY Zenon DEF Init
<1>3. ASSUME NEW p \in Agents
      PROVE  RunInv(p, Idle) /\ Idle.pc = "start"
  <2> DEFINE q == Idle
  <2>1. /\ DOMAIN q = RunFields /\ q.cred = NoFile /\ q.client = NoFile /\ q.new = NoFile
        /\ q.att = 1 /\ q.tries = 0 /\ q.ops = 0 /\ q.exec = 0 /\ q.auths = 0
        /\ q.reauth = FALSE /\ q.fault = FALSE /\ q.recov = "none" /\ q.pc = "start"
    BY Zenon DEF Idle, RunFields
  <2> HIDE DEF q
  <2>2. MaxOps[p] \in Nat \ {0} /\ MaxRetries \in Nat
    BY AgentAssumption, HttpAssumption, Zenon
  <2>3. q.reauth \in BOOLEAN /\ q.fault \in BOOLEAN /\ (~q.reauth => q.auths = 0)
    BY <2>1, Zenon
  <2>4. Kept(q.cred) /\ Kept(q.client) /\ Kept(q.new)
    BY <2>1, Zenon DEF Kept
  <2>5. /\ q.att \in 1 .. 2 /\ q.tries \in 0 .. MaxRetries /\ q.ops \in Nat
        /\ q.ops < MaxOps[p] /\ q.exec \in 0 .. 1 /\ q.auths \in 0 .. 1
    BY <2>1, <2>2, SMT
  <2>6. Typed(p, q)
    BY <2>1, <2>3, <2>4, <2>5, ZenonT(60) DEF Typed
  <2>7. Phased(q) /\ Spent(q)
    BY <2>1 DEF Phased, Spent, OpPcs, PickupPcs, RenewPcs
  <2> QED
    BY <2>1, <2>6, <2>7, Zenon DEF RunInv, q
<1>4. ASSUME NEW p \in Agents
      PROVE  RunInv(p, run[p]) /\ run[p].pc \in {"start", "over"}
  <2>1. run[p] = Idle \/ run[p] = OverRun(Idle, "none")
    BY <1>2, Zenon
  <2> QED
    BY <1>3, <2>1, OverSafe
<1>5. Stored(file)
  <2>1. Held(Connected)
    BY <1>1, PickedUp, Zenon DEF Connected
  <2>2. Held([Connected EXCEPT !.btok = Token("broker", Connected.cert)])
    <3> HIDE DEF Connected
    <3> QED
      BY <1>1, <2>1, BrokerTokenTaken, Zenon
  <2> QED
    BY <2>2, Zenon DEF Init, Stored, Kept
<1>6. DOMAIN run = Agents
  BY <1>2, Zenon
<1> QED
  BY <1>4, <1>5, <1>6, Zenon DEF CredInv

-----------------------------------------------------------------------------
(* A command left alone. *)

\* A credential that the broker and the server of the moment would take.
Fit(c) == c.pin = reg /\ Known(c.cert)

\* Why a command left alone may fail.
Excused(cert) ==
  grant.state = "paused" \/ Handshake(daemon, reg) # "ok" \/ ~Chains(cert)

\* A command that recovers, undisturbed and without a loss: what a pickup gave it still
\* fits, a token it replaced is of this moment, and what it gave up on is excused.
Alone(p) ==
  LET r == run[p]
  IN  solo = p /\ r.kind = "use" /\ ~r.fault =>
        /\ r.pc \in {"tok", "tok.save", "tok.write", "wire"} /\ r.recov # "none" => Fit(r.client)
        /\ r.pc \in OpPcs /\ r.reauth => grant.state = "paused" \/ Known(r.client.cert)
        /\ r.pc \in {"pk.tok", "pk.save", "pk.write"} => Fit(r.new)
        /\ r.pc = "pk.write" => file = Empty
        /\ r.pc = "pk.load" => Held(file) /\ Fit(file)
        /\ r.pc \in {"tok.save", "tok.write"} \/ (r.pc = "wire" /\ r.att = 2) =>
             r.cred.btok = Token("broker", r.cred.cert)
        /\ r.pc = "opdone" /\ r.out # "ok" => Excused(r.client.cert)

\* A command left alone finds a credential to load, and if its keystore does not open,
\* the grant is paused or somebody's save has torn the file.
Opened(p) ==
  solo = p =>
    /\ run[p].pc = "load" /\ run[p].kind = "use" => file # NoFile
    /\ run[p].pc = "over" /\ run[p].out = "unopened" => grant.state = "paused" \/ file \in Torn

AloneInv == \A p \in Agents : Alone(p) /\ Opened(p)

\* In a step of p, what the broker is and what time it is stay.
LEMMA SameMoment ==
  ASSUME UNCHANGED <<now, bvars>>
  PROVE  /\ reg' = reg /\ now' = now
         /\ (Handshake(daemon, reg) # "ok") => (Handshake(daemon, reg) # "ok")'
         /\ \A c : Chains(c) <=> K2ClientCertVerifier(c, now')
<1>1. daemon' = daemon /\ reg' = reg /\ se' = se /\ now' = now
  BY Zenon DEF bvars
<1>2. (Handshake(daemon, reg))' = Handshake(daemon, reg)
  BY <1>1, Zenon DEF Handshake, BrokerSeSign, VerifyK3Binding
<1> QED
  BY <1>1, <1>2, Zenon DEF Chains

\* A daemon that cannot be reached under one pin does not serve under another.
LEMMA UnreachableAnyPin ==
  ASSUME NEW d, NEW a, NEW b, Handshake(d, a) = "unreachable"
  PROVE  Handshake(d, b) # "ok"
  BY Zenon DEF Handshake, K2ServerCertVerifier

\* A step of p that leaves p alone began so, and lost nothing.
LEMMA StillAlone ==
  ASSUME NEW p \in Agents, Keep(p) \/ Loses(p), solo' = p
  PROVE  solo = p /\ (Loses(p) => events' = events)
  BY AgentAssumption, Zenon DEF Keep, Loses

\* A step to a phase of which nothing is claimed.
LEMMA NothingClaimed ==
  ASSUME NEW p \in Agents, run'[p].pc \in {"over", "load", "ready", "pk.post", "rc.load", "rc.post",
           "rc.save", "rc.write", "rc.stok", "rc.btok", "rc.save2", "rc.write2", "rc.reload"}
  PROVE  Alone(p)'
  BY Zenon DEF Alone, OpPcs

\* A refusal that ends the operation of a command left alone: the authorization was
\* fresh, or was tried to be, so the grant is paused.
LEMMA RefusalExcused ==
  ASSUME NEW p \in Agents, Alone(p), solo = p, run[p].kind = "use", ~run[p].fault,
         run[p].pc \in {"tok", "wire"}, ~Known(run[p].client.cert),
         NEW e \in {"access_paused", "token_denied"},
         run[p].recov # "none" \/ RecoveryFor(e, run[p].reauth) = "none"
  PROVE  grant.state = "paused"
<1>1. run[p].recov = "none"
  BY Zenon DEF Alone, Fit
<1>2. run[p].reauth
  BY <1>1, Zenon DEF RecoveryFor
<1> QED
  BY <1>2, Zenon DEF Alone, OpPcs

\* The operation of a command left alone ends: the claims about it that remain.
LEMMA EndedClaims ==
  ASSUME NEW p \in Agents, run'[p].pc = "opdone", UNCHANGED <<now, bvars>>,
         run'[p].client = run[p].client, run'[p].reauth = run[p].reauth,
         grant' = grant,
         run[p].reauth => grant.state = "paused" \/ Known(run[p].client.cert),
         run'[p].out # "ok" => Excused(run[p].client.cert)
  PROVE  Alone(p)'
<1>1. (run'[p].out # "ok") => Excused(run[p].client.cert)'
  <2> DEFINE c == run[p].client.cert
  <2>1. ASSUME Excused(c)
        PROVE  \/ grant'.state = "paused" \/ (Handshake(daemon, reg) # "ok")'
               \/ ~K2ClientCertVerifier(c, now')
    <3> HIDE DEF c
    <3> QED
      BY <2>1, SameMoment, Zenon DEF Excused
  <2>2. run'[p].client.cert = c
    BY Zenon
  <2> HIDE DEF c
  <2> QED
    BY <2>1, <2>2, Zenon DEF Excused, Chains, c
<1>2. run'[p].reauth => grant'.state = "paused" \/ Known(run[p].client.cert)'
  BY Zenon DEF Known
<1> QED
  BY <1>1, <1>2, Zenon DEF Alone, OpPcs

LEMMA EnsureBrokerTokenAlone ==
  ASSUME World, CredInv, NEW p \in Agents, Alone(p), EnsureBrokerToken(p)
  PROVE  Alone(p)'
<1> SUFFICES ASSUME solo' = p, run'[p].kind = "use", ~run'[p].fault
             PROVE  Alone(p)'
  BY Zenon DEF Alone
<1>1. run[p].pc = "tok" /\ Keep(p) /\ UNCHANGED <<now, bvars>> /\ UNCHANGED <<grant, issued>>
  BY Zenon DEF EnsureBrokerToken, ServerVars
<1>2. solo = p
  BY <1>1, StillAlone, Zenon
<1>3. Typed(p, run[p]) /\ InOp(run[p]) /\ run[p].exec = 0 /\ DOMAIN run = Agents
  BY <1>1, Operating, Zenon DEF CredInv
<1>4. CASE ~NeedsToken(run[p]) /\ Set(p, [run[p] EXCEPT !.pc = "wire"])
  <2> DEFINE r == run[p]
             q == [r EXCEPT !.pc = "wire"]
  <2>1. run'[p] = q
    BY <1>3, <1>4, Zenon DEF Set
  <2>2. Typed(p, r)
    BY <1>3, Zenon
  <2> HIDE DEF r
  <2>3. /\ q.pc = "wire" /\ q.kind = r.kind /\ q.fault = r.fault /\ q.recov = r.recov
        /\ q.client = r.client /\ q.reauth = r.reauth /\ q.att = r.att /\ q.cred = r.cred
    BY <2>2, Zenon DEF Typed, RunFields
  <2> HIDE DEF q
  <2>4. r.kind = "use" /\ ~r.fault /\ r.att # 2
    BY <1>4, <2>1, <2>3, ZenonT(60) DEF NeedsToken, r
  <2>5. (r.recov # "none" => Fit(r.client)) /\ (r.reauth => grant.state = "paused" \/ Known(r.client.cert))
    BY <1>1, <1>2, <2>4, ZenonT(60) DEF Alone, OpPcs, r
  <2>6. reg' = reg /\ grant' = grant
    BY <1>1, Zenon DEF bvars
  <2> QED
    BY <2>1, <2>3, <2>4, <2>5, <2>6, ZenonT(60) DEF Alone, OpPcs, Fit, Known
<1>5. ASSUME NEW s \in TokenAnswers, NeedsToken(run[p]), TokenAnswer(run[p].cred.cert, s),
             Set(p, IF s = "token" THEN [WithToken(Saw(run[p], s)) EXCEPT !.pc = "tok.save"]
                    ELSE OpFailed(Saw(run[p], s), RequestToken(s)))
      PROVE  Alone(p)'
  <2> DEFINE w == Saw(run[p], s)
             e == RequestToken(s)
             q == [WithToken(w) EXCEPT !.pc = "tok.save"]
             d == OpFailed(w, e)
  <2>1. /\ Typed(p, w) /\ w.exec = 0 /\ w.cred = run[p].cred /\ w.client = run[p].client
        /\ w.kind = run[p].kind /\ w.aud = run[p].aud /\ w.recov = run[p].recov
        /\ w.reauth = run[p].reauth /\ w.fault = (run[p].fault \/ events' # events)
    BY <1>3, SawSame
  <2>2. run'[p] = IF s = "token" THEN q ELSE d
    BY <1>3, <1>5, Zenon DEF Set
  <2> HIDE DEF w
  <2>3. InOp(w) /\ Held(w.cred)
    BY <1>3, <2>1, ZenonT(60) DEF InOp
  <2>4. CASE s = "token"
    <3>1. Onward(q, w) /\ q.pc = "tok.save" /\ q.fault = w.fault
          /\ (q.aud = "broker" => q.cred.btok = Token("broker", q.cred.cert))
      BY <2>1, <2>3, WithTokenTaken, ZenonT(60)
    <3>2. run'[p] = q
      BY <2>2, <2>4, Zenon
    <3> HIDE DEF q
    <3>3. q.kind = w.kind /\ q.recov = w.recov /\ q.reauth = w.reauth /\ q.client = w.client /\ q.aud = w.aud
      BY <3>1, Zenon DEF Onward, Carried
    <3>4. run[p].kind = "use" /\ ~run[p].fault
      BY <2>1, <3>1, <3>2, <3>3, ZenonT(60)
    <3>5. q.cred.btok = Token("broker", q.cred.cert)
      BY <1>3, <2>1, <3>1, <3>3, <3>4, ZenonT(60) DEF InOp
    <3>6. run[p].recov # "none" => Fit(run[p].client)
      BY <1>1, <1>2, <3>4, ZenonT(60) DEF Alone
    <3>7. run[p].reauth => grant.state = "paused" \/ Known(run[p].client.cert)
      BY <1>1, <1>2, <3>4, ZenonT(60) DEF Alone, OpPcs
    <3>8. reg' = reg /\ grant' = grant /\ now' = now
      BY <1>1, Zenon DEF bvars
    <3> QED
      BY <2>1, <3>1, <3>2, <3>3, <3>5, <3>6, <3>7, <3>8, ZenonT(60) DEF Alone, OpPcs, Fit, Known, Token
  <2>5. CASE s # "token"
    <3>1. run'[p] = d
      BY <2>2, <2>5, ZenonT(60)
    <3> HIDE DEF e
    <3>2. RunInv(p, d) /\ (d = OverRun(w, e) \/ Ended(d, w, e) \/ Earned(d, w, e))
      BY <2>1, <2>3, FailedSafe
    <3> HIDE DEF d
    <3>3. d.pc \in {"over", "opdone", "pk.post"}
      BY <2>1, <2>3, <3>2, FailedPcs, ZenonT(60)
    <3>4. CASE d.pc # "opdone"
      BY <3>1, <3>3, <3>4, NothingClaimed, ZenonT(60)
    <3>5. CASE d.pc = "opdone"
      <4>1. Ended(d, w, e)
        BY <3>2, <3>5, OverSafe, ZenonT(60) DEF Earned
      <4>2. /\ w.kind = "use" /\ (w.recov # "none" \/ RecoveryFor(e, w.reauth) = "none")
            /\ d.out = e /\ d.fault = w.fault /\ d.reauth = w.reauth /\ d.client = w.client
        BY <2>1, <2>3, <4>1, DoneSafe DEF Ended
      <4>3. run[p].kind = "use" /\ ~run[p].fault /\ events' = events
        BY <2>1, <3>1, <4>2, ZenonT(60)
      <4>4. run[p].client.cert = run[p].cred.cert
        BY <1>3, <4>3, Zenon DEF InOp
      <4>5. \/ s = "refused" /\ ~Known(run[p].client.cert)
            \/ ~Chains(run[p].client.cert)
        <5>1. ~Event
          BY <4>3 DEF Event, World
        <5> QED
          BY <1>5, <2>5, <4>4, <5>1, ZenonT(60) DEF TokenAnswer
      <4>6. Excused(run[p].client.cert)
        <5>1. CASE ~Chains(run[p].client.cert)
          BY <5>1, Zenon DEF Excused
        <5>2. CASE s = "refused" /\ ~Known(run[p].client.cert)
          <6>1. e = "token_denied"
            BY <5>2, Zenon DEF e, RequestToken, RejectKind
          <6>2. grant.state = "paused"
            BY <1>1, <1>2, <2>1, <4>2, <4>3, <5>2, <6>1, RefusalExcused, ZenonT(60)
          <6> QED
            BY <6>2, Zenon DEF Excused
        <5> QED
          BY <4>5, <5>1, <5>2, ZenonT(60)
      <4>7. run[p].reauth => grant.state = "paused" \/ Known(run[p].client.cert)
        BY <1>1, <1>2, <4>3, Zenon DEF Alone, OpPcs
      <4> QED
        BY <1>1, <2>1, <3>1, <3>5, <4>2, <4>6, <4>7, EndedClaims, ZenonT(60)
    <3> QED
      BY <3>4, <3>5, Zenon
  <2> QED
    BY <2>4, <2>5, ZenonT(60)
<1> QED
  BY <1>4, <1>5, Zenon DEF EnsureBrokerToken

LEMMA SaveTokenAlone ==
  ASSUME CredInv, NEW p \in Agents, Alone(p), SaveToken(p)
  PROVE  Alone(p)'
<1> SUFFICES ASSUME solo' = p, run'[p].kind = "use", ~run'[p].fault
             PROVE  Alone(p)'
  BY Zenon DEF Alone
<1> DEFINE r == run[p]
           q == [r EXCEPT !.pc = "wire"]
<1>1. r.pc = "tok.write" /\ Keep(p) /\ UNCHANGED <<now, bvars>> /\ UNCHANGED <<grant, issued>>
  BY Zenon DEF SaveToken, Written, ServerVars
<1>2. solo = p
  BY <1>1, StillAlone, Zenon
<1>3. Typed(p, r) /\ DOMAIN run = Agents
  BY <1>1, Operating, ZenonT(60) DEF CredInv
<1>5. Set(p, q) \/ Set(p, OverRun(r, "ok"))
  BY Zenon DEF SaveToken
<1>6. CASE Set(p, OverRun(r, "ok"))
  <2>1. run'[p] = OverRun(r, "ok")
    BY <1>3, <1>6, Zenon DEF Set
  <2> QED
    BY <2>1, OverSafe, NothingClaimed, ZenonT(60)
<1>7. CASE Set(p, q)
  <2>1. run'[p] = q
    BY <1>3, <1>7, Zenon DEF Set
  <2> HIDE DEF r
  <2>2. /\ q.pc = "wire" /\ q.kind = r.kind /\ q.fault = r.fault /\ q.recov = r.recov
        /\ q.client = r.client /\ q.reauth = r.reauth /\ q.cred = r.cred
    BY <1>3, Zenon DEF Typed, RunFields
  <2> HIDE DEF q
  <2>3. r.kind = "use" /\ ~r.fault
    BY <2>1, <2>2, Zenon
  <2>4. /\ r.recov # "none" => Fit(r.client)
        /\ r.reauth => grant.state = "paused" \/ Known(r.client.cert)
        /\ r.cred.btok = Token("broker", r.cred.cert)
    BY <1>1, <1>2, <2>3, ZenonT(60) DEF Alone, OpPcs, r
  <2>5. reg' = reg /\ grant' = grant /\ now' = now
    BY <1>1, Zenon DEF bvars
  <2> QED
    BY <2>1, <2>2, <2>4, <2>5, ZenonT(60) DEF Alone, OpPcs, Fit, Known, Token
<1> QED
  BY <1>5, <1>6, <1>7, ZenonT(60)

\* The broker takes a token it is shown at once, with the certificate it was issued to.
LEMMA FreshTokenTaken ==
  ASSUME World, NEW c, Held(c), c.btok = Token("broker", c.cert)
  PROVE  /\ VerifyStructural(c.btok, "broker", CertSanHandle(c.cert).val, c.cert.n) = "ok"
         /\ ~(now > c.btok.exp + Skew)
<1>1. c.cert.role = "prsn" /\ c.cert.id = Handle /\ c.cert.n \in Nat
  BY Zenon DEF Held
<1>2. /\ c.btok.aud = "broker" /\ c.btok.sub = Handle /\ c.btok.cnf = c.cert.n
      /\ c.btok.exp = now + TokenTtl
  BY <1>1, TokenBound
<1>3. CertSanHandle(c.cert).val = Handle
  BY <1>1, Zenon DEF CertSanHandle, Yes
<1>4. now \in Nat /\ TokenTtl \in Nat /\ Skew \in Nat
  BY BrokerAssumption, PkiAssumption DEF World
<1> QED
  BY <1>2, <1>3, <1>4 DEF VerifyStructural

\* The broker's refusal that ends the operation of a command left alone.
LEMMA WireExcused ==
  ASSUME World, CredInv, NEW p \in Agents, Alone(p), solo = p, run[p].kind = "use", ~run[p].fault,
         run[p].pc = "wire", NEW a, NEW did, BrokerAnswer(run[p], a, did), a # "ok", events' = events,
         run[p].recov # "none" \/ RecoveryFor(a, run[p].reauth) = "none",
         run[p].att = 2 \/ a \notin {"token_expired", "unauthorized"}
  PROVE  Excused(run[p].client.cert)
<1> DEFINE r == run[p]
           c == r.client.cert
<1>1. InOp(r) /\ c = r.cred.cert
  BY Operating, Zenon DEF InOp
<1>2. ~Event
  BY DEF Event, World
<1>3. \/ Handshake(daemon, r.client.pin) = "unreachable" \/ ~Chains(c)
      \/ a = "broker_pin_mismatch" /\ Handshake(daemon, r.client.pin) = "pin_mismatch"
      \/ a = "unauthorized"
           /\ VerifyStructural(r.cred.btok, "broker", CertSanHandle(c).val, c.n) # "ok"
      \/ a = "token_expired" /\ now > r.cred.btok.exp + Skew
      \/ a = "access_paused" /\ ~Known(c)
  BY <1>2, Zenon DEF BrokerAnswer
<1>4. CASE Handshake(daemon, r.client.pin) = "unreachable" \/ ~Chains(c)
  BY <1>4, UnreachableAnyPin, Zenon DEF Excused
<1>5. CASE a = "broker_pin_mismatch" /\ Handshake(daemon, r.client.pin) = "pin_mismatch"
  <2>1. r.recov # "none"
    BY <1>5, Zenon DEF RecoveryFor
  <2>2. r.client.pin = reg
    BY <2>1, Zenon DEF Alone, Fit
  <2>3. Handshake(daemon, reg) = "pin_mismatch"
    BY <1>5, <2>2, Zenon
  <2> HIDE DEF c
  <2> QED
    BY <2>3, Zenon DEF Excused
<1>6. CASE \/ a = "unauthorized"
                /\ VerifyStructural(r.cred.btok, "broker", CertSanHandle(c).val, c.n) # "ok"
           \/ a = "token_expired" /\ now > r.cred.btok.exp + Skew
  <2>1. r.att = 2
    BY <1>6, Zenon
  <2>2. r.cred.btok = Token("broker", r.cred.cert)
    BY <2>1, Zenon DEF Alone
  <2>3. Held(r.cred)
    BY <1>1, Zenon DEF InOp
  <2> QED
    BY <1>1, <1>6, <2>2, <2>3, FreshTokenTaken, ZenonT(60)
<1>7. CASE a = "access_paused" /\ ~Known(c)
  <2>1. grant.state = "paused"
    BY <1>7, RefusalExcused, Zenon
  <2> QED
    BY <2>1, Zenon DEF Excused
<1> QED
  BY <1>3, <1>4, <1>5, <1>6, <1>7, ZenonT(60)

LEMMA PerformWireAlone ==
  ASSUME World, CredInv, NEW p \in Agents, Alone(p), NEW a \in Answers, NEW did \in BOOLEAN,
         PerformWire(p, a, did)
  PROVE  Alone(p)'
<1> SUFFICES ASSUME solo' = p, run'[p].kind = "use", ~run'[p].fault
             PROVE  Alone(p)'
  BY Zenon DEF Alone
<1> DEFINE w == Saw(run[p], a)
           x == IF did THEN w.exec + 1 ELSE w.exec
           r == [w EXCEPT !.exec = x]
<1>1. /\ run[p].pc = "wire" /\ BrokerAnswer(run[p], a, did) /\ Keep(p)
      /\ UNCHANGED <<now, bvars>> /\ UNCHANGED <<grant, issued>>
  BY Zenon DEF PerformWire, ServerVars
<1>2. solo = p
  BY <1>1, StillAlone, Zenon
<1>3. Typed(p, run[p]) /\ InOp(run[p]) /\ run[p].exec = 0 /\ DOMAIN run = Agents
  BY <1>1, Operating, ZenonT(60) DEF CredInv
<1>4. /\ Typed(p, w) /\ w.exec = 0 /\ w.cred = run[p].cred /\ w.client = run[p].client
      /\ w.kind = run[p].kind /\ w.aud = run[p].aud /\ w.recov = run[p].recov
      /\ w.reauth = run[p].reauth /\ w.att = run[p].att
      /\ w.fault = (run[p].fault \/ events' # events)
  BY <1>3, SawSame
<1>5. did => a \in {"ok", "broker_unreachable"}
  BY <1>1, ZenonT(60) DEF BrokerAnswer
<1>6. x \in 0 .. 1 /\ (a # "ok" /\ x = 1 => a = "broker_unreachable")
  BY <1>4, <1>5
<1>7. \/ a # "ok" /\ Set(p, WireFailed(r, a))
      \/ Set(p, OpDone(r, "ok")) /\ r.kind = "use"
      \/ Set(p, OverRun(r, "ok"))
  BY Zenon DEF PerformWire
<1> HIDE DEF w, x
<1>8. /\ DOMAIN r = RunFields /\ r.cred = w.cred /\ r.client = w.client /\ r.new = w.new
      /\ r.kind = w.kind /\ r.aud = w.aud /\ r.exec = x /\ r.att = w.att
      /\ r.tries = w.tries /\ r.ops = w.ops /\ r.auths = w.auths /\ r.reauth = w.reauth
      /\ r.fault = w.fault /\ r.recov = w.recov
  BY <1>4, Zenon DEF Typed, RunFields
<1> HIDE DEF r
<1>9. Typed(p, r)
  BY <1>4, <1>6, <1>8, ZenonT(60) DEF Typed
<1>10. InOp(r)
  BY <1>3, <1>4, <1>8, ZenonT(60) DEF InOp
<1>11. CASE a # "ok" /\ Set(p, WireFailed(r, a))
  <2> DEFINE d == WireFailed(r, a)
  <2>1. run'[p] = d
    BY <1>3, <1>11, ZenonT(60) DEF Set
  <2>2. /\ \/ d = OverRun(r, a) \/ Ended(d, r, a) \/ Earned(d, r, a)
           \/ d = [r EXCEPT !.pc = "tok", !.att = 2] /\ r.kind = "use"
        /\ Ended(d, r, a) => r.att = 2 \/ a \notin {"token_expired", "unauthorized"}
    <3>1. r.exec = 1 => a = "broker_unreachable"
      BY <1>6, <1>8, <1>11, ZenonT(60)
    <3> QED
      BY <1>9, <1>10, <3>1, WireFailedSafe, ZenonT(60)
  <2> HIDE DEF d
  <2>3. CASE d = OverRun(r, a) \/ Earned(d, r, a)
    <3>1. d.pc \in {"over", "pk.post"}
      BY <2>3, OverSafe, ZenonT(60) DEF Earned
    <3> QED
      BY <2>1, <3>1, NothingClaimed, ZenonT(60)
  <2>4. CASE d = [r EXCEPT !.pc = "tok", !.att = 2] /\ r.kind = "use"
    <3>1. d.pc = "tok" /\ d.kind = r.kind /\ d.fault = r.fault /\ d.recov = r.recov
          /\ d.client = r.client /\ d.reauth = r.reauth
      BY <1>8, <2>4, Zenon DEF RunFields
    <3>2. run[p].kind = "use" /\ ~run[p].fault
      BY <1>4, <1>8, <2>1, <3>1, ZenonT(60)
    <3>3. /\ run[p].recov # "none" => Fit(run[p].client)
          /\ run[p].reauth => grant.state = "paused" \/ Known(run[p].client.cert)
      BY <1>1, <1>2, <3>2, ZenonT(60) DEF Alone, OpPcs
    <3>4. reg' = reg /\ grant' = grant
      BY <1>1, ZenonT(60) DEF bvars
    <3> QED
      BY <1>4, <1>8, <2>1, <3>1, <3>3, <3>4, ZenonT(60) DEF Alone, OpPcs, Fit, Known
  <2>5. CASE Ended(d, r, a)
    <3>1. /\ r.kind = "use" /\ (r.recov # "none" \/ RecoveryFor(a, r.reauth) = "none")
          /\ d.pc = "opdone" /\ d.out = a /\ d.fault = r.fault /\ d.reauth = r.reauth
          /\ d.client = r.client
      BY <1>9, <1>10, <2>5, DoneFields DEF Ended
    <3>2. run[p].kind = "use" /\ ~run[p].fault /\ events' = events
      BY <1>4, <1>8, <2>1, <3>1, ZenonT(60)
    <3>3. /\ run[p].recov # "none" \/ RecoveryFor(a, run[p].reauth) = "none"
          /\ run[p].att = 2 \/ a \notin {"token_expired", "unauthorized"}
      BY <1>4, <1>8, <2>2, <2>5, <3>1, ZenonT(60)
    <3>4. Excused(run[p].client.cert)
      BY <1>1, <1>2, <1>11, <3>2, <3>3, WireExcused, ZenonT(60)
    <3>5. run[p].reauth => grant.state = "paused" \/ Known(run[p].client.cert)
      BY <1>1, <1>2, <3>2, ZenonT(60) DEF Alone, OpPcs
    <3> QED
      BY <1>1, <1>4, <1>8, <2>1, <3>1, <3>4, <3>5, EndedClaims, ZenonT(60)
  <2> QED
    BY <2>2, <2>3, <2>4, <2>5, ZenonT(60)
<1>12. CASE Set(p, OpDone(r, "ok")) /\ r.kind = "use"
  <2> DEFINE d == OpDone(r, "ok")
  <2>1. run'[p] = d
    BY <1>3, <1>12, ZenonT(60) DEF Set
  <2>2. d.pc = "opdone" /\ d.out = "ok" /\ d.fault = r.fault /\ d.reauth = r.reauth
        /\ d.client = r.client
    BY <1>9, <1>10, <1>12, DoneFields
  <2> HIDE DEF d
  <2>3. run[p].kind = "use" /\ ~run[p].fault
    BY <1>4, <1>8, <1>12, <2>1, <2>2, ZenonT(60)
  <2>4. run[p].reauth => grant.state = "paused" \/ Known(run[p].client.cert)
    BY <1>1, <1>2, <2>3, ZenonT(60) DEF Alone, OpPcs
  <2> QED
    BY <1>1, <1>4, <1>8, <2>1, <2>2, <2>4, EndedClaims, ZenonT(60)
<1>13. CASE Set(p, OverRun(r, "ok"))
  <2>1. run'[p] = OverRun(r, "ok")
    BY <1>3, <1>13, ZenonT(60) DEF Set
  <2> QED
    BY <2>1, OverSafe, NothingClaimed, ZenonT(60)
<1> QED
  BY <1>7, <1>11, <1>12, <1>13, ZenonT(60)

\* The next operation begins with no recovery behind it.
LEMMA NextOpAlone ==
  ASSUME CredInv, NEW p \in Agents, Alone(p), NextOp(p)
  PROVE  Alone(p)'
<1> SUFFICES ASSUME solo' = p, run'[p].kind = "use", ~run'[p].fault
             PROVE  Alone(p)'
  BY Zenon DEF Alone
<1> DEFINE r == run[p]
           q == [r EXCEPT !.pc = "tok", !.ops = r.ops + 1, !.att = 1, !.recov = "none",
                          !.orig = "none", !.saw = "none", !.exec = 0, !.out = "none"]
<1>1. r.pc = "opdone" /\ Keep(p) /\ UNCHANGED <<grant, issued>>
      /\ (Set(p, q) \/ Set(p, OverRun(r, r.out)))
  BY Zenon DEF NextOp, ServerVars
<1>2. solo = p
  BY <1>1, StillAlone, ZenonT(60)
<1>3. Typed(p, r) /\ DOMAIN run = Agents
  BY RunNow, ZenonT(60) DEF CredInv
<1>4. CASE Set(p, OverRun(r, r.out))
  <2>1. run'[p] = OverRun(r, r.out)
    BY <1>3, <1>4, Zenon DEF Set
  <2> QED
    BY <2>1, OverSafe, NothingClaimed
<1>5. CASE Set(p, q)
  <2>1. run'[p] = q
    BY <1>3, <1>5, Zenon DEF Set
  <2> HIDE DEF r
  <2>2. q.pc = "tok" /\ q.kind = r.kind /\ q.fault = r.fault /\ q.recov = "none"
        /\ q.client = r.client /\ q.reauth = r.reauth
    BY <1>3, Zenon DEF Typed, RunFields
  <2> HIDE DEF q
  <2>3. r.reauth => grant.state = "paused" \/ Known(r.client.cert)
    BY <1>1, <1>2, <2>1, <2>2, ZenonT(60) DEF Alone, OpPcs, r
  <2> QED
    BY <1>1, <2>1, <2>2, <2>3, ZenonT(60) DEF Alone, OpPcs, Known
<1> QED
  BY <1>1, <1>4, <1>5, ZenonT(60)

\* A pickup left alone is answered with a credential of the registered broker and the
\* live certificate, or refused because the grant is paused.
LEMMA PickupAlone ==
  ASSUME World, CredInv, NEW p \in Agents, NEW o \in {"ok", "403", "transport"}, Pickup(p, o)
  PROVE  Alone(p)' /\ Opened(p)'
<1> SUFFICES ASSUME solo' = p
             PROVE  Alone(p)' /\ Opened(p)'
  BY Zenon DEF Alone, Opened
<1> DEFINE r == run[p]
           pass == SignedCall(FALSE, "POST", r.tries, o)
           new == PoPCredential(Cert(issued + 1))
           q == [r EXCEPT !.pc = "pk.tok", !.tries = 0, !.new = new]
           v == Saw(r, o)
           f == [v EXCEPT !.tries = 0]
           d == PickupFailed(f, pass.err)
<1>1. r.pc = "pk.post" /\ Loses(p) /\ UNCHANGED <<now, bvars>>
  BY Zenon DEF Pickup
<1>2. events' = events
  BY <1>1, StillAlone, Zenon
<1>3. Typed(p, r) /\ (r.recov # "none" => InOp(r)) /\ DOMAIN run = Agents
  BY <1>1, PickingUp, ZenonT(60) DEF PickupPcs, CredInv
<1>4. ~Event
  BY <1>2 DEF Event, World
<1>5. \/ o = "ok" /\ Issue
      \/ o = "403" /\ grant.state = "paused" /\ UNCHANGED ServerVars
  BY <1>4, Zenon DEF Pickup
<1>6. Set(p, CASE pass.next = "answer" -> q
               [] pass.next = "again" -> [Saw(r, "lost") EXCEPT !.tries = @ + 1]
               [] pass.next = "fail" -> d)
  BY Zenon DEF Pickup
<1>7. /\ o = "ok" => pass.next = "answer"
      /\ o = "403" => pass.next = "fail"
  BY Zenon DEF SignedCall, RefuseWriteIfReadOnly, Attempted, Pass
<1> HIDE DEF pass
<1>8. CASE o = "ok" /\ Issue
  <2>1. run'[p] = q
    BY <1>3, <1>6, <1>7, <1>8, ZenonT(60) DEF Set
  <2>2. new.pin = reg /\ new.cert = Cert(issued + 1)
    BY PickedUp DEF World
  <2>3. new.cert.n = issued + 1
    BY <2>2, CertMade DEF World
  <2> HIDE DEF new, r
  <2>4. q.pc = "pk.tok" /\ q.new = new
    BY <1>3, Zenon DEF Typed, RunFields
  <2> HIDE DEF q
  <2>5. reg' = reg
    BY <1>1, Zenon DEF bvars
  <2>6. grant'.state = "active" /\ grant'.cur = issued + 1
    BY <1>8, ZenonT(60) DEF Issue
  <2>7. Alone(p)'
    BY <2>1, <2>2, <2>3, <2>4, <2>5, <2>6, ZenonT(60) DEF Alone, OpPcs, Fit, Known
  <2>8. Opened(p)'
    BY <2>1, <2>4, Zenon DEF Opened
  <2> QED
    BY <2>7, <2>8, Zenon
<1>9. CASE o = "403" /\ grant.state = "paused" /\ UNCHANGED ServerVars
  <2>1. run'[p] = d
    BY <1>3, <1>6, <1>7, <1>9, ZenonT(60) DEF Set
  <2>2. /\ Typed(p, v) /\ v.kind = r.kind /\ v.cred = r.cred
        /\ v.client = r.client /\ v.aud = r.aud /\ v.recov = r.recov
    BY <1>3, SawSame
  <2> HIDE DEF v, r
  <2>3. f.kind = v.kind /\ f.cred = v.cred /\ f.client = v.client /\ f.aud = v.aud
        /\ f.recov = v.recov /\ Typed(p, f)
    BY <2>2, HttpAssumption DEF Typed, RunFields
  <2> HIDE DEF f
  <2>4. f.recov # "none" => InOp(f)
    BY <1>3, <2>2, <2>3, ZenonT(60) DEF InOp
  <2>5. \/ d = OverRun(f, pass.err)
        \/ d = OpDone(f, pass.err) /\ f.kind = "use" /\ f.recov # "none"
        \/ d = OpDone(f, f.orig) /\ f.kind = "use" /\ f.recov # "none"
    BY <2>3, <2>4, PickupFailedSafe, ZenonT(60)
  <2> HIDE DEF d
  <2>6. d.pc \in {"over", "opdone"}
    BY <2>3, <2>4, <2>5, OverSafe, DoneFields
  <2>7. grant'.state = "paused"
    BY <1>9, Zenon DEF ServerVars
  <2>8. Alone(p)'
    BY <2>1, <2>6, <2>7, ZenonT(60) DEF Alone, OpPcs, Excused
  <2>9. Opened(p)'
    BY <2>1, <2>6, <2>7, ZenonT(60) DEF Opened
  <2> QED
    BY <2>8, <2>9, Zenon
<1> QED
  BY <1>5, <1>8, <1>9, ZenonT(60)

LEMMA PickupTokenAlone ==
  ASSUME World, CredInv, NEW p \in Agents, Alone(p), NEW s, PickupToken(p, s)
  PROVE  Alone(p)'
<1> SUFFICES ASSUME solo' = p, run'[p].kind = "use", ~run'[p].fault
             PROVE  Alone(p)'
  BY Zenon DEF Alone
<1> DEFINE r == Saw(run[p], s)
           t == IF s = "token" THEN Token("broker", r.new.cert) ELSE NoTok
           q == [r EXCEPT !.pc = "pk.save", !.new.btok = t]
<1>1. /\ run[p].pc = "pk.tok" /\ Set(p, q) /\ Keep(p)
      /\ UNCHANGED <<now, bvars>> /\ UNCHANGED <<grant, issued>>
  BY Zenon DEF PickupToken, ServerVars
<1>2. solo = p
  BY <1>1, StillAlone, ZenonT(60)
<1>3. Typed(p, run[p]) /\ Held(run[p].new) /\ DOMAIN run = Agents
  BY <1>1, PickingUp, ZenonT(60) DEF PickupPcs, CredInv
<1>4. run'[p] = q
  BY <1>1, <1>3, ZenonT(60) DEF Set
<1>5. /\ Typed(p, r) /\ r.kind = run[p].kind /\ r.new = run[p].new
      /\ r.fault = (run[p].fault \/ events' # events)
  BY <1>3, SawSame
<1> HIDE DEF r
<1>6. t = Token("broker", r.new.cert) \/ t = NoTok
  BY Zenon
<1> HIDE DEF t
<1> DEFINE n == [r.new EXCEPT !.btok = t]
<1>7. n.cert = r.new.cert /\ n.pin = r.new.pin
  BY <1>3, <1>5, <1>6, BrokerTokenTaken, ZenonT(60)
<1>8. q.kind = r.kind /\ q.fault = r.fault /\ q.new = n /\ q.pc = "pk.save"
  BY <1>5, Zenon DEF Typed, RunFields
<1> HIDE DEF q, n
<1>9. run[p].kind = "use" /\ ~run[p].fault
  BY <1>4, <1>5, <1>8, ZenonT(60)
<1>10. Fit(run[p].new)
  BY <1>1, <1>2, <1>9, ZenonT(60) DEF Alone
<1>11. reg' = reg /\ grant' = grant
  BY <1>1, Zenon DEF bvars
<1> QED
  BY <1>4, <1>5, <1>7, <1>8, <1>10, <1>11, ZenonT(60) DEF Alone, OpPcs, Fit, Known

LEMMA PickupAndSaveAlone ==
  ASSUME CredInv, NEW p \in Agents, Alone(p), PickupAndSave(p)
  PROVE  Alone(p)'
<1> SUFFICES ASSUME solo' = p, run'[p].kind = "use", ~run'[p].fault
             PROVE  Alone(p)'
  BY Zenon DEF Alone
<1> DEFINE s == run[p]
           r == [s EXCEPT !.new = NoFile]
           q == [r EXCEPT !.pc = "pk.load"]
           l == [r EXCEPT !.pc = "load"]
           o == OverRun(r, "ok")
<1>1. s.pc = "pk.write" /\ Keep(p) /\ UNCHANGED <<now, bvars>> /\ UNCHANGED <<grant, issued>>
      /\ file' \in Overwritten(file, Saving(s))
  BY Zenon DEF PickupAndSave, Written, ServerVars
<1>2. solo = p
  BY <1>1, StillAlone, ZenonT(60)
<1>3. Typed(p, s) /\ Held(s.new) /\ DOMAIN run = Agents
  BY <1>1, PickingUp, ZenonT(60) DEF PickupPcs, CredInv
<1>4. Saving(s) = s.new
  BY <1>1, Zenon DEF Saving
<1>5. Set(p, q) \/ Set(p, l) \/ Set(p, o)
  BY Zenon DEF PickupAndSave
<1>6. run'[p] \in {q, l, o}
  BY <1>3, <1>5, ZenonT(60) DEF Set
<1>7. CASE run'[p] = q
  <2> HIDE DEF s
  <2>1. q.pc = "pk.load" /\ q.kind = s.kind /\ q.fault = s.fault
    BY <1>3, Zenon DEF Typed, RunFields
  <2> HIDE DEF q
  <2>2. Fit(s.new) /\ file = Empty
    BY <1>1, <1>2, <1>7, <2>1, ZenonT(60) DEF Alone, s
  <2>3. reg' = reg /\ grant' = grant
    BY <1>1, Zenon DEF bvars
  <2>4. file' = s.new
    BY <1>1, <1>4, <2>2, Zenon DEF Overwritten
  <2> QED
    BY <1>3, <1>7, <2>1, <2>2, <2>3, <2>4, ZenonT(60) DEF Alone, OpPcs, Fit, Known
<1>8. CASE run'[p] = l
  <2> HIDE DEF s
  <2>1. l.pc = "load"
    BY <1>3, Zenon DEF Typed, RunFields
  <2> QED
    BY <1>8, <2>1, NothingClaimed, ZenonT(60)
<1>9. CASE run'[p] = o
  BY <1>9, OverSafe, NothingClaimed, ZenonT(60)
<1> QED
  BY <1>6, <1>7, <1>8, <1>9, ZenonT(60)

\* A save of a command left alone begins with an empty file, and does not fail.
LEMMA OpenForSaveAlone ==
  ASSUME World, CredInv, NEW p \in Agents, Alone(p), OpenForSave(p)
  PROVE  Alone(p)'
<1> SUFFICES ASSUME solo' = p, run'[p].kind = "use", ~run'[p].fault
             PROVE  Alone(p)'
  BY Zenon DEF Alone
<1> DEFINE r == run[p]
<1>1. r.pc \in Saves /\ Loses(p) /\ UNCHANGED <<now, bvars>> /\ UNCHANGED <<grant, issued>>
  BY Zenon DEF OpenForSave, ServerVars
<1>2. solo = p /\ events' = events
  BY <1>1, StillAlone, ZenonT(60)
<1>3. Typed(p, r) /\ DOMAIN run = Agents
  BY RunNow, Zenon DEF CredInv
<1>4. ~Event
  BY <1>2 DEF Event, World
<1>5. file' = Empty /\ Set(p, [r EXCEPT !.pc = WritePc(r.pc)])
  BY <1>4, Zenon DEF OpenForSave
<1>6. ASSUME NEW pc, pc = WritePc(r.pc)
      PROVE  /\ run'[p].pc = pc /\ run'[p].kind = r.kind /\ run'[p].fault = r.fault
             /\ run'[p].recov = r.recov /\ run'[p].client = r.client /\ run'[p].reauth = r.reauth
             /\ run'[p].cred = r.cred /\ run'[p].new = r.new
  <2> DEFINE q == [r EXCEPT !.pc = pc]
  <2>1. run'[p] = q
    BY <1>3, <1>5, <1>6, Zenon DEF Set
  <2> HIDE DEF r
  <2>2. /\ q.pc = pc /\ q.kind = r.kind /\ q.fault = r.fault /\ q.recov = r.recov
        /\ q.client = r.client /\ q.reauth = r.reauth /\ q.cred = r.cred /\ q.new = r.new
    BY <1>3, Zenon DEF Typed, RunFields
  <2> HIDE DEF q
  <2> QED
    BY <2>1, <2>2, Zenon
<1>7. r.kind = "use" /\ ~r.fault
  BY <1>6, Zenon
<1>8. reg' = reg /\ grant' = grant /\ now' = now
  BY <1>1, Zenon DEF bvars
<1>9. CASE r.pc \in {"rc.save", "rc.save2"}
  <2>1. WritePc(r.pc) \in {"rc.write", "rc.write2"}
    BY <1>9, Zenon DEF WritePc
  <2> QED
    BY <1>6, <2>1, NothingClaimed, ZenonT(60)
<1>10. CASE r.pc = "tok.save"
  <2>1. WritePc(r.pc) = "tok.write"
    BY <1>10, Zenon DEF WritePc
  <2>2. /\ r.recov # "none" => Fit(r.client)
        /\ r.reauth => grant.state = "paused" \/ Known(r.client.cert)
        /\ r.cred.btok = Token("broker", r.cred.cert)
    BY <1>2, <1>7, <1>10, ZenonT(60) DEF Alone, OpPcs
  <2>3. /\ run'[p].pc = "tok.write" /\ run'[p].recov = r.recov /\ run'[p].client = r.client
        /\ run'[p].reauth = r.reauth /\ run'[p].cred = r.cred
    BY <1>6, <2>1, Zenon
  <2> HIDE DEF r
  <2> QED
    BY <1>8, <2>2, <2>3, ZenonT(60) DEF Alone, OpPcs, Fit, Known, Token
<1>11. CASE r.pc = "pk.save"
  <2>1. WritePc(r.pc) = "pk.write"
    BY <1>11, Zenon DEF WritePc
  <2>2. Fit(r.new)
    BY <1>2, <1>7, <1>11, ZenonT(60) DEF Alone
  <2>3. run'[p].pc = "pk.write" /\ run'[p].new = r.new
    BY <1>6, <2>1, Zenon
  <2> HIDE DEF r
  <2> QED
    BY <1>5, <1>8, <2>2, <2>3, ZenonT(60) DEF Alone, OpPcs, Fit, Known
<1> QED
  BY <1>1, <1>9, <1>10, <1>11, Zenon DEF Saves

\* A write that fails is a loss, and disturbs everyone.
LEMMA WriteFailsAlone ==
  ASSUME World, NEW p \in Agents, WriteFails(p)
  PROVE  solo' # p
<1>1. Loses(p) /\ Event
  BY Zenon DEF WriteFails
<1>2. events' # events
  BY <1>1 DEF Event, World
<1> QED
  BY <1>1, <1>2, StillAlone, Zenon

LEMMA RepickupAndReloadAlone ==
  ASSUME CredInv, NEW p \in Agents, Alone(p), RepickupAndReload(p)
  PROVE  Alone(p)'
<1> SUFFICES ASSUME solo' = p, run'[p].kind = "use", ~run'[p].fault
             PROVE  Alone(p)'
  BY Zenon DEF Alone
<1> DEFINE r == run[p]
           q == [r EXCEPT !.pc = "tok", !.att = 1, !.cred = file, !.client = file]
           d == PickupFailed(r, LoadError)
<1>1. /\ r.pc = "pk.load" /\ Keep(p) /\ Set(p, IF file \in Unreadable THEN d ELSE q)
      /\ UNCHANGED <<now, bvars>> /\ UNCHANGED <<grant, issued>>
  BY Zenon DEF RepickupAndReload, ServerVars
<1>2. solo = p
  BY <1>1, StillAlone, ZenonT(60)
<1>3. Typed(p, r) /\ DOMAIN run = Agents
  BY <1>1, PickingUp, ZenonT(60) DEF PickupPcs, CredInv
<1>4. r.kind = "use" /\ ~r.fault
  <2>1. r.recov # "none" /\ InOp(r)
    <3>1. r.recov # "none"
      BY <1>1, RunNow, Zenon DEF Phased
    <3> QED
      BY <1>1, <3>1, PickingUp, Zenon DEF PickupPcs
  <2>2. r.kind = "use"
    BY <1>3, <2>1, Zenon DEF Typed
  <2> HIDE DEF r
  <2>3. CASE file \in Unreadable
    <3>1. run'[p] = d
      BY <1>1, <1>3, <2>3, ZenonT(60) DEF Set
    <3>2. d = OpDone(r, LoadError) \/ d = OpDone(r, r.orig)
      BY <1>3, <2>1, PickupFailedSafe, ZenonT(60)
    <3> HIDE DEF d
    <3>3. d.fault = r.fault
      BY <1>3, <2>1, <2>2, <3>2, DoneFields
    <3> QED
      BY <2>2, <3>1, <3>3, Zenon
  <2>4. CASE file \notin Unreadable
    <3>1. run'[p] = q
      BY <1>1, <1>3, <2>4, ZenonT(60) DEF Set
    <3>2. q.fault = r.fault
      BY <1>3, Zenon DEF Typed, RunFields
    <3> HIDE DEF q
    <3> QED
      BY <2>2, <3>1, <3>2, Zenon
  <2> QED
    BY <2>3, <2>4, Zenon
<1>5. Held(file) /\ Fit(file)
  BY <1>1, <1>2, <1>4, ZenonT(60) DEF Alone
<1>6. file \notin Unreadable
  BY <1>5, HeldReadable, Zenon
<1>7. run'[p] = q
  BY <1>1, <1>3, <1>6, ZenonT(60) DEF Set
<1> HIDE DEF r
<1>8. q.pc = "tok" /\ q.kind = r.kind /\ q.client = file
  BY <1>3, Zenon DEF Typed, RunFields
<1> HIDE DEF q
<1>9. reg' = reg /\ grant' = grant
  BY <1>1, ZenonT(60) DEF bvars
<1> QED
  BY <1>5, <1>7, <1>8, <1>9, ZenonT(60) DEF Alone, OpPcs, Fit, Known

\* A run that is not about to load, and has not ended before its first operation.
Opens(q) == q.pc # "load" /\ (q.pc = "over" => q.out # "unopened")

LEMMA OverOut ==
  ASSUME NEW r, NEW out, OverRun(r, out).out = "unopened"
  PROVE  r.kind = "use" /\ r.pc # "opdone" /\ out \notin {"config_error", "identity_mismatch"}
  BY DEF OverRun, Idle

LEMMA OverOpens ==
  ASSUME NEW r, NEW out, r.kind # "use" \/ r.pc = "opdone" \/ out \in {"config_error", "identity_mismatch"}
  PROVE  Opens(OverRun(r, out))
<1>1. OverRun(r, out).pc = "over"
  BY Zenon DEF OverRun, Idle
<1>2. OverRun(r, out).out # "unopened"
  BY OverOut, Zenon
<1> QED
  BY <1>1, <1>2, Zenon DEF Opens

LEMMA OpensStep ==
  ASSUME NEW p \in Agents, Opens(run'[p])
  PROVE  Opened(p)'
  BY Zenon DEF Opens, Opened

LEMMA SetOpens ==
  ASSUME CredInv, NEW p \in Agents, NEW q, Opens(q), Set(p, q)
  PROVE  Opened(p)'
<1>1. run'[p] = q
  BY Zenon DEF Set, CredInv
<1> QED
  BY <1>1, OpensStep, Zenon

LEMMA SawFields ==
  ASSUME NEW p \in Agents, NEW r, Typed(p, r), NEW e
  PROVE  DOMAIN Saw(r, e) = RunFields /\ Saw(r, e).pc = r.pc /\ Saw(r, e).kind = r.kind
         /\ Saw(r, e).recov = r.recov /\ Saw(r, e).out = r.out
  BY Zenon DEF Saw, Typed, RunFields

LEMMA FailedOpens ==
  ASSUME NEW r, DOMAIN r = RunFields, NEW e
  PROVE  Opens(OpFailed(r, e))
<1>1. CASE r.kind # "use"
  <2>1. OpFailed(r, e) = OverRun(r, e)
    BY <1>1, Zenon DEF OpFailed
  <2> QED
    BY <1>1, <2>1, OverOpens, Zenon
<1>2. CASE r.kind = "use" /\ OpFailed(r, e) = OpDone(r, e)
  <2>1. OpDone(r, e).pc = "opdone"
    BY Zenon DEF OpDone, RunFields
  <2> QED
    BY <1>2, <2>1 DEF Opens
<1>3. CASE r.kind = "use" /\ OpFailed(r, e) # OpDone(r, e)
  <2> DEFINE rec == RecoveryFor(e, r.reauth)
             auth == rec = "auth"
             x == IF auth THEN r.auths + 1 ELSE r.auths
             q == [r EXCEPT !.pc = "pk.post", !.recov = rec, !.orig = e,
                            !.reauth = r.reauth \/ auth, !.auths = x]
  <2>1. OpFailed(r, e) = q
    BY <1>3, ZenonT(60) DEF OpFailed
  <2> HIDE DEF x, auth, rec
  <2>2. q.pc = "pk.post"
    BY Zenon DEF RunFields
  <2> HIDE DEF q
  <2> QED
    BY <2>1, <2>2 DEF Opens
<1> QED
  BY <1>1, <1>2, <1>3, Zenon

LEMMA RenewalOpens ==
  ASSUME NEW r, DOMAIN r = RunFields, NEW e
  PROVE  Opens(RenewalFailed(r, e)) /\ Opens(Saw(RenewalFailed(r, e), "lost"))
<1> DEFINE q == RenewalFailed(r, e)
<1>1. Opens(q) /\ DOMAIN q = RunFields
  <2>1. CASE r.kind = "renew_cert"
    <3>1. q = OverRun(r, e)
      BY <2>1, Zenon DEF RenewalFailed
    <3>2. DOMAIN OverRun(r, e) = RunFields
      BY Zenon DEF OverRun, Idle, RunFields
    <3>3. Opens(OverRun(r, e))
      BY <2>1, OverOpens
    <3> QED
      BY <3>1, <3>2, <3>3, Zenon
  <2>2. CASE r.kind # "renew_cert"
    <3> DEFINE d == [r EXCEPT !.pc = "ready"]
    <3>1. q = d
      BY <2>2, Zenon DEF RenewalFailed
    <3>2. d.pc = "ready" /\ DOMAIN d = RunFields
      BY Zenon DEF RunFields
    <3> HIDE DEF q, d
    <3> QED
      BY <3>1, <3>2 DEF Opens
  <2> QED
    BY <2>1, <2>2, Zenon
<1> HIDE DEF q
<1>2. Saw(q, "lost").pc = q.pc /\ Saw(q, "lost").out = q.out
  BY <1>1, Zenon DEF Saw, RunFields
<1>3. Opens(q) /\ Opens(Saw(q, "lost"))
  BY <1>1, <1>2, Zenon DEF Opens
<1> QED
  BY <1>3, Zenon DEF q

LEMMA CommandOpened ==
  ASSUME CredInv, NEW p \in Agents, Command(p)
  PROVE  Opened(p)'
<1>1. DOMAIN run[p] = RunFields
  BY RunNow, Zenon DEF Typed
<1>2. ASSUME NEW q, q.kind # "use", q.pc # "over", Begin(p, q)
      PROVE  Opened(p)'
  <2>1. run'[p] = q
    BY <1>2, Zenon DEF Begin, Set, CredInv
  <2> QED
    BY <1>2, <2>1, Zenon DEF Opened
<1>3. ASSUME NEW given, NEW asserted, OpenKeystore(p, given, asserted)
      PROVE  Opened(p)'
  <2> DEFINE r == [run[p] EXCEPT !.kind = "use", !.wrong = asserted = "other"]
             l == [r EXCEPT !.pc = "load"]
             k == [r EXCEPT !.pc = "pk.post"]
             o == OverRun(r, "config_error")
  <2>1. Begin(p, o) \/ (Begin(p, l) /\ file # NoFile) \/ Begin(p, k)
    <3> HIDE DEF r
    <3>1. /\ BrokerCredentialPath(given, asserted) /\ file # NoFile => Begin(p, l)
          /\ ~BrokerCredentialPath(given, asserted) => Begin(p, o)
          /\ BrokerCredentialPath(given, asserted) /\ file = NoFile => Begin(p, AutoPickup(r, asserted))
      BY <1>3, ZenonT(60) DEF OpenKeystore, r
    <3>2. AutoPickup(r, asserted) = o \/ AutoPickup(r, asserted) = k
      BY Zenon DEF AutoPickup
    <3> QED
      BY <3>1, <3>2, Zenon
  <2>2. DOMAIN r = RunFields
    BY <1>1, Zenon
  <2> HIDE DEF r
  <2>3. CASE Begin(p, o)
    <3>1. Opens(o)
      BY OverOpens
    <3> QED
      BY <2>3, <3>1, SetOpens, ZenonT(60) DEF Begin
  <2>4. CASE Begin(p, k)
    <3>1. k.pc = "pk.post"
      BY <2>2, Zenon DEF RunFields
    <3> HIDE DEF k
    <3>2. Opens(k)
      BY <3>1 DEF Opens
    <3> QED
      BY <2>4, <3>2, SetOpens, Zenon DEF Begin
  <2>5. CASE Begin(p, l) /\ file # NoFile
    <3>1. l.pc = "load"
      BY <2>2, Zenon DEF RunFields
    <3>2. run'[p] = l /\ file' = file
      BY <2>5, Zenon DEF Begin, Set, CredInv
    <3> HIDE DEF l
    <3>3. run'[p].pc # "over" /\ file' # NoFile
      BY <2>5, <3>1, <3>2
    <3> QED
      BY <3>3, Zenon DEF Opened
  <2> QED
    BY <2>1, <2>3, <2>4, <2>5, ZenonT(60)
<1>4. ASSUME NEW asserted, PickupCommand(p, asserted)
      PROVE  Opened(p)'
  <2> DEFINE r == [run[p] EXCEPT !.kind = "pickup"]
             q == [r EXCEPT !.pc = "pk.post"]
             o == OverRun(r, "config_error")
  <2>1. Begin(p, o) \/ Begin(p, q)
    BY <1>4, ZenonT(60) DEF PickupCommand
  <2>2. DOMAIN r = RunFields /\ r.kind = "pickup"
    BY <1>1, Zenon DEF RunFields
  <2> HIDE DEF r
  <2>3. q.pc = "pk.post" /\ q.kind = r.kind
    BY <2>2, Zenon DEF RunFields
  <2>4. Opens(o)
    BY <2>2, OverOpens, Zenon
  <2> HIDE DEF q, o
  <2>5. q.kind # "use" /\ q.pc # "over"
    BY <2>2, <2>3
  <2> QED
    BY <1>2, <2>1, <2>4, <2>5, SetOpens, Zenon DEF Begin
<1>5. ASSUME NEW given, NEW asserted, NEW aud, RenewCommand(p, given, asserted, aud)
      PROVE  Opened(p)'
  <2> DEFINE r == [run[p] EXCEPT !.kind = "renew", !.aud = aud]
             q == [r EXCEPT !.pc = "load"]
             o == OverRun(r, "invalid_arguments")
  <2>1. Begin(p, o) \/ Begin(p, q)
    BY <1>5, ZenonT(60) DEF RenewCommand
  <2>2. DOMAIN r = RunFields /\ r.kind = "renew"
    BY <1>1, Zenon DEF RunFields
  <2> HIDE DEF r
  <2>3. q.pc = "load" /\ q.kind = r.kind
    BY <2>2, Zenon DEF RunFields
  <2>4. Opens(o)
    BY <2>2, OverOpens, Zenon
  <2> HIDE DEF q, o
  <2>5. q.kind # "use" /\ q.pc # "over"
    BY <2>2, <2>3
  <2> QED
    BY <1>2, <2>1, <2>4, <2>5, SetOpens, Zenon DEF Begin
<1>6. ASSUME NEW given, NEW asserted, RenewCertCommand(p, given, asserted)
      PROVE  Opened(p)'
  <2> DEFINE r == [run[p] EXCEPT !.kind = "renew_cert"]
             q == [r EXCEPT !.pc = "rc.load"]
             o == OverRun(r, "invalid_arguments")
  <2>1. Begin(p, o) \/ Begin(p, q)
    BY <1>6, ZenonT(60) DEF RenewCertCommand
  <2>2. DOMAIN r = RunFields /\ r.kind = "renew_cert"
    BY <1>1, Zenon DEF RunFields
  <2> HIDE DEF r
  <2>3. q.pc = "rc.load" /\ q.kind = r.kind
    BY <2>2, Zenon DEF RunFields
  <2>4. Opens(o)
    BY <2>2, OverOpens, Zenon
  <2> HIDE DEF q, o
  <2>5. q.kind # "use" /\ q.pc # "over"
    BY <2>2, <2>3
  <2> QED
    BY <1>2, <2>1, <2>4, <2>5, SetOpens, Zenon DEF Begin
<1>7. ASSUME NEW given, NEW asserted, DirectCommand(p, given, asserted)
      PROVE  Opened(p)'
  <2> DEFINE r == [run[p] EXCEPT !.kind = "direct"]
             q == [r EXCEPT !.pc = "load"]
             o == OverRun(r, "invalid_arguments")
  <2>1. Begin(p, o) \/ Begin(p, q)
    BY <1>7, ZenonT(60) DEF DirectCommand
  <2>2. DOMAIN r = RunFields /\ r.kind = "direct"
    BY <1>1, Zenon DEF RunFields
  <2> HIDE DEF r
  <2>3. q.pc = "load" /\ q.kind = r.kind
    BY <2>2, Zenon DEF RunFields
  <2>4. Opens(o)
    BY <2>2, OverOpens, Zenon
  <2> HIDE DEF q, o
  <2>5. q.kind # "use" /\ q.pc # "over"
    BY <2>2, <2>3
  <2> QED
    BY <1>2, <2>1, <2>4, <2>5, SetOpens, Zenon DEF Begin
<1> QED
  BY <1>3, <1>4, <1>5, <1>6, <1>7, ZenonT(60) DEF Command

LEMMA LoadOpened ==
  ASSUME CredInv, NEW p \in Agents, Opened(p), Load(p)
  PROVE  Opened(p)'
<1>1. /\ run'[p].pc \in {"over", "tok", "rc.load", "ready"}
      /\ run'[p].pc = "over" => file \in Unreadable /\ run'[p] = OverRun(run[p], LoadError)
  BY LoadStep, Zenon
<1>2. SUFFICES ASSUME solo' = p, run'[p].pc = "over", run'[p].out = "unopened"
               PROVE  file' \in Torn
  BY <1>1 DEF Opened
<1>3. run[p].pc = "load" /\ Keep(p) /\ file' = file
  BY Zenon DEF Load
<1>4. solo = p
  BY <1>2, <1>3, StillAlone, Zenon
<1>5. run[p].kind = "use"
  BY <1>1, <1>2, OverOut, Zenon
<1>6. file # NoFile
  BY <1>3, <1>4, <1>5, Zenon DEF Opened
<1> QED
  BY <1>1, <1>2, <1>3, <1>6, Zenon DEF Unreadable

LEMMA ReadyOpened ==
  ASSUME CredInv, NEW p \in Agents, Ready(p)
  PROVE  Opened(p)'
<1>1. CASE CheckIdentityMatch(run[p].wrong)
  <2> DEFINE r == run[p]
             q == [r EXCEPT !.pc = "tok", !.aud = "broker", !.client = r.cred,
                            !.new = NoFile, !.had = FALSE]
  <2>1. Set(p, q)
    BY <1>1, Zenon DEF Ready
  <2>2. DOMAIN r = RunFields
    BY RunNow, Zenon DEF Typed
  <2> HIDE DEF r
  <2>3. q.pc = "tok"
    BY <2>2, Zenon DEF RunFields
  <2> HIDE DEF q
  <2>4. Opens(q)
    BY <2>3 DEF Opens
  <2> QED
    BY <2>1, <2>4, SetOpens, Zenon
<1>2. CASE ~CheckIdentityMatch(run[p].wrong)
  <2>1. Set(p, OverRun(run[p], "identity_mismatch"))
    BY <1>2, Zenon DEF Ready
  <2>2. Opens(OverRun(run[p], "identity_mismatch"))
    BY OverOpens
  <2> QED
    BY <2>1, <2>2, SetOpens, Zenon
<1> QED
  BY <1>1, <1>2, Zenon

LEMMA RenewalOpened ==
  ASSUME World, CredInv, NEW p \in Agents,
         \/ RenewCertFlow(p) \/ RequestCertRenewal(p) \/ \E s : RefreshTokens(p, s)
         \/ SaveRenewed(p)
  PROVE  Opened(p)'
<1>1. Typed(p, run[p]) /\ DOMAIN run[p] = RunFields
  BY RunNow, Zenon DEF Typed
<1>3. CASE RenewCertFlow(p)
  <2> DEFINE d == RenewalFailed(run[p], LoadError)
  <2>1. CASE file \in Unreadable
    <3>1. Set(p, d)
      BY <1>3, <2>1, ZenonT(60) DEF RenewCertFlow
    <3>2. Opens(d)
      BY <1>1, RenewalOpens, Zenon
    <3> QED
      BY <3>1, <3>2, SetOpens, Zenon
  <2>2. CASE file \notin Unreadable
    <3> DEFINE had == file.btok # NoTok
               r == run[p]
               q == [r EXCEPT !.pc = "rc.post", !.new = file, !.had = had]
    <3>1. Set(p, q)
      BY <1>3, <2>2, ZenonT(60) DEF RenewCertFlow
    <3> HIDE DEF had, r
    <3>2. DOMAIN r = RunFields
      BY <1>1, Zenon DEF r
    <3>3. q.pc = "rc.post"
      BY <3>2, Zenon DEF RunFields
    <3> HIDE DEF q
    <3>4. Opens(q)
      BY <3>3 DEF Opens
    <3> QED
      BY <3>1, <3>4, SetOpens, Zenon
  <2> QED
    BY <2>1, <2>2, Zenon
<1>4. CASE RequestCertRenewal(p)
  <2> DEFINE r == run[p]
             c == RotateCert(r.new, Cert(issued + 1))
             q == [r EXCEPT !.pc = "rc.save", !.new = c]
             d == RenewalFailed(r, "cert_renewal_denied")
             u == Saw(RenewalFailed(r, "token_endpoint_unreachable"), "lost")
  <2>1. Set(p, q) \/ Set(p, d) \/ Set(p, u)
    BY <1>4, ZenonT(60) DEF RequestCertRenewal
  <2>2. Opens(d)
    BY <1>1, RenewalOpens
  <2>3. Opens(u)
    BY <1>1, RenewalOpens
  <2> HIDE DEF c, r
  <2>4. DOMAIN r = RunFields
    BY <1>1, Zenon DEF r
  <2>5. q.pc = "rc.save"
    BY <2>4, Zenon DEF RunFields
  <2> HIDE DEF q, d, u
  <2>6. Opens(q)
    BY <2>5 DEF Opens
  <2> QED
    BY <2>1, <2>2, <2>3, <2>6, SetOpens, ZenonT(60)
<1>5. ASSUME NEW s, RefreshTokens(p, s)
      PROVE  Opened(p)'
  <2> DEFINE r == Saw(run[p], s)
             d == RenewalFailed(r, RequestToken(s))
  <2>1. CASE s # "token"
    <3>1. Set(p, d)
      BY <1>5, <2>1, ZenonT(60) DEF RefreshTokens
    <3>2. DOMAIN r = RunFields
      BY <1>1, SawFields, Zenon
    <3>3. Opens(d)
      BY <3>2, RenewalOpens, Zenon
    <3> QED
      BY <3>1, <3>3, SetOpens, Zenon
  <2>2. CASE s = "token"
    <3> DEFINE pc == IF r.had THEN "rc.btok" ELSE "rc.save2"
               k == Token("server", r.new.cert)
               h == Token("broker", r.new.cert)
               q == [r EXCEPT !.new.stok = k, !.pc = pc]
               b == [r EXCEPT !.new.btok = h, !.pc = "rc.save2"]
    <3>1. Set(p, q) \/ Set(p, b)
      BY <1>5, <2>2, ZenonT(60) DEF RefreshTokens
    <3>2. DOMAIN r = RunFields
      BY <1>1, SawFields, Zenon
    <3>3. pc \in {"rc.btok", "rc.save2"}
      BY Zenon
    <3> HIDE DEF r, k, h, pc
    <3>4. q.pc = pc
      BY <3>2, Zenon DEF RunFields
    <3>5. b.pc = "rc.save2"
      BY <3>2, Zenon DEF RunFields
    <3> HIDE DEF q, b
    <3>6. Opens(q) /\ Opens(b)
      BY <3>3, <3>4, <3>5 DEF Opens
    <3> QED
      BY <3>1, <3>6, SetOpens, Zenon
  <2> QED
    BY <2>1, <2>2, Zenon
<1>6. CASE SaveRenewed(p)
  <2>1. CASE run[p].kind = "renew_cert"
    <3>1. Set(p, OverRun(run[p], "ok"))
      BY <1>6, <2>1, ZenonT(60) DEF SaveRenewed
    <3>2. Opens(OverRun(run[p], "ok"))
      BY <2>1, OverOpens
    <3> QED
      BY <3>1, <3>2, SetOpens, Zenon
  <2>2. CASE run[p].kind # "renew_cert"
    <3> DEFINE r == run[p]
               q == [r EXCEPT !.pc = "rc.reload"]
    <3>1. Set(p, q)
      BY <1>6, <2>2, ZenonT(60) DEF SaveRenewed
    <3> HIDE DEF r
    <3>2. DOMAIN r = RunFields
      BY <1>1, Zenon DEF r
    <3>3. q.pc = "rc.reload"
      BY <3>2, Zenon DEF RunFields
    <3> HIDE DEF q
    <3>4. Opens(q)
      BY <3>3 DEF Opens
    <3> QED
      BY <3>1, <3>4, SetOpens, Zenon
  <2> QED
    BY <2>1, <2>2, Zenon
<1> QED
  BY <1>3, <1>4, <1>5, <1>6, Zenon

LEMMA EnsureBrokerTokenOpened ==
  ASSUME CredInv, NEW p \in Agents, EnsureBrokerToken(p)
  PROVE  Opened(p)'
<1>1. Typed(p, run[p]) /\ DOMAIN run[p] = RunFields
  BY RunNow, Zenon DEF Typed
<1>2. CASE Set(p, [run[p] EXCEPT !.pc = "wire"])
  <2> DEFINE r == run[p]
             q == [r EXCEPT !.pc = "wire"]
  <2>1. Set(p, q)
    BY <1>2
  <2> HIDE DEF r
  <2>2. DOMAIN r = RunFields
    BY <1>1, Zenon DEF r
  <2>3. q.pc = "wire"
    BY <2>2, Zenon DEF RunFields
  <2> HIDE DEF q
  <2>4. Opens(q)
    BY <2>3 DEF Opens
  <2> QED
    BY <2>1, <2>4, SetOpens, Zenon
<1>3. ASSUME NEW s \in TokenAnswers,
             Set(p, IF s = "token" THEN [WithToken(Saw(run[p], s)) EXCEPT !.pc = "tok.save"]
                    ELSE OpFailed(Saw(run[p], s), RequestToken(s)))
      PROVE  Opened(p)'
  <2> DEFINE r == Saw(run[p], s)
             w == WithToken(r)
             q == [w EXCEPT !.pc = "tok.save"]
             d == OpFailed(r, RequestToken(s))
  <2>1. Set(p, q) \/ Set(p, d)
    BY <1>3, ZenonT(60)
  <2>2. DOMAIN r = RunFields
    BY <1>1, SawFields, Zenon
  <2>3. Opens(d)
    BY <2>2, FailedOpens, Zenon
  <2> HIDE DEF r, d
  <2>4. DOMAIN w = RunFields
    BY <2>2, ZenonT(60) DEF WithToken
  <2> HIDE DEF w
  <2>5. q.pc = "tok.save"
    BY <2>4, Zenon DEF RunFields
  <2> HIDE DEF q
  <2>6. Opens(q)
    BY <2>5 DEF Opens
  <2> QED
    BY <2>1, <2>3, <2>6, SetOpens, Zenon
<1> QED
  BY <1>2, <1>3, ZenonT(60) DEF EnsureBrokerToken

LEMMA SaveTokenOpened ==
  ASSUME CredInv, NEW p \in Agents, SaveToken(p)
  PROVE  Opened(p)'
<1> DEFINE r == run[p]
           q == [r EXCEPT !.pc = "wire"]
           o == OverRun(r, "ok")
<1>1. (Set(p, o) /\ r.kind = "renew") \/ Set(p, q)
  BY Zenon DEF SaveToken
<1>2. DOMAIN r = RunFields
  BY RunNow, Zenon DEF Typed
<1> HIDE DEF r
<1>3. r.kind = "renew" => Opens(o)
  BY OverOpens
<1>4. q.pc = "wire"
  BY <1>2, Zenon DEF RunFields
<1> HIDE DEF q, o
<1>5. Opens(q)
  BY <1>4 DEF Opens
<1> QED
  BY <1>1, <1>3, <1>5, SetOpens, Zenon

LEMMA PerformWireOpened ==
  ASSUME CredInv, NEW p \in Agents, NEW a, NEW did, PerformWire(p, a, did)
  PROVE  Opened(p)'
<1> DEFINE w == Saw(run[p], a)
           x == IF did THEN w.exec + 1 ELSE w.exec
           r == [w EXCEPT !.exec = x]
           y == [r EXCEPT !.pc = "tok", !.att = 2]
           d == OpFailed(r, a)
           g == OpDone(r, "ok")
           o == OverRun(r, "ok")
<1>1. \/ Set(p, WireFailed(r, a)) \/ Set(p, g)
      \/ Set(p, o) /\ r.kind # "use"
  BY ZenonT(60) DEF PerformWire
<1>2. DOMAIN w = RunFields
  BY RunNow, SawFields, ZenonT(60)
<1> HIDE DEF w, x
<1>3. DOMAIN r = RunFields
  BY <1>2, Zenon DEF RunFields
<1> HIDE DEF r
<1>4. WireFailed(r, a) = y \/ WireFailed(r, a) = d
  BY Zenon DEF WireFailed
<1>5. Opens(d)
  BY <1>3, FailedOpens, Zenon
<1>6. y.pc = "tok"
  BY <1>3, Zenon DEF RunFields
<1>7. g.pc = "opdone"
  BY <1>3, Zenon DEF RunFields, OpDone
<1>8. r.kind # "use" => Opens(o)
  BY OverOpens
<1> HIDE DEF y, d, g, o
<1>9. Opens(y) /\ Opens(g)
  BY <1>6, <1>7 DEF Opens
<1> QED
  BY <1>1, <1>4, <1>5, <1>8, <1>9, SetOpens, ZenonT(60)

LEMMA NextOpOpened ==
  ASSUME CredInv, NEW p \in Agents, NextOp(p)
  PROVE  Opened(p)'
<1>1. run'[p].pc \in {"over", "tok"}
  BY NextOpStep, Zenon
<1>2. CASE run'[p].pc = "tok"
  BY <1>2, OpensStep DEF Opens
<1>3. CASE run'[p].pc = "over"
  <2> DEFINE r == run[p]
             q == [r EXCEPT !.pc = "tok", !.ops = r.ops + 1, !.att = 1, !.recov = "none",
                            !.orig = "none", !.saw = "none", !.exec = 0, !.out = "none"]
             o == OverRun(r, r.out)
  <2>1. r.pc = "opdone" /\ (Set(p, q) \/ Set(p, o))
    BY ZenonT(60) DEF NextOp
  <2>2. DOMAIN r = RunFields /\ DOMAIN run = Agents
    BY RunNow, Zenon DEF Typed, CredInv
  <2>3. Opens(o)
    BY <2>1, OverOpens, Zenon
  <2> HIDE DEF r
  <2>4. q.pc = "tok"
    BY <2>2, ZenonT(60) DEF RunFields
  <2> HIDE DEF q, o
  <2>5. ~Set(p, q)
    BY <1>3, <2>2, <2>4 DEF Set
  <2> QED
    BY <2>1, <2>3, <2>5, SetOpens, Zenon
<1> QED
  BY <1>1, <1>2, <1>3, Zenon

LEMMA PickupAndSaveOpened ==
  ASSUME CredInv, NEW p \in Agents, Alone(p), PickupAndSave(p)
  PROVE  Opened(p)'
<1> DEFINE s == run[p]
           r == [s EXCEPT !.new = NoFile]
           q == [r EXCEPT !.pc = "pk.load"]
           l == [r EXCEPT !.pc = "load"]
           o == OverRun(r, "ok")
<1>1. s.pc = "pk.write" /\ Written(p)
  BY Zenon DEF PickupAndSave
<1>2. DOMAIN s = RunFields /\ Held(s.new)
  BY <1>1, PickingUp, ZenonT(60) DEF PickupPcs, Typed
<1>3. Saving(s) = s.new
  BY <1>1, Zenon DEF Saving
<1>4. file' # NoFile
  <2>1. file' = s.new \/ file' = Partial
    BY <1>1, <1>3, Zenon DEF Written, Overwritten
  <2>2. s.new # NoFile
    BY <1>2, HeldReadable, Zenon DEF Unreadable
  <2>3. Partial # NoFile
    BY DEF Partial, NoFile
  <2> QED
    BY <2>1, <2>2, <2>3, Zenon
<1>5. \/ Set(p, q)
      \/ Set(p, l)
      \/ Set(p, o) /\ r.kind # "use"
  BY ZenonT(60) DEF PickupAndSave
<1> HIDE DEF s
<1>6. DOMAIN r = RunFields
  BY <1>2, Zenon DEF RunFields
<1> HIDE DEF r
<1>7. CASE Set(p, q)
  <2>1. q.pc = "pk.load"
    BY <1>6, Zenon DEF RunFields
  <2> HIDE DEF q
  <2>2. Opens(q)
    BY <2>1 DEF Opens
  <2> QED
    BY <1>7, <2>2, SetOpens, Zenon
<1>8. CASE Set(p, l)
  <2>1. run'[p] = l
    BY <1>8, Zenon DEF Set, CredInv
  <2>2. l.pc = "load"
    BY <1>6, Zenon DEF RunFields
  <2> HIDE DEF l
  <2>3. run'[p].pc # "over"
    BY <2>1, <2>2
  <2> QED
    BY <1>4, <2>3, Zenon DEF Opened
<1>9. CASE Set(p, o) /\ r.kind # "use"
  <2>1. Opens(o)
    BY <1>9, OverOpens, Zenon
  <2> QED
    BY <1>9, <2>1, SetOpens, Zenon
<1> QED
  BY <1>5, <1>7, <1>8, <1>9, Zenon

\* A failed save is a loss: what is left of it is the file being opened.
LEMMA OpenForSaveOpened ==
  ASSUME World, CredInv, NEW p \in Agents, OpenForSave(p)
  PROVE  Opened(p)'
<1> SUFFICES ASSUME solo' = p
             PROVE  Opened(p)'
  BY Zenon DEF Opened
<1> DEFINE r == run[p]
           pc == WritePc(r.pc)
           q == [r EXCEPT !.pc = pc]
<1>1. r.pc \in Saves /\ Loses(p)
  BY Zenon DEF OpenForSave
<1>2. ~Event
  <2>1. events' = events
    BY <1>1, StillAlone, Zenon
  <2> QED
    BY <2>1 DEF Event, World
<1>3. Set(p, q)
  BY <1>2, Zenon DEF OpenForSave
<1>4. pc \in Writes
  BY <1>1, Zenon DEF Saves, Writes, WritePc
<1>5. DOMAIN r = RunFields
  BY RunNow, Zenon DEF Typed
<1> HIDE DEF r, pc
<1>6. q.pc = pc
  BY <1>5, Zenon DEF RunFields
<1> HIDE DEF q
<1>7. Opens(q)
  BY <1>4, <1>6 DEF Opens, Writes
<1> QED
  BY <1>3, <1>7, SetOpens, Zenon

LEMMA AgentOpened ==
  ASSUME World, CredInv, NEW p \in Agents, Alone(p), Opened(p), Command(p) \/ AgentStep(p) \/ Kill(p)
  PROVE  Opened(p)'
<1>1. CASE Kill(p)
  <2>1. Unsettled
    BY <1>1, Zenon DEF Kill
  <2> QED
    BY <2>1, AgentAssumption, ZenonT(60) DEF Unsettled, Opened
<1>2. CASE WriteFails(p)
  BY <1>2, WriteFailsAlone, Zenon DEF Opened
<1>3. ASSUME run'[p].pc \in {"rc.stok", "ready", "pk.save", "tok", "opdone"}
      PROVE  Opened(p)'
  BY <1>3, Zenon DEF Opened
<1>4. ASSUME NEW s, PickupToken(p, s)
      PROVE  Opened(p)'
  BY <1>3, <1>4, PickupTokenStep, Zenon
<1>5. CASE RotateAndSave(p)
  BY <1>3, <1>5, RotateAndSaveStep, Zenon
<1>6. CASE AutoRenewed(p)
  BY <1>3, <1>6, AutoRenewedStep, Zenon
<1>7. CASE RepickupAndReload(p)
  BY <1>3, <1>7, RepickupAndReloadStep, Zenon
<1>8. ASSUME NEW o \in {"ok", "403", "transport"}, Pickup(p, o)
      PROVE  Opened(p)'
  BY <1>8, PickupAlone, Zenon
<1> QED
  BY <1>1, <1>2, <1>4, <1>5, <1>6, <1>7, <1>8, CommandOpened, LoadOpened, ReadyOpened, OpenForSaveOpened,
     RenewalOpened, EnsureBrokerTokenOpened, SaveTokenOpened, PerformWireOpened, NextOpOpened,
     PickupAndSaveOpened, ZenonT(60) DEF AgentStep

LEMMA AgentAlone ==
  ASSUME World, CredInv, NEW p \in Agents, Alone(p), Command(p) \/ AgentStep(p) \/ Kill(p)
  PROVE  Alone(p)'
<1>1. CASE Command(p)
  <2>1. run'[p].pc \in {"over", "load", "rc.load", "pk.post"}
    BY <1>1, CommandStep, ZenonT(60) DEF Begins
  <2> QED
    BY <2>1, NothingClaimed, Zenon
<1>2. CASE Kill(p)
  <2>1. Unsettled
    BY <1>2, Zenon DEF Kill
  <2> QED
    BY <2>1, AgentAssumption, ZenonT(60) DEF Unsettled, Alone
<1>3. CASE Load(p)
  <2>1. run'[p].pc \in {"over", "tok", "rc.load", "ready"}
        /\ (run'[p].pc = "tok" => run'[p].kind = "renew")
    BY <1>3, LoadStep, ZenonT(60)
  <2> QED
    BY <2>1, NothingClaimed, ZenonT(60) DEF Alone
<1>4. CASE Ready(p)
  <2>1. run'[p].pc \in {"over", "tok"} /\ run'[p].recov = "none" /\ ~run'[p].reauth
    BY <1>4, ReadyStep, ZenonT(60)
  <2> QED
    BY <2>1, Zenon DEF Alone, OpPcs
<1>5. CASE RenewCertFlow(p)
  BY <1>5, RenewCertFlowStep, NothingClaimed, ZenonT(60)
<1>6. CASE RequestCertRenewal(p)
  BY <1>6, RequestCertRenewalStep, NothingClaimed, ZenonT(60)
<1>7. CASE RotateAndSave(p)
  BY <1>7, RotateAndSaveStep, NothingClaimed, ZenonT(60)
<1>8. CASE SaveRenewed(p)
  BY <1>8, SaveRenewedStep, NothingClaimed, ZenonT(60)
<1>9. CASE AutoRenewed(p)
  BY <1>9, AutoRenewedStep, NothingClaimed, ZenonT(60)
<1>10. ASSUME NEW s, RefreshTokens(p, s)
       PROVE  Alone(p)'
  BY <1>10, RefreshTokensStep, NothingClaimed, ZenonT(60)
<1>11. CASE WriteFails(p)
  BY <1>11, WriteFailsAlone, Zenon DEF Alone
<1> QED
  BY <1>1, <1>2, <1>3, <1>4, <1>5, <1>6, <1>7, <1>8, <1>9, <1>10, <1>11, EnsureBrokerTokenAlone, OpenForSaveAlone,
     SaveTokenAlone, PerformWireAlone, NextOpAlone, PickupAlone, PickupTokenAlone,
     PickupAndSaveAlone, RepickupAndReloadAlone, ZenonT(60) DEF AgentStep

\* Whoever else moves, p is no longer alone.
LEMMA NextAlone ==
  ASSUME World, CredInv, AloneInv, [Next]_vars
  PROVE  AloneInv'
<1> SUFFICES ASSUME NEW p \in Agents
             PROVE  Alone(p)' /\ Opened(p)'
  BY Zenon DEF AloneInv
<1>1. Alone(p) /\ Opened(p)
  BY Zenon DEF AloneInv
<1>2. ASSUME solo' # p
      PROVE  Alone(p)' /\ Opened(p)'
  BY <1>2, Zenon DEF Alone, Opened
<1>3. ASSUME NEW q \in Agents, Command(q) \/ AgentStep(q) \/ Kill(q)
      PROVE  Alone(p)' /\ Opened(p)'
  <2>1. CASE q = p
    <3>1. Command(p) \/ AgentStep(p) \/ Kill(p)
      BY <1>3, <2>1, Zenon
    <3>2. Alone(p)'
      BY <1>1, <3>1, AgentAlone, Zenon
    <3>3. Opened(p)'
      BY <1>1, <3>1, AgentOpened, Zenon
    <3> QED
      BY <3>2, <3>3, Zenon
  <2>2. CASE q # p
    <3>1. solo' \in {q, "none"}
      BY <1>3, AgentAround, ZenonT(60) DEF Around
    <3>2. solo' # p
      BY <2>2, <3>1, AgentAssumption, ZenonT(60)
    <3> QED
      BY <1>2, <3>2, Zenon
  <2> QED
    BY <2>1, <2>2, ZenonT(60)
<1>4. CASE Elsewhere
  <2>1. ASSUME NEW v \in Provs, ProvStep(v) \/ KillProvision(v), UNCHANGED avars
        PROVE  solo' \in Provs \cup {"none"}
    BY <2>1, ProvStepAround, ZenonT(60) DEF ProvAround
  <2>2. solo' \in Provs \cup {"none"}
    BY <1>4, <2>1, ZenonT(60) DEF Elsewhere, Pause, Reauthorize, Tick, ServeFromCredential, DaemonDies, Unsettled
  <2>3. solo' # p
    BY <2>2, AgentAssumption, ZenonT(60)
  <2> QED
    BY <1>2, <2>3, Zenon
<1>5. CASE UNCHANGED vars
  <2>1. /\ run' = run /\ solo' = solo /\ grant' = grant /\ file' = file
        /\ UNCHANGED <<now, bvars>>
    BY <1>5, ZenonT(60) DEF vars, avars
  <2>2. reg' = reg /\ now' = now
    BY <2>1, SameMoment, ZenonT(60)
  <2>3. \A c : Excused(c) => Excused(c)'
    <3> SUFFICES ASSUME NEW c, Excused(c)
                 PROVE  \/ grant'.state = "paused" \/ (Handshake(daemon, reg) # "ok")'
                        \/ ~K2ClientCertVerifier(c, now')
      BY Zenon DEF Excused, Chains
    <3> QED
      BY <2>1, SameMoment, ZenonT(60) DEF Excused
  <2>4. Excused(run[p].client.cert) => Excused(run[p].client.cert)'
    <3>1. run'[p].client.cert = run[p].client.cert
      BY <2>1, ZenonT(60)
    <3> QED
      BY <2>3, <3>1, ZenonT(60) DEF Excused, Chains
  <2>5. Alone(p)'
    BY <1>1, <2>1, <2>2, <2>4, ZenonT(60) DEF Alone, Fit, Known, Token
  <2>6. Opened(p)'
    BY <1>1, <2>1, Zenon DEF Opened
  <2> QED
    BY <2>5, <2>6, Zenon
<1> QED
  BY <1>3, <1>4, <1>5, ZenonT(60) DEF Next, Elsewhere

LEMMA InitAlone ==
  ASSUME Init
  PROVE  AloneInv
  BY AgentAssumption, ZenonT(60) DEF Init, BrokerInit, AloneInv, Alone, Opened

-----------------------------------------------------------------------------
(* The broker's own key. *)

\* A provision is under way; no two are at once.  Nothing in broker_provision.rs keeps
\* a second one out: the sweep of one deletes the key that another has just made.
Busy(v) == prov[v].pc \notin {"start", "over"}
OneAtATime == \A v, w \in Provs : Busy(v) /\ Busy(w) => v = w

\* A key is in the Secure Enclave under a label.
HoldsKey(enclave, label, key) == label \in DOMAIN enclave /\ enclave[label] = key

\* A K3 key is in the Secure Enclave, under some label.
KeyKept(enclave, key) == \E l \in DOMAIN enclave : l[1] = "k3" /\ enclave[l] = key

\* A provision's new key is there.  It saves once the server has registered the key; the
\* file is empty as it writes, and once written names that key, which the sweep leaves,
\* and the PRSN's key.
Provisions(v) ==
  LET r == prov[v]
  IN  /\ Busy(v) => HoldsKey(se, GenerationLabel(r.key), r.key)
      /\ r.pc \in {"save", "write", "list", "sweep"} => reg = r.key
      /\ r.pc = "write" => bcred = Empty
      /\ r.pc \in {"list", "sweep"} => bcred = AssembleCredential(v)
      /\ r.pc = "sweep" => GenerationLabel(r.key) \notin r.stale /\ <<"prsn">> \notin r.stale

\* The credential's key is there, if the file is whole, and the registered one.
NamedInv ==
  /\ <<"prsn">> \in DOMAIN se
  /\ bcred \in Torn \/ HoldsKey(se, bcred.label, bcred.k3.key)
  /\ KeyKept(se, reg)
  /\ \A v \in Provs : Provisions(v)

LEMMA Assembled ==
  ASSUME NEW v
  PROVE  /\ AssembleCredential(v).label = GenerationLabel(prov[v].key)
         /\ AssembleCredential(v).k3.key = prov[v].key
  BY Zenon DEF AssembleCredential, BrokerCredential, BuildServerLeaf, BuildLeaf

LEMMA LabelK3 ==
  ASSUME NEW key
  PROVE  GenerationLabel(key)[1] = "k3" /\ LegacyLabel[1] = "k3"
  BY DEF GenerationLabel, LegacyLabel

LEMMA KeyHeld ==
  ASSUME NEW enclave, NEW key, HoldsKey(enclave, GenerationLabel(key), key)
  PROVE  KeyKept(enclave, key)
  BY LabelK3, Zenon DEF HoldsKey, KeyKept

LEMMA OthersIdle ==
  ASSUME OneAtATime, NEW v \in Provs, Busy(v)
  PROVE  \A w \in Provs \ {v} : ~Busy(w)
  BY Zenon DEF OneAtATime

\* Only the sweep takes keys away: what any other step of v must show.
LEMMA KeysStay ==
  ASSUME World, NamedInv, NEW v \in Provs, NEW r, SetProv(v, r), DOMAIN r = ProvFields,
         r.key \in 0 .. Cardinality(Provs),
         \A l \in DOMAIN se : l \in DOMAIN se' /\ se'[l] = se[l],
         bcred' \in Torn \/ HoldsKey(se', bcred'.label, bcred'.k3.key),
         KeyKept(se', reg'),
         UNCHANGED <<bcred, reg>> \/ \A w \in Provs \ {v} : ~Busy(w),
         r.pc # "over" => HoldsKey(se', GenerationLabel(r.key), r.key),
         r.pc \in {"save", "write", "list", "sweep"} => reg' = r.key,
         r.pc = "write" => bcred' = Empty,
         r.pc \in {"list", "sweep"} =>
             bcred' = BrokerCredential(r.key, GenerationLabel(r.key), r.key),
         r.pc = "sweep" => GenerationLabel(r.key) \notin r.stale /\ <<"prsn">> \notin r.stale
  PROVE  NamedInv'
<1>1. prov'[v] = r /\ \A w \in Provs \ {v} : prov'[w] = prov[w]
  BY ProvSet, ZenonT(60)
<1>2. (<<"prsn">> \in DOMAIN se)'
  BY Zenon DEF NamedInv, HoldsKey
<1>3. Provisions(v)'
  BY <1>1, Zenon DEF Provisions, Busy, AssembleCredential
<1>4. ASSUME NEW w \in Provs \ {v}
      PROVE  Provisions(w)'
  <2>1. prov'[w] = prov[w] /\ Provisions(w)
    BY <1>1, ZenonT(60) DEF NamedInv
  <2>2. CASE ~Busy(w)
    <3>1. prov'[w].pc \in {"start", "over"}
      BY <2>1, <2>2, Zenon DEF Busy
    <3> QED
      BY <3>1, Zenon DEF Provisions, Busy
  <2>3. CASE bcred' = bcred /\ reg' = reg
    <3>1. Busy(w) => HoldsKey(se', GenerationLabel(prov[w].key), prov[w].key)
      BY <2>1, Zenon DEF Provisions, HoldsKey
    <3> QED
      BY <2>1, <2>3, <3>1, ZenonT(60) DEF Provisions, Busy, AssembleCredential
  <2> QED
    BY <2>2, <2>3, Zenon
<1> QED
  BY <1>2, <1>3, <1>4, ZenonT(60) DEF NamedInv

\* A step of v that leaves the keys, and does not write or sweep.
LEMMA QuietProvision ==
  ASSUME World, NamedInv, NEW v \in Provs, NEW r, SetProv(v, r), DOMAIN r = ProvFields,
         UNCHANGED se, r.key = prov[v].key,
         UNCHANGED <<bcred, reg>> \/ \A w \in Provs \ {v} : ~Busy(w),
         bcred' \in Torn \/ bcred' = bcred \/ HoldsKey(se, bcred'.label, bcred'.k3.key),
         reg' = reg \/ KeyKept(se, reg'),
         \/ r.pc = "over"
         \/ Busy(v) /\ r.pc \in {"post", "kick", "probe"}
         \/ Busy(v) /\ r.pc = "save" /\ reg' = r.key
  PROVE  NamedInv'
<1>1. r.key \in 0 .. Cardinality(Provs)
  BY Zenon DEF World
<1>2. r.pc # "over" => HoldsKey(se', GenerationLabel(r.key), r.key)
  BY Zenon DEF NamedInv, Provisions
<1>3. bcred' \in Torn \/ HoldsKey(se', bcred'.label, bcred'.k3.key)
  BY Zenon DEF NamedInv
<1>4. KeyKept(se', reg')
  BY Zenon DEF NamedInv
<1>5. r.pc \notin {"write", "list", "sweep"} /\ (r.pc = "save" => reg' = r.key)
  BY Zenon
<1>6. \A l \in DOMAIN se : l \in DOMAIN se' /\ se'[l] = se[l]
  BY Zenon
<1> QED
  BY <1>1, <1>2, <1>3, <1>4, <1>5, <1>6, KeysStay, ZenonT(60)

LEMMA GenerateK3KeyNamed ==
  ASSUME World, NamedInv, NEW v \in Provs, GenerateK3Key(v)
  PROVE  NamedInv'
<1> DEFINE key == 1 + Cardinality({w \in Provs : prov[w].pc # "start"})
           label == GenerationLabel(key)
           made == [l \in {label} \cup DOMAIN se |-> IF l = label THEN key ELSE se[l]]
           q == [prov[v] EXCEPT !.pc = "post", !.key = key]
<1>1. prov[v].pc = "start" /\ bcred' = bcred /\ reg' = reg
  BY Zenon DEF GenerateK3Key
<1>2. key \in 0 .. Cardinality(Provs)
  BY <1>1, NewKey, ZenonT(60)
<1>3. DOMAIN prov[v] = ProvFields
  BY ZenonT(60) DEF World
<1>4. CASE label \in DOMAIN se
  <2>1. GenerateBrokerSeKey(label, key) = No("generic_error")
    BY <1>4, Zenon DEF GenerateBrokerSeKey
  <2>2. UNCHANGED se /\ \E out : SetProv(v, OverProv(prov[v], out))
    <3>1. ~GenerateBrokerSeKey(label, key).ok
      BY <2>1 DEF No
    <3> QED
      BY <3>1, ZenonT(60) DEF GenerateK3Key
  <2>3. PICK out : SetProv(v, OverProv(prov[v], out))
    BY <2>2, Zenon
  <2> QED
    BY <1>1, <2>2, <2>3, ProvOver, QuietProvision, ZenonT(60)
<1>5. CASE label \notin DOMAIN se
  <2>1. GenerateBrokerSeKey(label, key) = Yes(made)
    BY <1>5, ZenonT(60) DEF GenerateBrokerSeKey
  <2>2. se' = made /\ SetProv(v, q)
    <3>1. GenerateBrokerSeKey(label, key).ok
          /\ GenerateBrokerSeKey(label, key).val = made
      BY <2>1 DEF Yes
    <3> QED
      BY <3>1, ZenonT(60) DEF GenerateK3Key
  <2> HIDE DEF key, label
  <2>3. /\ label \in DOMAIN se' /\ se'[label] = key
        /\ \A l \in DOMAIN se : l \in DOMAIN se' /\ se'[l] = se[l]
    BY <1>5, <2>2, ZenonT(60)
  <2>4. q.pc = "post" /\ q.key = key /\ DOMAIN q = ProvFields
    BY <1>3, Zenon DEF ProvFields
  <2> HIDE DEF q
  <2>5. /\ bcred' \in Torn \/ HoldsKey(se', bcred'.label, bcred'.k3.key)
        /\ KeyKept(se', reg')
    <3>1. \A l \in DOMAIN se : l \in DOMAIN se' /\ se'[l] = se[l]
      BY <2>3
    <3>2. /\ \A k : KeyKept(se, k) => KeyKept(se', k)
          /\ \A l, k : HoldsKey(se, l, k) => HoldsKey(se', l, k)
      BY <3>1, Zenon DEF KeyKept, HoldsKey
    <3>3. KeyKept(se, reg) /\ (bcred \in Torn \/ HoldsKey(se, bcred.label, bcred.k3.key))
      BY Zenon DEF NamedInv
    <3>4. KeyKept(se', reg) /\ (bcred \in Torn \/ HoldsKey(se', bcred.label, bcred.k3.key))
      BY <3>2, <3>3, Zenon
    <3> QED
      BY <1>1, <3>4, ZenonT(60)
  <2>7. HoldsKey(se', GenerationLabel(q.key), q.key)
    BY <2>3, <2>4, ZenonT(60) DEF HoldsKey, label
  <2>6. q.key \in 0 .. Cardinality(Provs)
    BY <1>2, <2>4, ZenonT(60)
  <2> QED
    BY <1>1, <2>2, <2>3, <2>4, <2>5, <2>6, <2>7, KeysStay, ZenonT(60)
<1> QED
  BY <1>4, <1>5, ZenonT(60)

\* The file is opened: it names no key until it is written.
LEMMA OpenCredentialFileNamed ==
  ASSUME World, OneAtATime, NamedInv, NEW v \in Provs, OpenCredentialFile(v)
  PROVE  NamedInv'
<1> DEFINE r == prov[v]
           q == [r EXCEPT !.pc = "write"]
           o == OverProv(r, "output_write_failed")
<1>1. /\ r.pc = "save" /\ se' = se /\ reg' = reg
      /\ (bcred' = Empty /\ SetProv(v, q)) \/ (bcred' = bcred /\ SetProv(v, o))
  BY Zenon DEF OpenCredentialFile
<1>2. DOMAIN r = ProvFields /\ r.key \in 0 .. Cardinality(Provs)
  BY ZenonT(60) DEF World
<1>3. HoldsKey(se, GenerationLabel(r.key), r.key) /\ Busy(v) /\ reg = r.key
  BY <1>1, ZenonT(60) DEF NamedInv, Provisions, Busy
<1>4. CASE bcred' = bcred /\ SetProv(v, o)
  BY <1>1, <1>4, ProvOver, QuietProvision, ZenonT(60)
<1>5. CASE bcred' = Empty /\ SetProv(v, q)
  <2> HIDE DEF r
  <2>1. q.pc = "write" /\ q.key = r.key /\ DOMAIN q = ProvFields
    BY <1>2, ZenonT(60) DEF ProvFields
  <2> HIDE DEF q
  <2>2. bcred' \in Torn /\ KeyKept(se', reg') /\ reg' = q.key
    BY <1>1, <1>3, <1>5, <2>1, ZenonT(60) DEF Torn, NamedInv
  <2>3. HoldsKey(se', GenerationLabel(q.key), q.key)
    BY <1>1, <1>3, <2>1, Zenon
  <2>4. \A w \in Provs \ {v} : ~Busy(w)
    BY <1>3, OthersIdle, Zenon
  <2>5. \A l \in DOMAIN se : l \in DOMAIN se' /\ se'[l] = se[l]
    BY <1>1, Zenon
  <2>6. q.key \in 0 .. Cardinality(Provs) /\ q.pc \notin {"list", "sweep"}
    BY <1>2, <2>1, Zenon
  <2> QED
    BY <1>5, <2>1, <2>2, <2>3, <2>4, <2>5, <2>6, KeysStay, ZenonT(60)
<1> QED
  BY <1>1, <1>4, <1>5, ZenonT(60)

LEMMA SaveNamed ==
  ASSUME World, OneAtATime, NamedInv, NEW v \in Provs, Save(v)
  PROVE  NamedInv'
<1> DEFINE r == prov[v]
           c == AssembleCredential(v)
           q == [r EXCEPT !.pc = "list"]
           o == OverProv(r, "output_write_failed")
<1>1. /\ r.pc = "write" /\ se' = se /\ reg' = reg
      /\ \/ bcred' \in Overwritten(bcred, c) /\ SetProv(v, q)
         \/ bcred' \in HalfWritten(bcred, c) /\ SetProv(v, o)
  BY Zenon DEF Save
<1>2. DOMAIN r = ProvFields /\ r.key \in 0 .. Cardinality(Provs)
  BY ZenonT(60) DEF World
<1>3. /\ HoldsKey(se, GenerationLabel(r.key), r.key) /\ Busy(v) /\ reg = r.key
      /\ bcred = Empty
  BY <1>1, ZenonT(60) DEF NamedInv, Provisions, Busy
<1>4. c.label = GenerationLabel(r.key) /\ c.k3.key = r.key
  BY Assembled, ZenonT(60)
<1>5. c = BrokerCredential(r.key, GenerationLabel(r.key), r.key)
  BY ZenonT(60) DEF AssembleCredential
<1>6. \A w \in Provs \ {v} : ~Busy(w)
  BY <1>3, OthersIdle, Zenon
<1>7. HoldsKey(se, c.label, c.k3.key)
  BY <1>3, <1>4, Zenon
<1>8. CASE bcred' \in HalfWritten(bcred, c) /\ SetProv(v, o)
  <2>1. bcred' \in Torn \/ bcred' = c
    BY <1>3, <1>8, Zenon DEF HalfWritten, Torn
  <2>2. bcred' \in Torn \/ HoldsKey(se, bcred'.label, bcred'.k3.key)
    BY <1>7, <2>1, Zenon
  <2> QED
    BY <1>1, <1>6, <1>8, <2>2, ProvOver, QuietProvision, ZenonT(60)
<1>9. CASE bcred' \in Overwritten(bcred, c) /\ SetProv(v, q)
  <2>1. bcred' = c
    BY <1>3, <1>9, Zenon DEF Overwritten
  <2> HIDE DEF r, c
  <2>2. q.pc = "list" /\ q.key = r.key /\ DOMAIN q = ProvFields
    BY <1>2, ZenonT(60) DEF ProvFields
  <2> HIDE DEF q
  <2>3. HoldsKey(se', bcred'.label, bcred'.k3.key) /\ KeyKept(se', reg') /\ reg' = q.key
    BY <1>1, <1>3, <1>7, <2>1, <2>2, ZenonT(60) DEF NamedInv
  <2>4. HoldsKey(se', GenerationLabel(q.key), q.key)
    BY <1>1, <1>3, <2>2, Zenon
  <2>5. \A l \in DOMAIN se : l \in DOMAIN se' /\ se'[l] = se[l]
    BY <1>1, Zenon
  <2>6. q.key \in 0 .. Cardinality(Provs) /\ bcred' = BrokerCredential(q.key, GenerationLabel(q.key), q.key)
    BY <1>2, <1>5, <2>1, <2>2, ZenonT(60)
  <2>7. q.pc \notin {"write", "sweep"}
    BY <2>2, Zenon
  <2> QED
    BY <1>6, <1>9, <2>2, <2>3, <2>4, <2>5, <2>6, <2>7, KeysStay, ZenonT(60)
<1> QED
  BY <1>1, <1>8, <1>9, Zenon

LEMMA ListStaleKeysNamed ==
  ASSUME World, NamedInv, NEW v \in Provs, ListStaleKeys(v)
  PROVE  NamedInv'
<1> DEFINE r == prov[v]
           keep == GenerationLabel(r.key)
           stale == {l \in DOMAIN se : IsStaleK3Label(l, keep)}
           q == [r EXCEPT !.pc = "sweep", !.stale = stale]
           k == [r EXCEPT !.pc = "kick"]
<1>1. r.pc = "list" /\ UNCHANGED <<se, bcred, reg>> /\ (SetProv(v, q) \/ SetProv(v, k))
  BY Assembled, Zenon DEF ListStaleKeys
<1>2. DOMAIN r = ProvFields /\ r.key \in 0 .. Cardinality(Provs)
  BY Zenon DEF World
<1>3. HoldsKey(se, keep, r.key) /\ Busy(v) /\ bcred = AssembleCredential(v) /\ reg = r.key
  BY <1>1, ZenonT(60) DEF NamedInv, Provisions, Busy
<1>4. CASE SetProv(v, k)
  <2> HIDE DEF r
  <2>1. k.pc = "kick" /\ k.key = r.key /\ DOMAIN k = ProvFields
    BY <1>2, ZenonT(60) DEF ProvFields
  <2> HIDE DEF k
  <2> QED
    BY <1>1, <1>3, <1>4, <2>1, QuietProvision, ZenonT(60) DEF r
<1>5. CASE SetProv(v, q)
  <2>1. keep \notin stale /\ <<"prsn">> \notin stale
    BY Zenon DEF IsStaleK3Label
  <2>2. bcred' = BrokerCredential(r.key, keep, r.key)
    BY <1>1, <1>3, ZenonT(60) DEF AssembleCredential
  <2> HIDE DEF r, keep, stale
  <2>3. q.pc = "sweep" /\ q.key = r.key /\ q.stale = stale /\ DOMAIN q = ProvFields
    BY <1>2, Zenon DEF ProvFields
  <2> HIDE DEF q
  <2>4. /\ bcred' \in Torn \/ HoldsKey(se', bcred'.label, bcred'.k3.key)
        /\ KeyKept(se', reg')
    BY <1>1, ZenonT(60) DEF NamedInv
  <2>5. \A l \in DOMAIN se : l \in DOMAIN se' /\ se'[l] = se[l]
    BY <1>1, Zenon
  <2>6. HoldsKey(se', GenerationLabel(q.key), q.key) /\ reg' = q.key
    BY <1>1, <1>3, <2>3, ZenonT(60) DEF keep
  <2>7. q.key \in 0 .. Cardinality(Provs) /\ q.pc # "write"
        /\ bcred' = BrokerCredential(q.key, GenerationLabel(q.key), q.key)
        /\ GenerationLabel(q.key) \notin q.stale /\ <<"prsn">> \notin q.stale
    BY <1>2, <2>1, <2>2, <2>3, ZenonT(60) DEF keep
  <2> QED
    BY <1>1, <1>5, <2>3, <2>4, <2>5, <2>6, <2>7, KeysStay, ZenonT(60)
<1> QED
  BY <1>1, <1>4, <1>5, ZenonT(60)

\* The sweep deletes what it listed: not the key the credential names, nor a PRSN's.
LEMMA SweepStaleKeysNamed ==
  ASSUME World, OneAtATime, NamedInv, NEW v \in Provs, SweepStaleKeys(v)
  PROVE  NamedInv'
<1> DEFINE r == prov[v]
           q == [r EXCEPT !.pc = "kick", !.stale = {}]
           keep == GenerationLabel(r.key)
<1>1. /\ r.pc = "sweep" /\ bcred' = bcred /\ reg' = reg /\ SetProv(v, q)
      /\ se' = [l \in DOMAIN se \ r.stale |-> se[l]]
  BY Zenon DEF SweepStaleKeys
<1>2. DOMAIN r = ProvFields /\ r.key \in 0 .. Cardinality(Provs)
  BY DEF World
<1>3. /\ HoldsKey(se, keep, r.key) /\ Busy(v) /\ bcred = AssembleCredential(v) /\ reg = r.key
      /\ keep \notin r.stale /\ <<"prsn">> \notin r.stale /\ <<"prsn">> \in DOMAIN se
  BY <1>1, Zenon DEF NamedInv, Provisions, Busy
<1>4. bcred'.label = keep /\ bcred'.k3.key = r.key
  BY <1>1, <1>3, Assembled, ZenonT(60)
<1>5. \A w \in Provs \ {v} : ~Busy(w)
  BY <1>3, OthersIdle, Zenon
<1>6. HoldsKey(se', keep, r.key) /\ <<"prsn">> \in DOMAIN se'
  <2> HIDE DEF keep, r
  <2> QED
    BY <1>1, <1>3, ZenonT(60) DEF HoldsKey
<1>7. prov'[v] = q /\ \A w \in Provs \ {v} : prov'[w] = prov[w]
  <2>1. q.key = r.key /\ DOMAIN q = ProvFields
    <3> HIDE DEF r
    <3> QED
      BY <1>2, Zenon DEF ProvFields
  <2> HIDE DEF q
  <2> QED
    BY <1>1, <1>2, <2>1, ProvSet, ZenonT(60)
<1>8. q.pc = "kick" /\ q.key = r.key
  <2> HIDE DEF r
  <2> QED
    BY <1>2, Zenon DEF ProvFields
<1> HIDE DEF q
<1>9. Provisions(v)'
  BY <1>6, <1>7, <1>8, ZenonT(60) DEF Provisions
<1>10. ASSUME NEW w \in Provs \ {v}
       PROVE  Provisions(w)'
  <2>1. prov'[w].pc \in {"start", "over"}
    BY <1>5, <1>7, ZenonT(60) DEF Busy
  <2> QED
    BY <2>1, Zenon DEF Provisions, Busy
<1>11. HoldsKey(se', bcred'.label, bcred'.k3.key) /\ KeyKept(se', reg')
  BY <1>1, <1>3, <1>4, <1>6, KeyHeld, ZenonT(60)
<1> QED
  BY <1>6, <1>9, <1>10, <1>11, ZenonT(60) DEF NamedInv

LEMMA ProvisionNamed ==
  ASSUME World, OneAtATime, NamedInv, NEW v \in Provs,
         \/ VerifyBrokerServing(v) \/ KillProvision(v)
         \/ \E o \in {"ok", "403", "transport"} : Provision(v, o)
         \/ \E i \in BOOLEAN : KickstartBroker(v, i)
  PROVE  NamedInv'
<1> DEFINE s == prov[v]
           Quiet(r) == /\ DOMAIN r = ProvFields /\ r.key = s.key
                       /\ r.pc \in {"over", "post", "kick", "probe"} \/ (r.pc = "save" /\ reg' = r.key)
<1>1. DOMAIN s = ProvFields
  BY Zenon DEF World
<1>2. \A out : Quiet(OverProv(s, out))
  BY ProvOver, ZenonT(60)
<1>3. /\ UNCHANGED se /\ (bcred' = bcred \/ bcred' \in Torn)
      /\ reg' = reg \/ reg' = s.key
  BY Zenon DEF VerifyBrokerServing, KillProvision, Provision, KickstartBroker, Torn
<1>4. Busy(v)
  BY Zenon DEF Busy, VerifyBrokerServing, KillProvision, Provision, KickstartBroker
<1>5. \E r : SetProv(v, r) /\ Quiet(r)
  <2>1. CASE KillProvision(v)
    BY <1>2, <2>1, ZenonT(60) DEF KillProvision
  <2>2. CASE VerifyBrokerServing(v)
    <3> DEFINE q == [s EXCEPT !.left = s.left - 1]
    <3>1. s.pc = "probe"
      BY <2>2, ZenonT(60) DEF VerifyBrokerServing
    <3>2. SetProv(v, q) \/ \E out : SetProv(v, OverProv(s, out))
      BY <2>2, ZenonT(60) DEF VerifyBrokerServing
    <3>3. Quiet(q)
      <4> HIDE DEF s
      <4> QED
        BY <1>1, <3>1, ZenonT(60) DEF ProvFields
    <3> HIDE DEF q
    <3> QED
      BY <1>2, <3>2, <3>3, ZenonT(60)
  <2>3. ASSUME NEW i \in BOOLEAN, KickstartBroker(v, i)
        PROVE  \E r : SetProv(v, r) /\ Quiet(r)
    <3> DEFINE q == [s EXCEPT !.pc = "probe"]
    <3>1. SetProv(v, q) \/ \E out : SetProv(v, OverProv(s, out))
      BY <2>3, Zenon DEF KickstartBroker
    <3>2. Quiet(q)
      <4> HIDE DEF s
      <4> QED
        BY <1>1, ZenonT(60) DEF ProvFields
    <3> HIDE DEF q
    <3> QED
      BY <1>2, <3>1, <3>2, ZenonT(60)
  <2>4. ASSUME NEW o \in {"ok", "403", "transport"}, Provision(v, o)
        PROVE  \E r : SetProv(v, r) /\ Quiet(r)
    <3> DEFINE pass == PostText(FALSE, s.tries, o)
               q == [s EXCEPT !.pc = "save", !.tries = 0]
               Take == reg' = s.key
               g == [s EXCEPT !.tries = s.tries + 1]
    <3>1. s.pc = "post" /\ SetProv(v, CASE pass.next = "answer" -> q
                                        [] pass.next = "again"  -> g
                                        [] pass.next = "fail"   -> OverProv(s, pass.err))
      BY <2>4, ZenonT(60) DEF Provision
    <3>2. pass.next \in {"answer", "again", "fail"} /\ (pass.next = "answer" => o = "ok")
      BY Zenon DEF PostText, RefuseWriteIfReadOnly, Attempted, Pass
    <3>5. pass.next = "answer" => Take
      BY <2>4, <3>2, ZenonT(60) DEF Provision
    <3>3. (pass.next = "answer" => Quiet(q)) /\ Quiet(g)
      <4> HIDE DEF s, pass
      <4> QED
        BY <1>1, <3>1, <3>5, ZenonT(60) DEF ProvFields
    <3> HIDE DEF pass, q, g
    <3>4. (SetProv(v, q) /\ pass.next = "answer") \/ SetProv(v, g) \/ SetProv(v, OverProv(s, pass.err))
      BY <3>1, <3>2, ZenonT(60)
    <3> QED
      BY <1>2, <3>3, <3>4, ZenonT(60)
  <2> QED
    BY <2>1, <2>2, <2>3, <2>4, ZenonT(60)
<1>6. PICK r : SetProv(v, r) /\ Quiet(r)
  BY <1>5, Zenon
<1>7. \A w \in Provs \ {v} : ~Busy(w)
  BY <1>4, OthersIdle, ZenonT(60)
<1>8. reg' = reg \/ KeyKept(se, reg')
  <2>1. KeyKept(se, s.key)
    BY <1>4, KeyHeld, Zenon DEF NamedInv, Provisions
  <2> QED
    BY <1>3, <2>1, ZenonT(60)
<1> QED
  BY <1>3, <1>4, <1>6, <1>7, <1>8, QuietProvision, ZenonT(60)

LEMMA NextNamed ==
  ASSUME World, OneAtATime, NamedInv, [Next]_vars
  PROVE  NamedInv'
<1>1. ASSUME NEW v \in Provs, ProvStep(v) \/ KillProvision(v)
      PROVE  NamedInv'
  BY <1>1, GenerateK3KeyNamed, OpenCredentialFileNamed, SaveNamed, ListStaleKeysNamed, SweepStaleKeysNamed,
     ProvisionNamed, ZenonT(60) DEF ProvStep
<1>2. ASSUME UNCHANGED <<se, bcred, prov, reg>>
      PROVE  NamedInv'
  BY <1>2, Zenon DEF NamedInv, Provisions, Busy, HoldsKey, KeyKept, AssembleCredential
<1>3. ASSUME NEW p \in Agents, Command(p) \/ AgentStep(p) \/ Kill(p)
      PROVE  NamedInv'
  <2>1. UNCHANGED bvars
    BY <1>3, AgentAround, ZenonT(60) DEF Around
  <2> QED
    BY <1>2, <2>1, ZenonT(60) DEF bvars
<1>4. CASE \/ ServeFromCredential \/ DaemonDies \/ Pause \/ Reauthorize \/ Tick
           \/ UNCHANGED vars
  <2>1. UNCHANGED <<se, bcred, prov, reg>>
    BY <1>4, Zenon DEF ServeFromCredential, DaemonDies, Pause, Reauthorize, Tick, vars, bvars
  <2> QED
    BY <1>2, <2>1, ZenonT(60)
<1> QED
  BY <1>1, <1>3, <1>4, ZenonT(60) DEF Next

LEMMA InitNamed ==
  ASSUME Init
  PROVE  NamedInv
<1>1. /\ se = [l \in {LegacyLabel, <<"prsn">>} |-> 0] /\ bcred = BrokerCredential(0, LegacyLabel, 0)
      /\ reg = 0
  BY Zenon DEF Init, BrokerInit
<1>2. bcred.label = LegacyLabel /\ bcred.k3.key = 0
  BY <1>1, ZenonT(60) DEF BrokerCredential, BuildServerLeaf, BuildLeaf
<1>3. \A v \in Provs : prov[v].pc \in {"start", "over"}
  <2>1. PICK cast \in Casts : prov = [v \in Provs |-> IF v \in cast THEN Fresh ELSE OverProv(Fresh, "none")]
    BY Zenon DEF Init
  <2>2. Fresh.pc = "start" /\ OverProv(Fresh, "none").pc = "over"
    BY ProvOver, ZenonT(60) DEF Fresh
  <2> QED
    BY <2>1, <2>2, ZenonT(60)
<1>4. \A v \in Provs : Provisions(v)
  BY <1>3, ZenonT(60) DEF Provisions, Busy
<1>5. HoldsKey(se, bcred.label, bcred.k3.key) /\ <<"prsn">> \in DOMAIN se
  BY <1>1, <1>2, ZenonT(60) DEF HoldsKey
<1>6. KeyKept(se, reg)
  BY <1>1, LabelK3 DEF KeyKept
<1> QED
  BY <1>4, <1>5, <1>6, ZenonT(60) DEF NamedInv

-----------------------------------------------------------------------------
(* The theorems. *)

Fin == INSTANCE FiniteSetTheorems

\* The library's facts are about the Cardinality of the FiniteSets module.
LEMMA FinSame ==
  ASSUME NEW S
  PROVE  (IsFiniteSet(S) <=> Fin!IsFiniteSet(S)) /\ Cardinality(S) = Fin!Cardinality(S)
  BY Zenon DEF IsFiniteSet, Fin!IsFiniteSet, Cardinality, Fin!Cardinality

\* Finitely many provisions are counted by natural numbers.
LEMMA ProvsFinite == Counted
<1>1. IsFiniteSet(Provs) /\ Fin!IsFiniteSet(Provs)
  BY BrokerAssumption, FinSame, ZenonT(60)
<1>2. ASSUME NEW S \in SUBSET Provs
      PROVE  /\ Cardinality(S) \in Nat /\ Cardinality(Provs) \in Nat
             /\ Cardinality(S) <= Cardinality(Provs)
             /\ S # Provs => Cardinality(S) # Cardinality(Provs)
  <2>1. /\ Fin!IsFiniteSet(S) /\ Fin!Cardinality(S) <= Fin!Cardinality(Provs)
        /\ Fin!Cardinality(S) = Fin!Cardinality(Provs) => S = Provs
    BY <1>1, Fin!FS_Subset, ZenonT(60)
  <2>2. Fin!Cardinality(S) \in Nat /\ Fin!Cardinality(Provs) \in Nat
    BY <1>1, <2>1, Fin!FS_CardinalityType, ZenonT(60)
  <2> QED
    BY <2>1, <2>2, FinSame, ZenonT(60)
<1>3. ASSUME NEW S \in SUBSET Provs
      PROVE  Cardinality(S) \in Nat /\ (S # Provs => Cardinality(S) < Cardinality(Provs))
  BY <1>2
<1> QED
  BY <1>3, ZenonT(60) DEF Counted

\* The invariant behind them: the world around the commands, what each command holds
\* at each of its steps, and what is true of one that is left alone.
LEMMA Invariant == Spec => [](World /\ CredInv /\ AloneInv)
<1>1. Init => World /\ CredInv /\ AloneInv
  BY InitWorld, InitCred, InitAlone, ProvsFinite, ZenonT(60)
<1>2. World /\ CredInv /\ AloneInv /\ [Next]_vars => (World /\ CredInv /\ AloneInv)'
  BY NextWorld, NextCred, NextAlone, ZenonT(60)
<1> QED
  BY <1>1, <1>2, PTL DEF Spec

\* The state keeps its shape: every credential a command holds or writes is an agent's
\* certificate with a pin and tokens, attempts and retries stay in their bounds, and a
\* command performs no more operations than it was asked for.
THEOREM TypeCorrect == Spec => []TypeOK
<1>1. World /\ CredInv => TypeOK
  <2> SUFFICES ASSUME World, CredInv
               PROVE  TypeOK
    BY Zenon
  <2>1. \A c : Kept(c) => CredOk(c)
    BY Zenon DEF Kept, Held, CredOk
  <2>2. ASSUME NEW p \in Agents
        PROVE  /\ CredOk(run[p].cred) /\ CredOk(run[p].client) /\ CredOk(run[p].new)
               /\ run[p].att \in 1 .. 2 /\ run[p].tries \in 0 .. MaxRetries
               /\ run[p].ops < MaxOps[p]
    BY <2>1, RunNow, ZenonT(60) DEF Typed
  <2>3. file \in Torn \/ CredOk(file)
    BY <2>1, ZenonT(60) DEF CredInv, Stored
  <2> QED
    BY <2>2, <2>3, ZenonT(60) DEF TypeOK, World
<1> QED
  BY <1>1, Invariant, PTL

\* A broker token is only ever kept beside the certificate it is bound to, however the
\* renewals and pickups of any number of commands cross (rotate_cert drops the token).
THEOREM TokensBound == Spec => []TokenBoundToCert
<1>1. CredInv => TokenBoundToCert
  <2> SUFFICES ASSUME CredInv,
                      NEW c \in ({file} \ Torn) \cup UNION {{run[p].cred, run[p].client, run[p].new} : p \in Agents}
               PROVE  c.btok # NoTok => c.btok.cnf = c.cert.n
    BY Zenon DEF TokenBoundToCert
  <2>1. Kept(c)
    <3>1. /\ file \in Torn \/ Kept(file)
          /\ \A p \in Agents : Kept(run[p].cred) /\ Kept(run[p].client) /\ Kept(run[p].new)
      BY RunNow, ZenonT(60) DEF CredInv, Typed, Stored
    <3>2. (c = file /\ file \notin Torn) \/ \E p \in Agents : c \in {run[p].cred, run[p].client, run[p].new}
      BY Zenon
    <3> QED
      BY <3>1, <3>2, ZenonT(60)
  <2>2. NoFile.btok = NoTok
    BY ZenonT(60) DEF NoFile
  <2> QED
    BY <2>1, <2>2, ZenonT(60) DEF Kept, Held
<1> QED
  BY <1>1, Invariant, PTL

\* The broker performs an operation at most once per call: perform_op and its inner
\* retry go again only after an answer that says nothing was done.
THEOREM Once == Spec => []AtMostOnce
<1>1. CredInv => AtMostOnce
  <2> SUFFICES ASSUME CredInv, NEW p \in Agents
               PROVE  run[p].exec <= 1
    BY Zenon DEF AtMostOnce
  <2> QED
    BY RunNow DEF Typed
<1> QED
  BY <1>1, Invariant, PTL

\* A command replaces its credential by a pickup only after an answer that its own
\* authorization was refused or its access paused, once per keystore, or after the broker
\* showed another key (recovery_for); never on an unanswered call.  The broker answers
\* `access_paused` also when it cannot reach the server.
THEOREM Earning == Spec => RepickupEarned
<1>1. World /\ CredInv /\ [Next]_vars =>
        [\A p \in Agents :
           run'[p].pc = "pk.post" /\ run[p].pc # "pk.post" /\ run'[p].recov # "none" =>
               /\ run'[p].auths <= 1
               /\ run'[p].saw \in IF run'[p].recov = "pin" THEN {"broker_pin_mismatch"}
                                  ELSE {"refused", "access_paused"}]_vars
  BY NextCred, ZenonT(60) DEF Deserved
<1> QED
  BY <1>1, Invariant, PTL DEF Spec, RepickupEarned

\* Whatever whole credential the file holds, or when there is none yet, a command that is
\* left alone gets its keystore open and each operation done: pickup, retry, renewal and
\* the one recovery are enough, unless the guardian has paused the grant, the broker does
\* not serve its registered key, or the certificate has expired.  Only a file that the
\* in-place save of another command (PoPCredential::save) left torn stops it before.
THEOREM AloneWorks == Spec => []AloneItWorks
<1>1. CredInv /\ AloneInv => AloneItWorks
  <2> SUFFICES ASSUME CredInv, AloneInv, NEW p \in Agents, solo = p
               PROVE  /\ run[p].pc = "opdone" /\ ~run[p].fault /\ run[p].out # "ok" =>
                           Excused(run[p].client.cert)
                      /\ run[p].pc = "over" /\ run[p].out = "unopened" =>
                           grant.state = "paused" \/ file \in Torn
    BY Zenon DEF AloneItWorks, Excused
  <2>1. Alone(p) /\ Opened(p)
    BY ZenonT(60) DEF AloneInv
  <2>2. run[p].pc = "opdone" => run[p].kind = "use"
    BY RunNow, ZenonT(60) DEF Phased
  <2> QED
    BY <2>1, <2>2, ZenonT(60) DEF Alone, Opened
<1> QED
  BY <1>1, Invariant, PTL

\* The key that a whole broker credential names stays in the Secure Enclave and is its
\* certificate's, the key the server has registered stays there too, and PRSN keys are
\* left, through any number of provisions, each of whose saves in place may fail and each
\* of which may be killed at any step, as long as no two run at once.
THEOREM NamedKeyStays == Spec /\ []OneAtATime => []NamedKeyKept
<1>1. Init => NamedInv
  BY InitNamed, ZenonT(60)
<1>2. World /\ OneAtATime /\ NamedInv /\ [Next]_vars => NamedInv'
  BY NextNamed, ZenonT(60)
<1>3. NamedInv => NamedKeyKept
  <2> SUFFICES ASSUME NamedInv
               PROVE  NamedKeyKept
    BY ZenonT(60)
  <2>1. <<"prsn">> \in DOMAIN se /\ \E l \in DOMAIN se : l[1] = "k3" /\ se[l] = reg
    BY ZenonT(60) DEF NamedInv, KeyKept
  <2>2. ASSUME bcred \notin Torn
        PROVE  VerifyK3Binding(bcred)
    <3>1. bcred.label \in DOMAIN se /\ se[bcred.label] = bcred.k3.key
      BY <2>2, ZenonT(60) DEF NamedInv, HoldsKey
    <3>2. BrokerSeSign(bcred.label) = Yes(se[bcred.label])
      BY <3>1, ZenonT(60) DEF BrokerSeSign
    <3>3. BrokerSeSign(bcred.label).ok /\ BrokerSeSign(bcred.label).val = se[bcred.label]
      BY <3>2 DEF Yes
    <3> QED
      BY <3>1, <3>3, ZenonT(60) DEF VerifyK3Binding
  <2> QED
    BY <2>1, <2>2, ZenonT(60) DEF NamedKeyKept
<1> QED
  BY <1>1, <1>2, <1>3, Invariant, PTL DEF Spec
=============================================================================
