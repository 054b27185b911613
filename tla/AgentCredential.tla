-------------------------- MODULE AgentCredential ---------------------------
(***************************************************************************)
(* The agent's proof-of-possession credential: one file holding a client   *)
(* certificate and its key, the broker's pin and two tokens, which every   *)
(* command loads, renews and rewrites whole.  A command that uses the      *)
(* broker renews the certificate past half its life and the token near its *)
(* end, retries once with a fresh token, and recovers by one signed pickup *)
(* from a re-provisioned broker or a withdrawn authorization.              *)
(*                                                                         *)
(* The server is external.  It knows one current certificate of the PRSN's *)
(* grant; a pickup or a renewal issues a new one and cuts the old.         *)
(***************************************************************************)
EXTENDS BrokerIdentity

CONSTANTS
    Agents,         \* commands of the agent, as processes
    Kinds,          \* agent -> which commands it may be
    MaxOps,         \* agent -> operations on its broker keystore
    Margin,         \* a token this close to its end is renewed (120 s)
    Lag,            \* how far the agent's clock runs behind the server's
    Jumps,          \* the times the clock may jump to
    Casts           \* which processes take part: an agent's pair, or one and a provision

ASSUME AgentAssumption ==
    /\ Kinds \in [Agents -> SUBSET {"use", "direct", "renew", "renew_cert", "pickup"}]
    /\ MaxOps \in [Agents -> Nat \ {0}] /\ Margin \in Nat /\ Lag \in Nat
    /\ Jumps \subseteq 0 .. MaxTime /\ Casts \subseteq SUBSET (Agents \cup Provs)
    /\ Agents \cap Provs = {} /\ "none" \notin Agents \cup Provs

VARIABLES
    grant,      \* server: [state, cur]: cur is the serial of the live certificate
    issued,     \* server: how many certificates it has issued
    file,       \* the credential file, or NoFile
    run         \* the agent's processes

avars == <<grant, issued, file, run>>
vars == <<now, events, solo, bvars, avars>>

Handle == "ada-ai"
NoTok == [aud |-> "none", sub |-> "none", cnf |-> 0, iat |-> 0, exp |-> 0]
NoFile == [pin |-> 0, stok |-> NoTok, btok |-> NoTok]
AgentNow == IF now > Lag THEN now - Lag ELSE 0

Cert(n) == IssueAgentCert(BuildCsr(n), Handle, n, now, AgentValidity)
Token(aud, cert) == EncodeSigningInput(aud, Handle, cert.n, now)

\* What a pickup hands out: the broker's pin of the moment, no broker token yet.
PoPCredential(cert) ==
    [cert |-> cert, pin |-> reg, stok |-> Token("server", cert), btok |-> NoTok]

\* Mutant: the tokens of the old certificate stay.
RotateKeepingTokens(c, cert) == [c EXCEPT !.cert = cert]

RotateCert(c, cert) == [c EXCEPT !.cert = cert, !.btok = NoTok]

Idle == [kind |-> "none", wrong |-> FALSE, pc |-> "start", cred |-> NoFile, client |-> NoFile, new |-> NoFile,
         had |-> FALSE, aud |-> "none", ops |-> 0, att |-> 1, tries |-> 0, recov |-> "none",
         reauth |-> FALSE, auths |-> 0, orig |-> "none", saw |-> "none", exec |-> 0,
         fault |-> FALSE, out |-> "none"]

Set(p, r) == run' = [run EXCEPT ![p] = r]

\* A command is over.  One that came to use the broker and, given the right arguments,
\* did not get as far as its first operation is remembered.
OverRun(r, out) ==
    [Idle EXCEPT !.pc = "over",
                 !.out = IF r.kind = "use" /\ r.pc # "opdone"
                            /\ out \notin {"config_error", "identity_mismatch"}
                         THEN "unopened" ELSE "over"]
ServerVars == <<grant, issued>>

-----------------------------------------------------------------------------
(* Decisions. *)

PastHalfValidity(nb, na, t) == t >= nb + ((na - nb) \div 2)

Due(c) == LET w == CertValidityWindow(c.cert) IN PastHalfValidity(w[1], w[2], AgentNow)

\* exp - now < margin, in the agent's own time.
TokenNearExpiry(t) == t = NoTok \/ t.exp < AgentNow + Margin

\* Mutant: any refusal of our server's shape counts.
RejectAnyStatus(status, ours) == IF ours THEN "token_denied" ELSE "token_request_failed"

\* Only a 403 in the server's own error shape is a refused authorization.
RejectKind(status, ours) ==
    IF status = 403 /\ ours THEN "token_denied" ELSE "token_request_failed"

RecoveryFor(code, attempted) ==
    CASE code = "broker_pin_mismatch" -> "pin"
      [] code \in {"access_paused", "token_denied"} /\ ~attempted -> "auth"
      [] OTHER -> "none"

\* The server's judgement of a certificate at its mutual-TLS endpoints.
Known(cert) == grant.state = "active" /\ grant.cur = cert.n
Chains(cert) == K2ClientCertVerifier(cert, now)

\* The answers to a token request: a token, a refusal, a server error in the
\* server's shape, a proxy's page, or none.
TokenAnswers == {"token", "refused", "server_error", "proxy", "lost"}

TokenAnswer(cert, s) ==
    \/ s = "token" /\ Chains(cert) /\ Known(cert) /\ NoEvent
    \/ s = "refused" /\ Chains(cert) /\ ~Known(cert) /\ NoEvent
    \/ s = "lost" /\ ~Chains(cert) /\ NoEvent
    \/ s \in {"server_error", "proxy", "lost"} /\ Event

RequestToken(s) ==
    CASE s = "token"        -> "ok"
      [] s = "refused"      -> RejectKind(403, TRUE)
      [] s = "server_error" -> RejectKind(500, TRUE)
      [] s = "proxy"        -> RejectKind(403, FALSE)
      [] s = "lost"         -> "token_endpoint_unreachable"

\* What p saw, and whether it was a failure of the network or of a server.
Saw(r, s) == [r EXCEPT !.saw = s, !.fault = @ \/ events' # events]

\* A step of p leaves p undisturbed, and nobody else; a loss disturbs everyone.
Keep(p) == solo' = IF solo = p THEN p ELSE "none"
Loses(p) == solo' = IF solo = p /\ events' = events THEN p ELSE "none"

-----------------------------------------------------------------------------
(* How operations and their parts end. *)

OpDone(r, out) == [r EXCEPT !.pc = "opdone", !.out = out, !.saw = "none", !.orig = "none"]

\* perform_op: one recovery, and one more attempt after it.
OpFailed(r, e) ==
    IF r.kind # "use" THEN OverRun(r, e)
    ELSE IF r.recov # "none" \/ RecoveryFor(e, r.reauth) = "none" THEN OpDone(r, e)
    ELSE LET auth == RecoveryFor(e, r.reauth) = "auth"
         IN  [r EXCEPT !.pc = "pk.post", !.recov = RecoveryFor(e, r.reauth), !.orig = e,
                       !.reauth = @ \/ auth, !.auths = IF auth THEN @ + 1 ELSE @]

\* Mutant: an operation without an answer is sent again as well.
WireRetriesUnanswered(r, e) ==
    IF r.kind = "use" /\ r.att = 1 /\ e \in {"token_expired", "unauthorized", "broker_unreachable"}
    THEN [r EXCEPT !.pc = "tok", !.att = 2] ELSE OpFailed(r, e)

\* perform_op_inner: a token the broker would not take is replaced once.
WireFailed(r, e) ==
    IF r.kind = "use" /\ r.att = 1 /\ e \in {"token_expired", "unauthorized"}
    THEN [r EXCEPT !.pc = "tok", !.att = 2] ELSE OpFailed(r, e)

\* A refused pickup: the authorization error stands, the pin's does not.
PickupFailed(r, e) ==
    CASE r.recov = "auth" -> OpDone(r, r.orig)
      [] r.recov = "pin"  -> OpDone(r, e)
      [] r.recov = "none" -> OverRun(r, e)

\* Automatic renewal is best effort: the command goes on with what it loaded.
RenewalFailed(r, e) ==
    IF r.kind = "renew_cert" THEN OverRun(r, e) ELSE [r EXCEPT !.pc = "ready"]

\* The saves: where the file is opened, and where it is written.
Saves == {"rc.save", "rc.save2", "tok.save", "pk.save"}
Writes == {"rc.write", "rc.write2", "tok.write", "pk.write"}
WritePc(pc) == CASE pc = "rc.save"  -> "rc.write"
                 [] pc = "rc.save2" -> "rc.write2"
                 [] pc = "tok.save" -> "tok.write"
                 [] pc = "pk.save"  -> "pk.write"
Saving(r) == IF r.pc = "tok.write" THEN r.cred ELSE r.new

SaveFailed(r) ==
    CASE r.pc \in {"tok.save", "tok.write"} -> OpFailed(Saw(r, "unsaved"), "output_write_failed")
      [] r.pc \in {"pk.save", "pk.write"} ->
           PickupFailed([r EXCEPT !.new = NoFile], "output_write_failed")
      [] OTHER -> RenewalFailed(r, "output_write_failed")

\* PoPCredential::load of a file that is not there, or not whole.
Unreadable == {NoFile} \cup Torn
LoadError == IF file = NoFile THEN "key_not_found" ELSE "filesystem_error"

Issue == grant' = [state |-> "active", cur |-> issued + 1] /\ issued' = issued + 1

-----------------------------------------------------------------------------
(* Opening. *)

\* The credential's path: given, or the default of the asserted handle.
BrokerCredentialPath(given, asserted) == given \/ asserted # "none"

\* A harness that asserts another PRSN than the credential's is refused.
CheckIdentityMatch(wrong) == ~wrong

ResolveCredentialPath(given, asserted) == given \/ asserted # "none"

AutoPickup(r, asserted) ==
    IF asserted = "none" THEN OverRun(r, "config_error") ELSE [r EXCEPT !.pc = "pk.post"]

Begin(p, r) == Set(p, r) /\ solo' = p /\ UNCHANGED <<now, events, bvars, ServerVars, file>>

\* A command with a broker configured.  No credential yet: claim it, as the
\* asserted handle.
OpenKeystore(p, given, asserted) ==
    /\ run[p].pc = "start" /\ "use" \in Kinds[p]
    /\ LET r == [run[p] EXCEPT !.kind = "use", !.wrong = asserted = "other"]
       IN  Begin(p, IF ~BrokerCredentialPath(given, asserted) THEN OverRun(r, "config_error")
                    ELSE IF file # NoFile THEN [r EXCEPT !.pc = "load"]
                    ELSE AutoPickup(r, asserted))

PickupCommand(p, asserted) ==
    /\ run[p].pc = "start" /\ "pickup" \in Kinds[p]
    /\ LET r == [run[p] EXCEPT !.kind = "pickup"]
       IN  Begin(p, IF asserted = "none" THEN OverRun(r, "config_error")
                    ELSE [r EXCEPT !.pc = "pk.post"])

RenewCommand(p, given, asserted, aud) ==
    /\ run[p].pc = "start" /\ "renew" \in Kinds[p]
    /\ LET r == [run[p] EXCEPT !.kind = "renew", !.aud = aud]
       IN  Begin(p, IF ResolveCredentialPath(given, asserted) THEN [r EXCEPT !.pc = "load"]
                    ELSE OverRun(r, "invalid_arguments"))

RenewCertCommand(p, given, asserted) ==
    /\ run[p].pc = "start" /\ "renew_cert" \in Kinds[p]
    /\ LET r == [run[p] EXCEPT !.kind = "renew_cert"]
       IN  Begin(p, IF ResolveCredentialPath(given, asserted) THEN [r EXCEPT !.pc = "rc.load"]
                    ELSE OverRun(r, "invalid_arguments"))

\* `garnet keygen` and `garnet sign`: straight to the broker, no recovery.
DirectCommand(p, given, asserted) ==
    /\ run[p].pc = "start" /\ "direct" \in Kinds[p]
    /\ LET r == [run[p] EXCEPT !.kind = "direct"]
       IN  Begin(p, IF ResolveCredentialPath(given, asserted) THEN [r EXCEPT !.pc = "load"]
                    ELSE OverRun(r, "invalid_arguments"))

Command(p) ==
    \E given \in BOOLEAN, asserted \in {"none", Handle} :
        \/ OpenKeystore(p, given, asserted) \/ RenewCertCommand(p, given, asserted)
        \/ DirectCommand(p, given, asserted) \/ PickupCommand(p, asserted)
        \/ given /\ file # NoFile /\ OpenKeystore(p, TRUE, "other")
        \/ \E aud \in {"broker", "server"} : RenewCommand(p, given, asserted, aud)

Load(p) ==
    /\ run[p].pc = "load"
    /\ LET r == [run[p] EXCEPT !.cred = file]
       IN  Set(p, CASE file \in Unreadable -> OverRun(run[p], LoadError)
                    [] file \notin Unreadable /\ r.kind = "renew" -> [r EXCEPT !.pc = "tok"]
                    [] OTHER -> [r EXCEPT !.pc = IF Due(file) THEN "rc.load" ELSE "ready"])
    /\ Keep(p) /\ UNCHANGED <<now, events, bvars, ServerVars, file>>

\* The client is built on the credential, certificate and pin.
Ready(p) ==
    /\ run[p].pc = "ready"
    /\ Set(p, IF CheckIdentityMatch(run[p].wrong)
              THEN [run[p] EXCEPT !.pc = "tok", !.aud = "broker", !.client = run[p].cred,
                                  !.new = NoFile, !.had = FALSE]
              ELSE OverRun(run[p], "identity_mismatch"))
    /\ Keep(p) /\ UNCHANGED <<now, events, bvars, ServerVars, file>>

-----------------------------------------------------------------------------
(* PoPCredential::save writes the whole credential in place. *)

\* The file is opened, and truncated.
OpenForSave(p) ==
    /\ run[p].pc \in Saves
    /\ \/ NoEvent /\ file' = Empty /\ Set(p, [run[p] EXCEPT !.pc = WritePc(@)])
       \/ Event /\ UNCHANGED file /\ Set(p, SaveFailed(run[p]))
    /\ Loses(p) /\ UNCHANGED <<now, bvars, ServerVars>>

\* The write fails, or the change of the file's mode after it.
WriteFails(p) ==
    /\ run[p].pc \in Writes /\ Event
    /\ file' \in HalfWritten(file, Saving(run[p]))
    /\ Set(p, SaveFailed(run[p]))
    /\ Loses(p) /\ UNCHANGED <<now, bvars, ServerVars>>

\* The credential is written.
Written(p) ==
    /\ file' \in Overwritten(file, Saving(run[p]))
    /\ Keep(p) /\ UNCHANGED <<now, events, bvars, ServerVars>>

-----------------------------------------------------------------------------
(* Renewing the certificate: load, request, rotate and save, then the tokens. *)

RenewCertFlow(p) ==
    /\ run[p].pc = "rc.load"
    /\ Set(p, IF file \in Unreadable THEN RenewalFailed(run[p], LoadError)
              ELSE [run[p] EXCEPT !.pc = "rc.post", !.new = file, !.had = file.btok # NoTok])
    /\ Keep(p) /\ UNCHANGED <<now, events, bvars, ServerVars, file>>

RequestCertRenewal(p) ==
    /\ run[p].pc = "rc.post"
    /\ LET r == run[p]
           cert == r.new.cert
           ok == Chains(cert) /\ Known(cert)
       IN  \/ ok /\ NoEvent /\ Issue
              /\ Set(p, [r EXCEPT !.pc = "rc.save",
                                  !.new = RotateCert(r.new, Cert(issued + 1))])
           \/ ~ok /\ NoEvent /\ UNCHANGED ServerVars /\ Set(p, RenewalFailed(r, "cert_renewal_denied"))
           \/ Event /\ (UNCHANGED ServerVars \/ (ok /\ Issue))
              /\ Set(p, Saw(RenewalFailed(r, "token_endpoint_unreachable"), "lost"))
    /\ Loses(p) /\ UNCHANGED <<now, bvars, file>>

\* The new certificate is written before anything else is asked for.
RotateAndSave(p) ==
    /\ run[p].pc = "rc.write" /\ Written(p)
    /\ Set(p, [run[p] EXCEPT !.pc = "rc.stok"])

RefreshTokens(p, s) ==
    /\ run[p].pc \in {"rc.stok", "rc.btok"} /\ TokenAnswer(run[p].new.cert, s)
    /\ LET r == Saw(run[p], s)
           server == r.pc = "rc.stok"
       IN  Set(p, CASE s # "token" -> RenewalFailed(r, RequestToken(s))
                    [] s = "token" /\ server ->
                         [r EXCEPT !.new.stok = Token("server", r.new.cert),
                                   !.pc = IF r.had THEN "rc.btok" ELSE "rc.save2"]
                    [] OTHER -> [r EXCEPT !.new.btok = Token("broker", r.new.cert), !.pc = "rc.save2"])
    /\ Keep(p) /\ UNCHANGED <<now, bvars, ServerVars, file>>

SaveRenewed(p) ==
    /\ run[p].pc = "rc.write2" /\ Written(p)
    /\ Set(p, IF run[p].kind = "renew_cert" THEN OverRun(run[p], "ok")
              ELSE [run[p] EXCEPT !.pc = "rc.reload"])

\* Another's save may have torn the file again: then what was loaded stands.
AutoRenewed(p) ==
    /\ run[p].pc = "rc.reload"
    /\ Set(p, [run[p] EXCEPT !.pc = "ready", !.cred = IF file \in Unreadable THEN @ ELSE file])
    /\ Keep(p) /\ UNCHANGED <<now, events, bvars, ServerVars, file>>

-----------------------------------------------------------------------------
(* One operation: a token good enough, the wire, and what comes of it. *)

\* When a token is asked for: never there, near its end, or refused once; the
\* `garnet` commands ask only when there is none, `renew` always.
NeedsToken(r) == CASE r.kind = "use"    -> r.att = 2 \/ TokenNearExpiry(r.cred.btok)
                   [] r.kind = "direct" -> r.cred.btok = NoTok
                   [] r.kind = "renew"  -> TRUE

WithToken(r) == IF r.aud = "broker" THEN [r EXCEPT !.cred.btok = Token("broker", r.cred.cert)]
                ELSE [r EXCEPT !.cred.stok = Token("server", r.cred.cert)]

EnsureBrokerToken(p) ==
    /\ run[p].pc = "tok"
    /\ LET r == run[p]
       IN  \/ ~NeedsToken(r) /\ NoEvent /\ Set(p, [r EXCEPT !.pc = "wire"])
           \/ \E s \in TokenAnswers :
                /\ NeedsToken(r) /\ TokenAnswer(r.cred.cert, s)
                /\ Set(p, IF s = "token" THEN [WithToken(Saw(r, s)) EXCEPT !.pc = "tok.save"]
                          ELSE OpFailed(Saw(r, s), RequestToken(s)))
    /\ Keep(p) /\ UNCHANGED <<now, bvars, ServerVars, file>>

\* The whole credential goes back to the file.
SaveToken(p) ==
    /\ run[p].pc = "tok.write" /\ Written(p)
    /\ Set(p, IF run[p].kind = "renew" THEN OverRun(run[p], "ok") ELSE [run[p] EXCEPT !.pc = "wire"])

\* What the broker makes of a request: its checks in order, then the live grant
\* or the lease of an earlier answer.  A lost answer hides what was done.
BrokerAnswer(r, a, did) ==
    LET cert == r.client.cert
        hs == Handshake(daemon, r.client.pin)
        token == VerifyStructural(r.cred.btok, "broker", CertSanHandle(cert).val, cert.n)
        good == hs = "ok" /\ Chains(cert) /\ token = "ok" /\ now <= r.cred.btok.exp + Skew
    IN  \/ a = "broker_unreachable" /\ ~did /\ NoEvent
           /\ (hs = "unreachable" \/ (hs = "ok" /\ ~Chains(cert)))
        \/ a = "broker_pin_mismatch" /\ ~did /\ NoEvent /\ hs = "pin_mismatch"
        \/ a = "unauthorized" /\ ~did /\ NoEvent /\ hs = "ok" /\ Chains(cert) /\ token # "ok"
        \/ a = "token_expired" /\ ~did /\ NoEvent /\ hs = "ok" /\ Chains(cert) /\ token = "ok"
           /\ now > r.cred.btok.exp + Skew
        \/ a = "ok" /\ did /\ good /\ NoEvent
        \/ a = "access_paused" /\ ~did /\ good /\ ~Known(cert) /\ NoEvent
        \/ a = "access_paused" /\ ~did /\ good /\ Known(cert) /\ Event
        \/ a = "broker_unreachable" /\ good /\ Event

Answers == {"ok", "broker_unreachable", "broker_pin_mismatch", "unauthorized",
            "token_expired", "access_paused"}

PerformWire(p, a, did) ==
    /\ run[p].pc = "wire" /\ BrokerAnswer(run[p], a, did)
    /\ LET r == [Saw(run[p], a) EXCEPT !.exec = IF did THEN @ + 1 ELSE @]
       IN  Set(p, CASE a # "ok" -> WireFailed(r, a)
                    [] a = "ok" /\ r.kind = "use" -> OpDone(r, "ok")
                    [] OTHER -> OverRun(r, "ok"))
    /\ Keep(p) /\ UNCHANGED <<now, bvars, ServerVars, file>>

\* Mutant: one operation too many.
NextOpOnceMore(p) ==
    /\ run[p].pc = "opdone"
    /\ LET r == run[p]
       IN  Set(p, IF r.ops + 1 > MaxOps[p] THEN OverRun(r, r.out)
                  ELSE [r EXCEPT !.pc = "tok", !.ops = @ + 1, !.att = 1, !.recov = "none",
                                 !.orig = "none", !.saw = "none", !.exec = 0, !.out = "none"])
    /\ Keep(p) /\ UNCHANGED <<now, events, bvars, ServerVars, file>>

\* The command's next operation on the same keystore, or its end.
NextOp(p) ==
    /\ run[p].pc = "opdone"
    /\ LET r == run[p]
       IN  Set(p, IF r.ops + 1 = MaxOps[p] THEN OverRun(r, r.out)
                  ELSE [r EXCEPT !.pc = "tok", !.ops = @ + 1, !.att = 1, !.recov = "none",
                                 !.orig = "none", !.saw = "none", !.exec = 0, !.out = "none"])
    /\ Keep(p) /\ UNCHANGED <<now, events, bvars, ServerVars, file>>

-----------------------------------------------------------------------------
(* Signed pickup. *)

Pickup(p, o) ==
    /\ run[p].pc = "pk.post"
    /\ LET r == run[p]
           pass == SignedCall(FALSE, "POST", r.tries, o)
           open == grant.state # "paused"
       IN  /\ \/ o = "ok" /\ open /\ Issue /\ NoEvent
              \/ o = "403" /\ ~open /\ UNCHANGED ServerVars /\ NoEvent
              \/ o = "transport" /\ Event /\ (UNCHANGED ServerVars \/ (open /\ Issue))
           /\ Set(p, CASE pass.next = "answer" ->
                            [r EXCEPT !.pc = "pk.tok", !.tries = 0,
                                      !.new = PoPCredential(Cert(issued + 1))]
                       [] pass.next = "again" -> [Saw(r, "lost") EXCEPT !.tries = @ + 1]
                       [] pass.next = "fail"  -> PickupFailed([Saw(r, o) EXCEPT !.tries = 0], pass.err))
    /\ Loses(p) /\ UNCHANGED <<now, bvars, file>>

\* The broker token is best effort.
PickupToken(p, s) ==
    /\ run[p].pc = "pk.tok" /\ TokenAnswer(run[p].new.cert, s)
    /\ LET r == Saw(run[p], s)
       IN  Set(p, [r EXCEPT !.pc = "pk.save",
                            !.new.btok = IF s = "token" THEN Token("broker", r.new.cert) ELSE NoTok])
    /\ Keep(p) /\ UNCHANGED <<now, bvars, ServerVars, file>>

PickupAndSave(p) ==
    /\ run[p].pc = "pk.write" /\ Written(p)
    /\ LET r == [run[p] EXCEPT !.new = NoFile]
       IN  Set(p, CASE r.recov # "none" -> [r EXCEPT !.pc = "pk.load"]
                    [] r.recov = "none" /\ r.kind = "use" -> [r EXCEPT !.pc = "load"]
                    [] OTHER -> OverRun(r, "ok"))

\* Mutant: the client keeps the certificate and the pin it was built with.
ReloadWithoutClient(p) ==
    /\ run[p].pc = "pk.load"
    /\ Set(p, IF file \in Unreadable THEN PickupFailed(run[p], LoadError)
              ELSE [run[p] EXCEPT !.pc = "tok", !.att = 1, !.cred = file])
    /\ Keep(p) /\ UNCHANGED <<now, events, bvars, ServerVars, file>>

\* The credential and the client are replaced by what the file holds now.
RepickupAndReload(p) ==
    /\ run[p].pc = "pk.load"
    /\ Set(p, IF file \in Unreadable THEN PickupFailed(run[p], LoadError)
              ELSE [run[p] EXCEPT !.pc = "tok", !.att = 1, !.cred = file, !.client = file])
    /\ Keep(p) /\ UNCHANGED <<now, events, bvars, ServerVars, file>>

-----------------------------------------------------------------------------
(* The guardian, the clock, kills. *)

Kill(p) ==
    /\ run[p].pc \notin {"start", "over"} /\ Event
    /\ file' = file \/ (run[p].pc \in Writes /\ file' = Partial)
    /\ Set(p, OverRun(run[p], "killed"))
    /\ Unsettled /\ UNCHANGED <<now, bvars, ServerVars>>

Pause ==
    /\ grant.state # "paused" /\ Event
    /\ grant' = [state |-> "paused", cur |-> 0]
    /\ Unsettled /\ UNCHANGED <<now, bvars, issued, file, run>>

Reauthorize ==
    /\ grant.state = "paused"
    /\ grant' = [grant EXCEPT !.state = "wait"]
    /\ Unsettled /\ UNCHANGED <<now, events, bvars, issued, file, run>>

\* Time passes, as long as a machine may sleep.
Tick ==
    /\ Event /\ \E t \in Jumps : t > now /\ now' = t
    /\ Unsettled /\ UNCHANGED <<bvars, avars>>

AgentStep(p) ==
    \/ Load(p) \/ Ready(p) \/ OpenForSave(p) \/ WriteFails(p)
    \/ RenewCertFlow(p) \/ RequestCertRenewal(p) \/ RotateAndSave(p)
    \/ SaveRenewed(p) \/ AutoRenewed(p) \/ EnsureBrokerToken(p) \/ SaveToken(p)
    \/ NextOp(p) \/ PickupAndSave(p) \/ RepickupAndReload(p)
    \/ \E s \in TokenAnswers : RefreshTokens(p, s) \/ PickupToken(p, s)
    \/ \E a \in Answers, did \in BOOLEAN : PerformWire(p, a, did)
    \/ \E o \in {"ok", "403", "transport"} : Pickup(p, o)

Next ==
    \/ \E p \in Agents : Command(p) \/ AgentStep(p) \/ Kill(p)
    \/ \E v \in Provs : (ProvStep(v) \/ KillProvision(v)) /\ UNCHANGED avars
    \/ (ServeFromCredential \/ DaemonDies) /\ UNCHANGED avars
    \/ Pause \/ Reauthorize \/ Tick

Connected == PoPCredential(Cert(1))

Init ==
    /\ BrokerInit
    /\ issued = 1
    /\ \E cast \in Casts :
         /\ run = [p \in Agents |-> IF p \in cast THEN Idle ELSE OverRun(Idle, "none")]
         /\ prov = [v \in Provs |-> IF v \in cast THEN Fresh ELSE OverProv(Fresh, "none")]
    /\ \/ file = NoFile /\ grant = [state |-> "wait", cur |-> 0]
       \/ file = [Connected EXCEPT !.btok = Token("broker", Connected.cert)]
          /\ grant = [state |-> "active", cur |-> 1]

Spec == Init /\ [][Next]_vars

-----------------------------------------------------------------------------
(* Properties. *)

Tokens == [aud : {"none", "server", "broker"}, sub : {"none", Handle}, cnf : Nat, iat : Nat, exp : Nat]
CredOk(c) == c = NoFile \/ (c.cert.role = "prsn" /\ c.pin \in Nat /\ c.stok \in Tokens /\ c.btok \in Tokens)

\* The shape of the state.
TypeOK ==
    /\ now \in 0 .. MaxTime /\ events \in 0 .. MaxEvents
    /\ solo \in Agents \cup Provs \cup {"none"}
    /\ grant.state \in {"active", "wait", "paused"} /\ grant.cur \in 0 .. issued
    /\ (file \in Torn \/ CredOk(file)) /\ reg \in 0 .. Cardinality(Provs) /\ used \subseteq Provs
    /\ \A p \in Agents : /\ CredOk(run[p].cred) /\ CredOk(run[p].client) /\ CredOk(run[p].new)
                         /\ run[p].att \in 1 .. 2 /\ run[p].tries \in 0 .. MaxRetries
                         /\ run[p].ops < MaxOps[p]

\* A broker token is only ever kept beside the certificate it is bound to, in the
\* file and in every command, whatever renewals and pickups cross: rotate_cert
\* drops the token of the certificate it replaces.
TokenBoundToCert ==
    \A c \in ({file} \ Torn) \cup UNION {{run[p].cred, run[p].client, run[p].new} : p \in Agents} :
        c.btok # NoTok => c.btok.cnf = c.cert.n

\* The broker performs an operation at most once per call: perform_op tries again
\* only after an answer that says nothing was done.
AtMostOnce == \A p \in Agents : run[p].exec <= 1

\* A command replaces its credential by a pickup only after the server refused its
\* certificate a token or the broker said that access is paused, once per keystore, or
\* after the broker showed another key; never because the token endpoint failed,
\* answered through a proxy or not at all, or the broker could not be reached
\* (reject_kind, recovery_for).  A broker that says paused because it could not ask
\* the server is taken at its word.
RepickupEarned ==
    [][\A p \in Agents :
         run'[p].pc = "pk.post" /\ run[p].pc # "pk.post" /\ run'[p].recov # "none" =>
             /\ run'[p].auths <= 1
             /\ run'[p].saw \in IF run'[p].recov = "pin" THEN {"broker_pin_mismatch"}
                                ELSE {"refused", "access_paused"}]_vars

\* Whatever whole credential the file holds - a cut certificate, an old pin, a stale
\* token - or when there is none yet, a command left alone gets its keystore open and
\* each operation done, unless the guardian has paused the grant, the broker does not
\* serve its registered key, or the certificate it loaded has expired.  Only a file
\* that a save of another command left torn stops it before.
AloneItWorks ==
    \A p \in Agents :
        solo = p =>
            /\ run[p].pc = "opdone" /\ ~run[p].fault /\ run[p].out # "ok" =>
                 \/ grant.state = "paused"
                 \/ Handshake(daemon, reg) # "ok"
                 \/ ~Chains(run[p].client.cert)
            /\ run[p].pc = "over" /\ run[p].out = "unopened" =>
                 grant.state = "paused" \/ file \in Torn

\* Before, during and after a provision that may fail or be killed at any step, the
\* key that a whole broker credential names is in the Secure Enclave and is its
\* certificate's, and so is the key that the server gives out as the broker's pin,
\* even where the save left no credential that names it; the sweep touches no PRSN key.
NamedKeyKept ==
    /\ bcred \notin Torn => VerifyK3Binding(bcred)
    /\ \E l \in DOMAIN se : l[1] = "k3" /\ se[l] = reg
    /\ <<"prsn">> \in DOMAIN se

=============================================================================
