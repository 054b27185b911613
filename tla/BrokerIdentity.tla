--------------------------- MODULE BrokerIdentity ---------------------------
(***************************************************************************)
(* The broker's own identity: `signet broker provision` makes a fresh K3   *)
(* key in the Secure Enclave, registers it with a one-time code, writes    *)
(* the broker credential, sweeps older K3 keys, restarts the daemon and    *)
(* probes that it serves.  The daemon loads the credential once, when it   *)
(* starts, and refuses to serve a key that is not its certificate's.       *)
(*                                                                         *)
(* The server is external: a code registers one broker, whose K3 key it    *)
(* then gives to agents as the pin.  launchd restarts a daemon that is     *)
(* down.                                                                   *)
(***************************************************************************)
EXTENDS Pki, Http, Sequences, FiniteSets

CONSTANTS
    Provs,          \* runs of `broker provision`, each with a code of its own
    Attempts,       \* probes of the serving broker (12 in the code)
    MaxEvents,      \* clock jumps, lost answers, kills, pauses
    MaxTime, AgentValidity,
    Skew            \* the broker's tolerance for an expired token

ASSUME BrokerAssumption ==
    Attempts \in Nat \ {0} /\ MaxEvents \in Nat /\ MaxTime \in Nat /\ AgentValidity \in Nat
    /\ Skew \in Nat /\ IsFiniteSet(Provs)

VARIABLES
    now,        \* the server's clock
    events,     \* how many of MaxEvents have happened
    solo,       \* the command nobody else has interfered with, or "none"
    se,         \* Secure Enclave: K3 label -> key
    bcred,      \* the broker credential file
    daemon,     \* the credential the daemon serves, or Down
    reg,        \* server: the K3 key of the registered broker
    used,       \* server: the codes that were spent
    prov        \* the provision runs

bvars == <<se, bcred, daemon, reg, used, prov>>

Event == events < MaxEvents /\ events' = events + 1
NoEvent == UNCHANGED events
Others(p) == solo' = IF solo = p THEN p ELSE "none"
Unsettled == solo' = "none"

-----------------------------------------------------------------------------
(* K3 keys and the broker credential. *)

LegacyLabel == <<"k3">>

\* What fs::write leaves of a credential file when it has truncated it and when it
\* has written only a part: nothing that load can parse.  A whole text written over
\* another's, which nothing truncated in between, may keep a longer one's tail.
Empty == [text |-> "none"]
Partial == [text |-> "part"]
Torn == {Empty, Partial}
Overwritten(f, new) == IF f = Empty THEN {new} ELSE {new, Partial}
HalfWritten(f, new) == {f, Partial, new}

\* The label of a new generation: a random suffix, so never one in use.
GenerationLabel(key) == <<"k3", key>>

\* Every K3 label but the one to keep; labels of PRSN keys are not K3 labels.
IsStaleK3Label(label, keep) == label # keep /\ label[1] = "k3"

BrokerCredential(key, label, n) ==
    [k3 |-> BuildServerLeaf(key, "broker", n, 0, MaxTime), label |-> label,
     kbc |-> IssueBrokerClientCert(BuildCsr(key), "broker", n, 0, MaxTime)]

Down == [label |-> <<>>]
Fresh == [pc |-> "start", key |-> 0, tries |-> 0, left |-> Attempts, stale |-> {},
          out |-> "none"]

\* A signature by the key under a label: the number of the key, if it is there.
BrokerSeSign(label) == IF label \in DOMAIN se THEN Yes(se[label]) ELSE No("key_not_found")

\* The key signs a probe that the certificate's key must verify.
VerifyK3Binding(c) == BrokerSeSign(c.label).ok /\ BrokerSeSign(c.label).val = c.k3.key

\* What the daemon presents and signs with; the label is looked up anew at every
\* handshake.
BrokerServerConfig(c) == [k3 |-> c.k3, label |-> c.label]

\* What a client pinning `pin` meets when it connects.  A daemon whose key has
\* gone cannot sign the handshake, so its certificate is never judged.
Handshake(d, pin) ==
    IF d = Down \/ ~BrokerSeSign(d.label).ok THEN "unreachable"
    ELSE CASE K2ServerCertVerifier(d.k3, pin, now) = "UnknownIssuer" -> "unreachable"
           [] K2ServerCertVerifier(d.k3, pin, now) = "ApplicationVerificationFailure" ->
                "pin_mismatch"
           [] OTHER -> IF VerifyK3Binding(d) THEN "ok" ELSE "unreachable"

\* The probe of the self-test: the daemon serves this credential's key.
VerifyServing(c) == Handshake(daemon, c.k3.key) = "ok"

-----------------------------------------------------------------------------
(* `signet broker provision`. *)

SetProv(v, r) == prov' = [prov EXCEPT ![v] = r]
OverProv(r, out) == [Fresh EXCEPT !.pc = "over", !.key = r.key, !.out = out]
AssembleCredential(v) == BrokerCredential(prov[v].key, GenerationLabel(prov[v].key), prov[v].key)

\* A key under a label that exists is refused, not replaced.
GenerateBrokerSeKey(label, key) ==
    IF label \in DOMAIN se THEN No("generic_error")
    ELSE Yes([l \in {label} \cup DOMAIN se |-> IF l = label THEN key ELSE se[l]])

GenerateK3Key(v) ==
    /\ prov[v].pc = "start"
    /\ LET key == 1 + Cardinality({w \in Provs : prov[w].pc # "start"})
           made == GenerateBrokerSeKey(GenerationLabel(key), key)
       IN  IF made.ok
           THEN se' = made.val /\ SetProv(v, [prov[v] EXCEPT !.pc = "post", !.key = key])
           ELSE UNCHANGED se /\ SetProv(v, OverProv(prov[v], made.val))
    /\ UNCHANGED <<now, events, bcred, daemon, reg, used>> /\ Others(v)

Provision(v, o) ==
    /\ prov[v].pc = "post"
    /\ LET r == prov[v]
           pass == PostText(FALSE, r.tries, o)
           free == v \notin used
           Take == used' = used \cup {v} /\ reg' = r.key
       IN  /\ \/ o = "ok" /\ free /\ Take /\ NoEvent
              \/ o = "403" /\ ~free /\ UNCHANGED <<used, reg>> /\ NoEvent
              \/ o = "transport" /\ Event /\ (UNCHANGED <<used, reg>> \/ (free /\ Take))
           /\ SetProv(v, CASE pass.next = "answer" -> [r EXCEPT !.pc = "save", !.tries = 0]
                           [] pass.next = "again"  -> [r EXCEPT !.tries = @ + 1]
                           [] pass.next = "fail"   -> OverProv(r, pass.err))
    /\ UNCHANGED <<now, se, bcred, daemon>> /\ Others(v)

\* Mutant: the sweep runs before the file is opened.
OpenFileAfterSweep(v) ==
    /\ prov[v].pc = "save"
    /\ se' = [l \in {k \in DOMAIN se : ~IsStaleK3Label(k, AssembleCredential(v).label)} |-> se[l]]
    /\ \/ NoEvent /\ bcred' = Empty /\ SetProv(v, [prov[v] EXCEPT !.pc = "write"])
       \/ Event /\ UNCHANGED bcred /\ SetProv(v, OverProv(prov[v], "output_write_failed"))
    /\ UNCHANGED <<now, daemon, reg, used>> /\ Others(v)

\* BrokerCredential::save writes in place: the file is opened, and truncated ...
OpenCredentialFile(v) ==
    /\ prov[v].pc = "save"
    /\ \/ NoEvent /\ bcred' = Empty /\ SetProv(v, [prov[v] EXCEPT !.pc = "write"])
       \/ Event /\ UNCHANGED bcred /\ SetProv(v, OverProv(prov[v], "output_write_failed"))
    /\ UNCHANGED <<now, se, daemon, reg, used>> /\ Others(v)

\* ... and written.
Save(v) ==
    /\ prov[v].pc = "write"
    /\ \/ NoEvent /\ bcred' \in Overwritten(bcred, AssembleCredential(v))
          /\ SetProv(v, [prov[v] EXCEPT !.pc = "list"])
       \/ Event /\ bcred' \in HalfWritten(bcred, AssembleCredential(v))
          /\ SetProv(v, OverProv(prov[v], "output_write_failed"))
    /\ UNCHANGED <<now, se, daemon, reg, used>> /\ Others(v)

\* The keys are listed first and deleted after; a locked screen skips the sweep.
ListStaleKeys(v) ==
    /\ prov[v].pc = "list"
    /\ \/ NoEvent /\ SetProv(v, [prov[v] EXCEPT !.pc = "sweep",
                          !.stale = {l \in DOMAIN se : IsStaleK3Label(l, AssembleCredential(v).label)}])
       \/ Event /\ SetProv(v, [prov[v] EXCEPT !.pc = "kick"])
    /\ UNCHANGED <<now, se, bcred, daemon, reg, used>> /\ Others(v)

SweepStaleKeys(v) ==
    /\ prov[v].pc = "sweep"
    /\ se' = [l \in DOMAIN se \ prov[v].stale |-> se[l]]
    /\ SetProv(v, [prov[v] EXCEPT !.pc = "kick", !.stale = {}])
    /\ UNCHANGED <<now, events, bcred, daemon, reg, used>> /\ Others(v)

\* Restart the daemon; where no LaunchAgent is installed, only say how to start it.
KickstartBroker(v, installed) ==
    /\ prov[v].pc = "kick"
    /\ IF installed THEN /\ daemon' = Down
                         /\ SetProv(v, [prov[v] EXCEPT !.pc = "probe"])
       ELSE UNCHANGED daemon /\ SetProv(v, OverProv(prov[v], "not_started"))
    /\ UNCHANGED <<now, events, se, bcred, reg, used>> /\ Others(v)

VerifyBrokerServing(v) ==
    /\ prov[v].pc = "probe"
    /\ SetProv(v, CASE VerifyServing(AssembleCredential(v)) -> OverProv(prov[v], "ok")
                    [] ~VerifyServing(AssembleCredential(v)) /\ prov[v].left > 1 ->
                         [prov[v] EXCEPT !.left = @ - 1]
                    [] OTHER -> OverProv(prov[v], "broker_not_serving"))
    /\ UNCHANGED <<now, events, se, bcred, daemon, reg, used>> /\ Others(v)

\* The command is killed, perhaps as it writes.
KillProvision(v) ==
    /\ prov[v].pc \notin {"start", "over"} /\ Event
    /\ bcred' = bcred \/ (prov[v].pc = "write" /\ bcred' = Partial)
    /\ SetProv(v, OverProv(prov[v], "killed"))
    /\ UNCHANGED <<now, se, daemon, reg, used>> /\ Others(v)

ProvStep(v) ==
    \/ GenerateK3Key(v) \/ OpenCredentialFile(v) \/ Save(v) \/ ListStaleKeys(v) \/ SweepStaleKeys(v)
    \/ VerifyBrokerServing(v)
    \/ \E o \in {"ok", "403", "transport"} : Provision(v, o)
    \/ \E i \in BOOLEAN : KickstartBroker(v, i)

-----------------------------------------------------------------------------
(* The daemon. *)

\* launchd starts it: load, check the binding, bind the port.
ServeFromCredential ==
    /\ daemon = Down /\ bcred \notin Torn /\ VerifyK3Binding(bcred)
    /\ daemon' = BrokerServerConfig(bcred)
    /\ UNCHANGED <<now, events, se, bcred, reg, used, prov>> /\ Unsettled

DaemonDies ==
    /\ daemon # Down /\ Event
    /\ daemon' = Down
    /\ UNCHANGED <<now, se, bcred, reg, used, prov>> /\ Unsettled

BrokerInit ==
    /\ now = 0 /\ events = 0 /\ solo = "none"
    /\ se = [l \in {LegacyLabel, <<"prsn">>} |-> 0]
    /\ bcred = BrokerCredential(0, LegacyLabel, 0) /\ daemon = BrokerServerConfig(bcred)
    /\ reg = 0 /\ used = {}
=============================================================================
