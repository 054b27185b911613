----------------------- MODULE UploadLifecycleProofs -----------------------
(***************************************************************************)
(* Proofs about uploads: what the wrap that an upload is sent with gives,  *)
(* and to whom, for every set of keys (KeyWrap); and the upload's life,    *)
(* for every number of processes, uploads, parts, faults and edits.        *)
(***************************************************************************)
EXTENDS UploadLifecycle, KeyWrap, TLAPS

-----------------------------------------------------------------------------
(* The wrapped keys. *)

\* Pairs with both halves, and the two kinds of party.
Pairs(K) == [ec : K, pq : {<<k>> : k \in K}]
Parties(R) == {NoRoot} \cup {<<r>> : r \in R}

\* A full pair is its two halves (recipient keys after validate_recipient_keys).
LEMMA PairShape ==
    ASSUME NEW K, NEW a \in Pairs(K)
    PROVE  /\ a.ec \in K /\ a.pq[1] \in K /\ a.pq = <<a.pq[1]>> /\ Len(a.pq) = 1
           /\ a = [ec |-> a.ec, pq |-> a.pq]
  BY DEF Pairs

\* Every party a command passes is a valid party_v (hybrid_wrap.rs validate_party_v).
LEMMA PartyShape ==
    ASSUME NEW R, NEW p \in Parties(R)
    PROVE  ValidatePartyV(p)
  BY DEF Parties, NoRoot, ValidatePartyV

\* A key agreed with an ephemeral key is the recipient's own.
LEMMA SameSecret ==
    ASSUME NEW e, NEW x, NEW y
    PROVE  EcdhP256(e, x) = EcdhP256(e, y) <=> x = y
  BY Zenon DEF EcdhP256

\* Decapsulation gives the encapsulated secret to the key encapsulated to, and
\* another value to any other (implicit rejection of ML-KEM, kem_wrap.rs).
LEMMA Decapsulated ==
    ASSUME NEW e, NEW x, NEW y
    PROVE  MlKemDecapsulate(y, Encapsulate(x, e).ct) = Encapsulate(x, e).z <=> x = y
  BY Zenon DEF MlKemDecapsulate, Encapsulate

\* Equal wrapping keys come from equal secrets and equal fixed info
\* (hybrid_wrap.rs content_wrap_kek).
LEMMA SameKek ==
    ASSUME NEW z1, NEW m1, NEW i1, NEW z2, NEW m2, NEW i2
    PROVE  ContentWrapKek(z1, m1, i1) = ContentWrapKek(z2, m2, i2)
           <=> z1 = z2 /\ m1 = m2 /\ i1 = i2
  BY Zenon DEF ContentWrapKek

\* The fixed info tells apart both recipient keys and the party
\* (hybrid_wrap.rs build_fixed_info).
LEMMA SameInfo ==
    ASSUME NEW e, NEW ct, NEW c1, NEW q1, NEW p1, NEW c2, NEW q2, NEW p2
    PROVE  BuildFixedInfo(e, ct, c1, q1, p1) = BuildFixedInfo(e, ct, c2, q2, p2)
           <=> c1 = c2 /\ q1 = q2 /\ p1 = p2
  BY Zenon DEF BuildFixedInfo

\* The hybrid wrap opens for the pair it was made for and in the place it was
\* made for, and then gives the key back; to any other pair, one that shares
\* one half with it included, and in any other place it gives nothing
\* (hybrid_wrap.rs: both secrets, both public keys and party_v enter the key).
THEOREM HybridOpensExactly ==
    ASSUME NEW K, NEW R, NEW keys \in Pairs(K), NEW mine \in Pairs(K), NEW key,
           NEW p \in Parties(R), NEW q \in Parties(R)
    PROVE  UnwrapKeyHybrid(mine, WrapKeyHybrid(keys, key, p), q)
           = IF mine = keys /\ p = q THEN <<key>> ELSE <<>>
  <1> DEFINE epk == <<key, keys.ec>>
             enc == Encapsulate(keys.pq[1], epk)
             env == WrapKeyHybrid(keys, key, p)
             made == ContentWrapKek(EcdhP256(epk, keys.ec), enc.z,
                        BuildFixedInfo(epk, enc.ct, keys.ec, keys.pq[1], p))
             got == ContentWrapKek(EcdhP256(epk, mine.ec), MlKemDecapsulate(mine.pq[1], enc.ct),
                        BuildFixedInfo(epk, enc.ct, mine.ec, mine.pq[1], q))
  <1>1. env.alg = Hybrid /\ env.epk = epk /\ env.ek = enc.ct /\ env.wk = Wrap(made, key)
    BY Zenon DEF WrapKeyHybrid, WrapFromSecrets
  <1>2. ValidateRecipientKeys(mine) /\ ValidatePartyV(q)
    BY PairShape, PartyShape, Zenon DEF ValidateRecipientKeys
  <1>3. UnwrapKeyHybrid(mine, env, q) = Unwrap(got, Wrap(made, key))
    BY <1>1, <1>2, Zenon DEF UnwrapKeyHybrid, UnwrapWithSharedSecrets
  <1>4. got = made <=> mine.ec = keys.ec /\ mine.pq[1] = keys.pq[1] /\ p = q
    BY SameSecret, Decapsulated, SameKek, SameInfo
  <1>5. mine = keys <=> mine.ec = keys.ec /\ mine.pq[1] = keys.pq[1]
    BY PairShape
  <1> HIDE DEF made, got, env
  <1>6. Unwrap(got, Wrap(made, key)) = IF made = got THEN <<key>> ELSE <<>>
    BY Zenon DEF Unwrap, Wrap
  <1> QED
    BY <1>3, <1>4, <1>5, <1>6, Zenon DEF env

\* A file key wrapped by a command is opened by its recipient alone (commands.rs
\* wrap_dek_for, unwrap_dek_value).
THEOREM DekOpensExactly ==
    ASSUME NEW K, NEW keys \in Pairs(K), NEW mine \in Pairs(K), NEW dek
    PROVE  /\ Len(WrapDekFor(keys, dek)) = 1
           /\ UnwrapDekValue(mine, WrapDekFor(keys, dek)[1]) = IF mine = keys THEN <<dek>> ELSE <<>>
  <1>1. WrapDekFor(keys, dek) = <<WrapKeyHybrid(keys, dek, NoRoot)>>
    BY PairShape DEF WrapDekFor, RefuseClassicalWrite
  <1>2. WrapKeyHybrid(keys, dek, NoRoot).alg = Hybrid
    BY Zenon DEF WrapKeyHybrid, WrapFromSecrets
  <1>3. NoRoot \in Parties({})
    BY Zenon DEF Parties
  <1>4. UnwrapKeyHybrid(mine, WrapKeyHybrid(keys, dek, NoRoot), NoRoot) = IF mine = keys THEN <<dek>> ELSE <<>>
    BY <1>3, HybridOpensExactly
  <1>5. UnwrapDekValue(mine, WrapKeyHybrid(keys, dek, NoRoot))
        = UnwrapKeyHybrid(mine, WrapKeyHybrid(keys, dek, NoRoot), NoRoot)
    BY <1>2, Zenon DEF UnwrapDekValue, WrapAlgOf, Algs, Hybrid, Classical
  <1> QED
    BY <1>1, <1>4, <1>5

\* A metadata key wrapped by a command is opened by its recipient alone and only
\* as the key of the root it was wrapped for: a wrap moved to another folder
\* opens for nobody (commands.rs wrap_metadata_key_for).
THEOREM MetadataKeyOpensExactly ==
    ASSUME NEW K, NEW R, NEW keys \in Pairs(K), NEW mine \in Pairs(K), NEW mk,
           NEW r \in R, NEW s \in R
    PROVE  UnwrapMetadataKeyEnvelope(mine, WrapMetadataKeyFor(keys, mk, r)[1], s)
           = IF mine = keys /\ r = s THEN <<mk>> ELSE <<>>
  <1>1. WrapMetadataKeyFor(keys, mk, r) = <<WrapKeyHybrid(keys, mk, <<r>>)>>
    BY PairShape DEF WrapMetadataKeyFor, RefuseClassicalWrite
  <1>2. WrapKeyHybrid(keys, mk, <<r>>).alg = Hybrid
    BY Zenon DEF WrapKeyHybrid, WrapFromSecrets
  <1>3. <<r>> \in Parties(R) /\ <<s>> \in Parties(R) /\ (<<r>> = <<s>> <=> r = s)
    BY Zenon DEF Parties
  <1>4. UnwrapKeyHybrid(mine, WrapKeyHybrid(keys, mk, <<r>>), <<s>>)
        = IF mine = keys /\ r = s THEN <<mk>> ELSE <<>>
    BY <1>3, HybridOpensExactly
  <1>5. UnwrapMetadataKeyEnvelope(mine, WrapKeyHybrid(keys, mk, <<r>>), s)
        = UnwrapKeyHybrid(mine, WrapKeyHybrid(keys, mk, <<r>>), <<s>>)
    BY <1>2, Zenon DEF UnwrapMetadataKeyEnvelope, WrapAlgOf, Algs, Hybrid, Classical
  <1> QED
    BY <1>1, <1>4, <1>5

\* Rewrapping, from a wrap of either algorithm that mine opens, gives the
\* recipient that very file key under a hybrid wrap (commands.rs rewrap_dek_to).
THEOREM RewrapKeepsTheKey ==
    ASSUME NEW K, NEW keys \in Pairs(K), NEW mine, NEW env, NEW dek,
           UnwrapDekValue(mine, env) = <<dek>>
    PROVE  LET new == RewrapDekTo(mine, env, keys)[1] IN
           new.alg = Hybrid /\ UnwrapDekValue(keys, new) = <<dek>>
  <1>1. RewrapDekTo(mine, env, keys) = WrapDekFor(keys, dek)
    BY DEF RewrapDekTo
  <1>2. WrapDekFor(keys, dek) = <<WrapKeyHybrid(keys, dek, NoRoot)>>
    BY PairShape DEF WrapDekFor, RefuseClassicalWrite
  <1>3. WrapKeyHybrid(keys, dek, NoRoot).alg = Hybrid
    BY Zenon DEF WrapKeyHybrid, WrapFromSecrets
  <1>4. UnwrapDekValue(keys, WrapDekFor(keys, dek)[1]) = <<dek>>
    BY DekOpensExactly, Zenon
  <1> QED
    BY <1>1, <1>2, <1>3, <1>4

-----------------------------------------------------------------------------
(* The life of an upload. *)

\* The phases in which a run has an upload, and those in which it has the signature of
\* the source it reads.
Working == {"resume", "save", "parts", "abort", "complete"}
Signed == {"resume", "preflight", "initiate", "save", "parts", "abort", "complete"}

\* A run that has left the signature behind it knows the source as it is, because nobody
\* edits a file a run is reading; one that works on an upload has one; and a run aborts
\* only because parts are missing.
RunInv(p) ==
  /\ phase[p] \in Working => current[p] \in Uploads
  /\ phase[p] \notin Working => current[p] = NoUpload
  /\ phase[p] \in Signed => sig[p] = Signature
  /\ phase[p] = "abort" => todo[p] # {}

PhaseInv == source.mtime <= edits /\ \A p \in Procs : RunInv(p)

\* Parts that are those of the source as it is now.
Agrees(f) == \A c \in DOMAIN f : f[c] = source.chunk[c]

\* What a resume record promises of the parts the server holds: the end chunks are the
\* ones of its anchor, and all are those of the source when its mtime is still the same.
Promise(u) ==
  saved[u] # NoState =>
    /\ saved[u].sig[1] <= source.mtime
    /\ EditBumpsMtime /\ saved[u].sig[1] = source.mtime => Agrees(stored[u])
    /\ 1 \in DOMAIN stored[u] => stored[u][1] = saved[u].sig[2]
    /\ PartCount \in DOMAIN stored[u] => stored[u][PartCount] = saved[u].sig[3]

\* An upload that was not initiated is nobody's.
Unused(u) ==
  status[u] = "none" =>
    /\ stored[u] = [c \in {} |-> 0] /\ saved[u] = NoState
    /\ \A p \in Procs : current[p] # u

\* A run works with the parts and the record of the source it reads.
OneVersion(p) ==
  /\ phase[p] \in Working =>
       /\ Agrees(stored[current[p]]) /\ Agrees(etags[p])
       /\ saved[current[p]] # NoState => saved[current[p]].sig = Signature
  /\ phase[p] \notin {"parts", "abort", "complete"} => etags[p] = [c \in {} |-> 0]

\* The parts a run lists, those it resumes from and those a record stands for are of one
\* version of the source.
ContentInv ==
  /\ source.chunk \in versions
  /\ \A u \in Uploads : Promise(u) /\ Unused(u)
  /\ \A p \in Procs : OneVersion(p)
  /\ CompletedWhole

-----------------------------------------------------------------------------
(* Types *)

\* The constants as the code gives them.
LEMMA Numbers ==
  /\ PartCount \in Nat /\ PartCount >= 1 /\ 1 \in Parts /\ PartCount \in Parts
  /\ MaxEdits \in Nat /\ MaxFaults \in Nat /\ NoUpload \notin Uploads
  /\ Uploads \subseteq Nat
  BY BoundAssumption DEF Parts, NoUpload

\* No part is a set of parts, and one more part of some content is again one.
LEMMA PartialFacts ==
  /\ [c \in {} |-> 0] \in PartialContents
  /\ \A f \in PartialContents : DOMAIN f \subseteq Parts
  /\ \A f \in PartialContents, c \in Parts, x \in 0 .. MaxEdits :
       [d \in DOMAIN f \cup {c} |-> IF d = c THEN x ELSE f[d]] \in PartialContents
<1>1. [c \in {} |-> 0] \in [{} -> 0 .. MaxEdits]
  BY Zenon
<1>2. [c \in {} |-> 0] \in PartialContents
  BY <1>1, Zenon DEF PartialContents
<1>3. ASSUME NEW f \in PartialContents
      PROVE  \E S \in SUBSET Parts : f \in [S -> 0 .. MaxEdits]
  BY Zenon DEF PartialContents
<1>4. \A f \in PartialContents : DOMAIN f \subseteq Parts
  BY <1>3, Zenon
<1>5. ASSUME NEW f \in PartialContents, NEW c \in Parts, NEW x \in 0 .. MaxEdits
      PROVE  [d \in DOMAIN f \cup {c} |-> IF d = c THEN x ELSE f[d]] \in PartialContents
  <2>1. PICK S \in SUBSET Parts : f \in [S -> 0 .. MaxEdits]
    BY <1>3, Zenon
  <2>2. [d \in S \cup {c} |-> IF d = c THEN x ELSE f[d]] \in [S \cup {c} -> 0 .. MaxEdits]
    BY <2>1, Zenon
  <2>3. S \cup {c} \in SUBSET Parts /\ DOMAIN f = S
    BY <2>1, Zenon
  <2> QED
    BY <2>2, <2>3, Zenon DEF PartialContents
<1> QED
  BY <1>2, <1>4, <1>5, Zenon

\* What find_match reads is no state or a state.
LEMMA SavedFacts ==
  /\ NoState \in SavedStates
  /\ \A n \in Nat, s \in Signatures : [name |-> n, sig |-> s] \in SavedStates
  BY Zenon DEF SavedStates

\* The signature is one.
LEMMA SignatureType == TypeOK => Signature \in Signatures
  BY Numbers, Zenon DEF TypeOK, Signature, Signatures, Contents

\* A run that ends leaves well-typed variables behind.
LEMMA ReturnType ==
  ASSUME TypeOK, NEW p \in Procs, NEW r \in Results, Return(p, r)
  PROVE  /\ phase' \in [Procs -> Phases] /\ result' \in [Procs -> Results]
         /\ name' \in [Procs -> Nat] /\ sig' \in [Procs -> Signatures \cup {NoSig}]
         /\ current' \in [Procs -> Uploads \cup {NoUpload}] /\ resumed' \in [Procs -> BOOLEAN]
         /\ todo' \in [Procs -> SUBSET Parts] /\ etags' \in [Procs -> PartialContents]
  BY PartialFacts, Zenon DEF TypeOK, Return, Phases

\* A fault stays within the bound, and so does an action without one.
LEMMA FaultType == TypeOK /\ (Fault \/ UNCHANGED faults) => faults' \in 0 .. MaxFaults
  BY Numbers DEF Fault, TypeOK

\* The initial states are well typed.
LEMMA InitType == Init => TypeOK
  BY Numbers, PartialFacts, SavedFacts DEF Init, TypeOK, Contents, Phases, Results

\* Every step keeps the types; that the finished uploads can be counted is shown below.
LEMMA NextType ==
  Cardinality(Completed) \in Nat /\ TypeOK /\ PhaseInv /\ [Next]_vars => TypeOK'
<1> SUFFICES ASSUME Cardinality(Completed) \in Nat, TypeOK, PhaseInv, [Next]_vars PROVE TypeOK'
  BY Zenon
<1> USE DEF serverVars, procVars, history
<1>0. /\ Signature \in Signatures /\ Cardinality(Completed) \in Nat
      /\ \A r \in {"none", "ok", "stalled", "error", "insufficient"} : r \in Results
  BY SignatureType, Zenon DEF Results
<1>00. /\ excused \subseteq Uploads /\ preserved \subseteq Uploads
       /\ status \in [Uploads -> {"none", "open", "completed", "aborted", "swept"}]
       /\ saved \in [Uploads -> SavedStates]
  BY Zenon DEF TypeOK
<1>1. ASSUME NEW p \in Procs, Start(p) PROVE TypeOK'
  BY <1>0, <1>1, Zenon DEF Start, Goto, TypeOK, Phases
<1>2. ASSUME NEW p \in Procs, FindMatch(p) PROVE TypeOK'
  <2>1. PICK dropped \in SUBSET Uploads :
          /\ saved' = [u \in Uploads |-> IF u \in dropped THEN NoState ELSE saved[u]]
          /\ excused' = excused \cup dropped
    BY <1>2, Zenon DEF FindMatch
  <2>2. /\ sig' = [sig EXCEPT ![p] = Signature]
        /\ phase' \in [Procs -> Phases] /\ resumed' \in [Procs -> BOOLEAN]
        /\ current' \in [Procs -> Uploads \cup {NoUpload}]
    <3>1. phase' = [phase EXCEPT ![p] = "preflight"] \/ phase' = [phase EXCEPT ![p] = "resume"]
      BY <1>2, Zenon DEF FindMatch, Goto
    <3>2. UNCHANGED <<current, resumed>>
          \/ \E u \in Uploads : /\ current' = [current EXCEPT ![p] = u]
                               /\ resumed' = [resumed EXCEPT ![p] = TRUE]
      BY <1>2, Zenon DEF FindMatch
    <3> QED
      <4>1. phase' \in [Procs -> Phases]
        BY <3>1, Zenon DEF TypeOK, Phases
      <4>2. resumed' \in [Procs -> BOOLEAN] /\ current' \in [Procs -> Uploads \cup {NoUpload}]
        <5>1. resumed \in [Procs -> BOOLEAN] /\ current \in [Procs -> Uploads \cup {NoUpload}]
          BY Zenon DEF TypeOK
        <5> QED
          BY <3>2, <5>1, Zenon
      <4> QED
        BY <1>2, <4>1, <4>2, Zenon DEF FindMatch
  <2>3. UNCHANGED <<source, status, stored, result, name, todo, etags, faults, edits, preserved,
                    versions>>
    BY <1>2, Zenon DEF FindMatch
  <2> QED
    BY <1>0, <2>1, <2>2, <2>3, SavedFacts, Zenon DEF TypeOK
<1>3. ASSUME NEW p \in Procs, Preflight(p) PROVE TypeOK'
  <2>1. CASE Return(p, "insufficient") /\ UNCHANGED faults
    BY <1>0, <1>3, <2>1, ReturnType, Zenon DEF Preflight, TypeOK
  <2>2. CASE Goto(p, "initiate") /\ UNCHANGED <<result, name, sig, current, resumed, todo, etags>>
    BY <1>3, <2>2, Numbers DEF Preflight, Goto, Fault, TypeOK, Phases
  <2> QED
    BY <1>3, <2>1, <2>2, Zenon DEF Preflight
<1>4. ASSUME NEW p \in Procs, InitiateRefused(p) PROVE TypeOK'
  BY <1>0, <1>4, ReturnType, Zenon DEF InitiateRefused, TypeOK
<1>5. ASSUME NEW p \in Procs, Initiate(p) PROVE TypeOK'
  <2>1. PICK u \in Uploads :
          /\ status' = [status EXCEPT ![u] = "open"]
          /\ \/ /\ Goto(p, "save") /\ current' = [current EXCEPT ![p] = u]
                /\ todo' = [todo EXCEPT ![p] = Parts]
                /\ UNCHANGED <<result, name, sig, resumed, etags, faults, excused>>
             \/ /\ Fault /\ Return(p, "error") /\ excused' = excused \cup {u}
    BY <1>5, Zenon DEF Initiate
  <2>2. CASE Goto(p, "save") /\ current' = [current EXCEPT ![p] = u]
             /\ todo' = [todo EXCEPT ![p] = Parts]
             /\ UNCHANGED <<result, name, sig, resumed, etags, faults, excused>>
    BY <1>5, <2>1, <2>2, Zenon DEF Initiate, Goto, TypeOK, Phases
  <2>3. CASE Fault /\ Return(p, "error") /\ excused' = excused \cup {u}
    BY <1>0, <1>5, <2>1, <2>3, ReturnType, Numbers DEF Initiate, Fault, TypeOK
  <2> QED
    BY <2>1, <2>2, <2>3, Zenon
<1>6. ASSUME NEW p \in Procs, SaveState(p) PROVE TypeOK'
  <2>1. current[p] \in Uploads /\ sig[p] \in Signatures /\ name[p] \in Nat
    BY <1>0, <1>6, Zenon DEF SaveState, PhaseInv, RunInv, Working, Signed, TypeOK
  <2> QED
    <3>1. /\ saved' \in [Uploads -> SavedStates]
          /\ excused' \subseteq Uploads /\ faults' \in 0 .. MaxFaults
      BY <1>00, <1>6, <2>1, FaultType, SavedFacts DEF SaveState
    <3> QED
      BY <1>6, <3>1, Zenon DEF SaveState, Goto, TypeOK, Phases
<1>7. ASSUME NEW p \in Procs, Resume(p) PROVE TypeOK'
  <2>1. stored[current[p]] \in PartialContents
    BY <1>7, Zenon DEF Resume, PhaseInv, RunInv, Working, TypeOK
  <2> QED
    BY <1>7, <2>1, Zenon DEF Resume, Goto, TypeOK, Phases
<1>8. ASSUME NEW p \in Procs, ResumeNotFound(p) PROVE TypeOK'
  BY <1>8, SavedFacts, Zenon DEF ResumeNotFound, Goto, TypeOK, Phases
<1>9. ASSUME NEW p \in Procs, PutPart(p) PROVE TypeOK'
  <2>1. PICK c \in todo[p] :
          /\ stored' = [stored EXCEPT ![current[p]] =
                          [d \in DOMAIN @ \cup {c} |-> IF d = c THEN source.chunk[c] ELSE @[d]]]
          /\ etags' = [etags EXCEPT ![p] =
                          [d \in DOMAIN @ \cup {c} |-> IF d = c THEN source.chunk[c] ELSE @[d]]]
          /\ todo' = [todo EXCEPT ![p] = @ \ {c}]
    BY <1>9, Zenon DEF PutPart
  <2>2. /\ current[p] \in Uploads /\ c \in Parts /\ source.chunk[c] \in 0 .. MaxEdits
        /\ stored[current[p]] \in PartialContents /\ etags[p] \in PartialContents
    BY <1>9, Zenon DEF PutPart, PhaseInv, RunInv, Working, TypeOK, Contents
  <2>3. stored' \in [Uploads -> PartialContents] /\ etags' \in [Procs -> PartialContents]
    <3> DEFINE Add(f) == [d \in DOMAIN f \cup {c} |-> IF d = c THEN source.chunk[c] ELSE f[d]]
    <3>1. /\ stored' = [stored EXCEPT ![current[p]] = Add(stored[current[p]])]
          /\ etags' = [etags EXCEPT ![p] = Add(etags[p])]
      BY <2>1, Zenon
    <3>2. Add(stored[current[p]]) \in PartialContents /\ Add(etags[p]) \in PartialContents
      BY <2>2, PartialFacts, Zenon
    <3> HIDE DEF Add
    <3> QED
      BY <3>1, <3>2, Zenon DEF TypeOK
  <2> QED
    BY <1>9, <2>1, <2>3, Zenon DEF PutPart, TypeOK
<1>10. ASSUME NEW p \in Procs, PartsDone(p) PROVE TypeOK'
  BY <1>10, Zenon DEF PartsDone, Goto, TypeOK, Phases
<1>11. ASSUME NEW p \in Procs, AbortThenForget(p) PROVE TypeOK'
  <2>1. saved' \in [Uploads -> SavedStates]
    BY <1>00, <1>11, SavedFacts, Zenon DEF AbortThenForget
  <2> QED
    BY <1>0, <1>11, <2>1, ReturnType, Zenon DEF AbortThenForget, TypeOK
<1>12. ASSUME NEW p \in Procs, Complete(p) PROVE TypeOK'
  <2>1. saved' \in [Uploads -> SavedStates]
    BY <1>00, <1>12, SavedFacts, Zenon DEF Complete
  <2> QED
    BY <1>0, <1>12, <2>1, ReturnType, Zenon DEF Complete, TypeOK
<1>13. ASSUME NEW p \in Procs, CompleteNotFound(p) PROVE TypeOK'
  <2>1. saved' \in [Uploads -> SavedStates]
    BY <1>00, <1>13, SavedFacts, Zenon DEF CompleteNotFound
  <2> QED
    BY <1>0, <1>13, <2>1, ReturnType, Zenon DEF CompleteNotFound, TypeOK
<1>14. ASSUME NEW p \in Procs, CallFails(p) PROVE TypeOK'
  BY <1>0, <1>14, ReturnType, Numbers DEF CallFails, Fault, TypeOK
<1>15. ASSUME NEW p \in Procs, ResumeMismatch(p) PROVE TypeOK'
  <2>1. current[p] \in Uploads
    BY <1>15, Zenon DEF ResumeMismatch, PhaseInv, RunInv, Working
  <2> QED
    <3>1. /\ saved' \in [Uploads -> SavedStates]
          /\ status' \in [Uploads -> {"none", "open", "completed", "aborted", "swept"}]
          /\ excused' \subseteq Uploads /\ faults' \in 0 .. MaxFaults
      BY <1>00, <1>15, <2>1, FaultType, SavedFacts, Zenon DEF ResumeMismatch
    <3> QED
      BY <1>15, <3>1, Zenon DEF ResumeMismatch, Goto, TypeOK, Phases
<1>16. ASSUME NEW p \in Procs, PartsStall(p) PROVE TypeOK'
  <2>1. current[p] \in Uploads /\ sig[p] \in Signatures /\ name[p] \in Nat
    BY <1>0, <1>16, Zenon DEF PartsStall, PhaseInv, RunInv, Working, Signed, TypeOK
  <2> QED
    <3>1. saved' \in [Uploads -> SavedStates] /\ faults' \in 0 .. MaxFaults
      BY <1>00, <1>16, <2>1, FaultType, SavedFacts DEF PartsStall
    <3> QED
      BY <1>0, <1>16, <3>1, ReturnType, Zenon DEF PartsStall, TypeOK
<1>17. ASSUME NEW p \in Procs, PartsFail(p) PROVE TypeOK'
  <2>1. faults' \in 0 .. MaxFaults
    BY <1>17, Numbers DEF PartsFail, Fault, TypeOK
  <2>2. CASE Return(p, "error")
    BY <1>0, <1>17, <2>1, <2>2, ReturnType, Zenon DEF PartsFail, TypeOK
  <2>3. CASE Goto(p, "abort") /\ UNCHANGED <<result, name, sig, current, resumed, todo, etags>>
    BY <1>17, <2>1, <2>3, Zenon DEF PartsFail, Goto, TypeOK, Phases
  <2> QED
    BY <1>17, <2>2, <2>3, Zenon DEF PartsFail
<1>18. ASSUME NEW p \in Procs, CompleteFails(p) PROVE TypeOK'
  <2>1. current[p] \in Uploads
    BY <1>18, Zenon DEF CompleteFails, PhaseInv, RunInv, Working
  <2> QED
    <3>1. /\ status' \in [Uploads -> {"none", "open", "completed", "aborted", "swept"}]
          /\ preserved' \subseteq Uploads /\ faults' \in 0 .. MaxFaults
      BY <1>00, <1>18, <2>1, FaultType, Zenon DEF CompleteFails
    <3> QED
      BY <1>0, <1>18, <3>1, ReturnType, Zenon DEF CompleteFails, TypeOK
<1>19. ASSUME NEW p \in Procs, Kill(p) PROVE TypeOK'
  <2>1. phase[p] = "save" => current[p] \in Uploads
    BY <1>19, Zenon DEF PhaseInv, RunInv, Working
  <2> QED
    <3>1. excused' \subseteq Uploads /\ faults' \in 0 .. MaxFaults
      BY <1>00, <1>19, <2>1, FaultType, Zenon DEF Kill
    <3> QED
      BY <1>0, <1>19, <3>1, ReturnType, Zenon DEF Kill, TypeOK
<1>20. ASSUME NEW u \in Uploads, Sweep(u) PROVE TypeOK'
  BY <1>20, Numbers DEF Sweep, Fault, TypeOK
<1>21. ASSUME Edit PROVE TypeOK'
  <2>1. PICK C \in SUBSET Parts \ {{}}, later \in BOOLEAN :
          source' = [mtime |-> source.mtime + (IF later THEN 1 ELSE 0),
                     chunk |-> [c \in Parts |-> IF c \in C THEN edits + 1 ELSE source.chunk[c]]]
    BY <1>21, Zenon DEF Edit
  <2>2. edits + 1 \in 0 .. MaxEdits /\ source.mtime + (IF later THEN 1 ELSE 0) \in 0 .. MaxEdits
    BY <1>21, Numbers DEF Edit, TypeOK, PhaseInv
  <2>3. [c \in Parts |-> IF c \in C THEN edits + 1 ELSE source.chunk[c]] \in Contents
    BY <2>2, Zenon DEF TypeOK, Contents
  <2>4. source' \in [mtime : 0 .. MaxEdits, chunk : Contents] /\ source'.chunk \in Contents
    BY <2>1, <2>2, <2>3, Zenon
  <2> QED
    BY <1>21, <2>2, <2>4, Zenon DEF Edit, TypeOK
<1>22. CASE UNCHANGED vars
  BY <1>22, Zenon DEF vars, TypeOK
<1> QED
  BY <1>1, <1>2, <1>3, <1>4, <1>5, <1>6, <1>7, <1>8, <1>9, <1>10, <1>11, <1>12, <1>13, <1>14,
     <1>15, <1>16, <1>17, <1>18, <1>19, <1>20, <1>21, <1>22, Zenon
     DEF Next, RunStep, FaultStep, AllDone

-----------------------------------------------------------------------------
(* Phases *)

\* A step of one run leaves what is known of the others.
LEMMA OthersKeep ==
  ASSUME NEW q \in Procs, RunInv(q), UNCHANGED <<source, phase[q], current[q], sig[q], todo[q]>>
  PROVE  RunInv(q)'
  BY Zenon DEF RunInv, Signature

\* Every step keeps what is known of each phase.
LEMMA NextPhase == TypeOK /\ PhaseInv /\ [Next]_vars => PhaseInv'
<1> SUFFICES ASSUME TypeOK, PhaseInv, [Next]_vars PROVE PhaseInv'
  BY Zenon
<1> USE DEF serverVars, procVars, history
<1>00. /\ phase \in [Procs -> Phases] /\ sig \in [Procs -> Signatures \cup {NoSig}]
       /\ current \in [Procs -> Uploads \cup {NoUpload}] /\ todo \in [Procs -> SUBSET Parts]
       /\ edits \in 0 .. MaxEdits /\ source \in [mtime : 0 .. MaxEdits, chunk : Contents]
  BY Zenon DEF TypeOK
<1>0. ASSUME NEW p \in Procs, UNCHANGED <<source, edits>>, RunInv(p)',
             \A q \in Procs : q # p => UNCHANGED <<phase[q], current[q], sig[q], todo[q]>>
      PROVE  PhaseInv'
  BY <1>0, OthersKeep, Zenon DEF PhaseInv
<1>1. ASSUME NEW p \in Procs, Start(p) PROVE PhaseInv'
  BY <1>0, <1>00, <1>1 DEF Start, Goto, PhaseInv, RunInv, Signature, Working, Signed
<1>2. ASSUME NEW p \in Procs, FindMatch(p) PROVE PhaseInv'
  BY <1>0, <1>00, <1>2 DEF FindMatch, Goto, PhaseInv, RunInv, Signature, Working, Signed
<1>3. ASSUME NEW p \in Procs, Preflight(p) PROVE PhaseInv'
  BY <1>0, <1>00, <1>3 DEF Preflight, Goto, Return, PhaseInv, RunInv, Signature, Working, Signed
<1>4. ASSUME NEW p \in Procs, InitiateRefused(p) PROVE PhaseInv'
  BY <1>0, <1>00, <1>4, Zenon DEF InitiateRefused, Return, PhaseInv, RunInv, Signature, Working, Signed
<1>5. ASSUME NEW p \in Procs, Initiate(p) PROVE PhaseInv'
  BY <1>0, <1>00, <1>5 DEF Initiate, Goto, Return, PhaseInv, RunInv, Signature, Working, Signed
<1>6. ASSUME NEW p \in Procs, SaveState(p) PROVE PhaseInv'
  BY <1>0, <1>00, <1>6 DEF SaveState, Goto, PhaseInv, RunInv, Signature, Working, Signed
<1>7. ASSUME NEW p \in Procs, Resume(p) PROVE PhaseInv'
  BY <1>0, <1>00, <1>7, Zenon DEF Resume, Goto, PhaseInv, RunInv, Signature, Working, Signed
<1>8. ASSUME NEW p \in Procs, ResumeNotFound(p) PROVE PhaseInv'
  BY <1>0, <1>00, <1>8, Zenon DEF ResumeNotFound, Goto, PhaseInv, RunInv, Signature, Working, Signed
<1>9. ASSUME NEW p \in Procs, PutPart(p) PROVE PhaseInv'
  BY <1>0, <1>00, <1>9, Zenon DEF PutPart, PhaseInv, RunInv, Signature, Working, Signed
<1>10. ASSUME NEW p \in Procs, PartsDone(p) PROVE PhaseInv'
  BY <1>0, <1>00, <1>10, Zenon DEF PartsDone, Goto, PhaseInv, RunInv, Signature, Working, Signed
<1>11. ASSUME NEW p \in Procs, AbortThenForget(p) PROVE PhaseInv'
  BY <1>0, <1>00, <1>11, Zenon DEF AbortThenForget, Return, PhaseInv, RunInv, Signature, Working, Signed
<1>12. ASSUME NEW p \in Procs, Complete(p) PROVE PhaseInv'
  BY <1>0, <1>00, <1>12 DEF Complete, Return, PhaseInv, RunInv, Signature, Working, Signed
<1>13. ASSUME NEW p \in Procs, CompleteNotFound(p) PROVE PhaseInv'
  BY <1>0, <1>00, <1>13, Zenon DEF CompleteNotFound, Return, PhaseInv, RunInv, Signature, Working, Signed
<1>14. ASSUME NEW p \in Procs, CallFails(p) PROVE PhaseInv'
  BY <1>0, <1>00, <1>14, Zenon DEF CallFails, Return, PhaseInv, RunInv, Signature, Working, Signed
<1>15. ASSUME NEW p \in Procs, ResumeMismatch(p) PROVE PhaseInv'
  BY <1>0, <1>00, <1>15, Zenon DEF ResumeMismatch, Goto, PhaseInv, RunInv, Signature, Working, Signed
<1>16. ASSUME NEW p \in Procs, PartsStall(p) PROVE PhaseInv'
  BY <1>0, <1>00, <1>16, Zenon DEF PartsStall, Return, PhaseInv, RunInv, Signature, Working, Signed
<1>17. ASSUME NEW p \in Procs, PartsFail(p) PROVE PhaseInv'
  BY <1>0, <1>00, <1>17 DEF PartsFail, Goto, Return, PhaseInv, RunInv, Signature, Working, Signed
<1>18. ASSUME NEW p \in Procs, CompleteFails(p) PROVE PhaseInv'
  BY <1>0, <1>00, <1>18 DEF CompleteFails, Return, PhaseInv, RunInv, Signature, Working, Signed
<1>19. ASSUME NEW p \in Procs, Kill(p) PROVE PhaseInv'
  BY <1>0, <1>00, <1>19, Zenon DEF Kill, Return, PhaseInv, RunInv, Signature, Working, Signed
<1>20. ASSUME NEW u \in Uploads, Sweep(u) PROVE PhaseInv'
  BY <1>20, Zenon DEF Sweep, PhaseInv, RunInv, Signature
<1>21. ASSUME Edit PROVE PhaseInv'
  <2>1. source'.mtime <= edits'
    BY <1>00, <1>21, Numbers DEF Edit, PhaseInv
  <2>2. \A p \in Procs : RunInv(p)'
    BY <1>21, Zenon DEF Edit, PhaseInv, RunInv, Working, Signed
  <2> QED
    BY <2>1, <2>2, Zenon DEF PhaseInv
<1>22. CASE UNCHANGED vars
  BY <1>22, Zenon DEF vars, PhaseInv, RunInv, Signature
<1> QED
  BY <1>1, <1>2, <1>3, <1>4, <1>5, <1>6, <1>7, <1>8, <1>9, <1>10, <1>11, <1>12, <1>13, <1>14,
     <1>15, <1>16, <1>17, <1>18, <1>19, <1>20, <1>21, <1>22, Zenon
     DEF Next, RunStep, FaultStep, AllDone

-----------------------------------------------------------------------------
(* No open upload is forgotten *)

\* A record is not the absence of one.
LEMMA RecordIsState ==
  /\ \A n, s : [name |-> n, sig |-> s] # NoState
  /\ \A r \in [name : Nat, sig : Signatures] : r # NoState
<1>1. \A n, s : DOMAIN [name |-> n, sig |-> s] = {"name", "sig"}
  BY Zenon
<1>2. DOMAIN NoState = {}
  BY DEF NoState
<1> QED
  BY <1>1, <1>2, Zenon

\* Every step keeps the record of an open upload, or excuses its loss.
LEMMA NextNotForgotten == TypeOK /\ PhaseInv /\ NotForgotten /\ [Next]_vars => NotForgotten'
<1> SUFFICES ASSUME TypeOK, PhaseInv, NotForgotten, [Next]_vars PROVE NotForgotten'
  BY Zenon
<1> USE DEF serverVars, procVars, history
<1>00. /\ phase \in [Procs -> Phases] /\ current \in [Procs -> Uploads \cup {NoUpload}]
       /\ status \in [Uploads -> {"none", "open", "completed", "aborted", "swept"}]
       /\ saved \in [Uploads -> SavedStates]
  BY Zenon DEF TypeOK
<1>1. ASSUME NEW p \in Procs, Start(p) PROVE NotForgotten'
  BY <1>00, <1>1, Zenon DEF Start, Goto, NotForgotten
<1>2. ASSUME NEW p \in Procs, FindMatch(p) PROVE NotForgotten'
  BY <1>00, <1>2 DEF FindMatch, Goto, NotForgotten
<1>3. ASSUME NEW p \in Procs, Preflight(p) PROVE NotForgotten'
  BY <1>00, <1>3 DEF Preflight, Goto, Return, NotForgotten
<1>4. ASSUME NEW p \in Procs, InitiateRefused(p) PROVE NotForgotten'
  BY <1>00, <1>4, Zenon DEF InitiateRefused, Return, NotForgotten
<1>5. ASSUME NEW p \in Procs, Initiate(p) PROVE NotForgotten'
  BY <1>00, <1>5 DEF Initiate, Goto, Return, NotForgotten
<1>6. ASSUME NEW p \in Procs, SaveState(p) PROVE NotForgotten'
  BY <1>00, <1>6, RecordIsState DEF PhaseInv, RunInv, Working, SaveState, Goto, NotForgotten
<1>7. ASSUME NEW p \in Procs, Resume(p) PROVE NotForgotten'
  BY <1>00, <1>7, Zenon DEF Resume, Goto, NotForgotten
<1>8. ASSUME NEW p \in Procs, ResumeNotFound(p) PROVE NotForgotten'
  BY <1>00, <1>8, Zenon DEF PhaseInv, RunInv, Working, ResumeNotFound, Goto, NotForgotten
<1>9. ASSUME NEW p \in Procs, PutPart(p) PROVE NotForgotten'
  BY <1>00, <1>9 DEF PutPart, NotForgotten
<1>10. ASSUME NEW p \in Procs, PartsDone(p) PROVE NotForgotten'
  BY <1>00, <1>10, Zenon DEF PartsDone, Goto, NotForgotten
<1>11. ASSUME NEW p \in Procs, AbortThenForget(p) PROVE NotForgotten'
  BY <1>00, <1>11 DEF PhaseInv, RunInv, Working, AbortThenForget, Return, NotForgotten
<1>12. ASSUME NEW p \in Procs, Complete(p) PROVE NotForgotten'
  BY <1>00, <1>12, Zenon DEF PhaseInv, RunInv, Working, Complete, Return, NotForgotten
<1>13. ASSUME NEW p \in Procs, CompleteNotFound(p) PROVE NotForgotten'
  BY <1>00, <1>13, Zenon DEF PhaseInv, RunInv, Working, CompleteNotFound, Return, NotForgotten
<1>14. ASSUME NEW p \in Procs, CallFails(p) PROVE NotForgotten'
  BY <1>00, <1>14, Zenon DEF CallFails, Return, NotForgotten
<1>15. ASSUME NEW p \in Procs, ResumeMismatch(p) PROVE NotForgotten'
  BY <1>00, <1>15 DEF PhaseInv, RunInv, Working, ResumeMismatch, Goto, NotForgotten
<1>16. ASSUME NEW p \in Procs, PartsStall(p) PROVE NotForgotten'
  BY <1>00, <1>16, RecordIsState DEF PartsStall, Return, NotForgotten
<1>17. ASSUME NEW p \in Procs, PartsFail(p) PROVE NotForgotten'
  BY <1>00, <1>17 DEF PartsFail, Goto, Return, NotForgotten
<1>18. ASSUME NEW p \in Procs, CompleteFails(p) PROVE NotForgotten'
  BY <1>00, <1>18 DEF PhaseInv, RunInv, Working, CompleteFails, Return, NotForgotten
<1>19. ASSUME NEW p \in Procs, Kill(p) PROVE NotForgotten'
  BY <1>00, <1>19 DEF PhaseInv, RunInv, Working, Kill, Return, NotForgotten
<1>20. ASSUME NEW u \in Uploads, Sweep(u) PROVE NotForgotten'
  BY <1>00, <1>20 DEF Sweep, NotForgotten
<1>21. ASSUME Edit PROVE NotForgotten'
  BY <1>21, Zenon DEF Edit, NotForgotten
<1>22. CASE UNCHANGED vars
  BY <1>22, Zenon DEF vars, NotForgotten
<1> QED
  BY <1>1, <1>2, <1>3, <1>4, <1>5, <1>6, <1>7, <1>8, <1>9, <1>10, <1>11, <1>12, <1>13, <1>14,
     <1>15, <1>16, <1>17, <1>18, <1>19, <1>20, <1>21, <1>22, Zenon
     DEF Next, RunStep, FaultStep, AllDone

-----------------------------------------------------------------------------
(* A finished file is of one version of the source *)

\* The signature tells the versions of the source apart: an edit moves the mtime, or the
\* anchor covers the whole file.
SignatureTells == EditBumpsMtime \/ PartCount <= 2

\* All the parts, each that of the source, are the source.
LEMMA WholeSource ==
  ASSUME TypeOK, NEW f \in PartialContents, DOMAIN f = Parts, Agrees(f)
  PROVE  f = source.chunk
<1>1. PICK S \in SUBSET Parts : f \in [S -> 0 .. MaxEdits]
  BY Zenon DEF PartialContents
<1>2. source.chunk \in [Parts -> 0 .. MaxEdits]
  BY Zenon DEF TypeOK, Contents
<1> QED
  BY <1>1, <1>2 DEF Agrees

\* A record that matches the source stands for parts of the source.
LEMMA MatchAgrees ==
  ASSUME SignatureTells, TypeOK, NEW u \in Uploads, Promise(u), saved[u] # NoState,
         saved[u].sig = Signature
  PROVE  Agrees(stored[u])
<1>1. /\ saved[u].sig[1] = source.mtime /\ saved[u].sig[2] = source.chunk[1]
      /\ saved[u].sig[3] = source.chunk[PartCount]
  BY DEF Signature
<1>2. CASE EditBumpsMtime
  BY <1>1, <1>2, Zenon DEF Promise
<1>3. CASE PartCount <= 2
  <2>1. DOMAIN stored[u] \subseteq Parts
    BY PartialFacts, Zenon DEF TypeOK
  <2>2. \A c \in Parts : c = 1 \/ c = PartCount
    BY <1>3, Numbers DEF Parts
  <2> QED
    BY <1>1, <2>1, <2>2, Zenon DEF Promise, Agrees
<1> QED
  BY <1>2, <1>3, Zenon DEF SignatureTells

\* What a step of run p that moves no byte has to leave: other runs alone, no record but
\* the one it has the right to write, and no upload finished unless whole.
LEMMA ContentFrame ==
  ASSUME TypeOK, PhaseInv, ContentInv, NEW p \in Procs,
         UNCHANGED <<source, stored, versions>>,
         \A u \in Uploads :
           /\ status'[u] = "none" => status[u] = "none" /\ saved'[u] = saved[u] /\ current'[p] # u
           /\ status'[u] = "completed" => status[u] = "completed" \/ stored[u] \in versions
           /\ \/ saved'[u] = saved[u] \/ saved'[u] = NoState
              \/ phase[p] \in Working /\ u = current[p] /\ saved'[u].sig = Signature,
         \A q \in Procs : q # p => UNCHANGED <<phase[q], current[q], etags[q]>>,
         OneVersion(p)'
  PROVE  ContentInv'
<1>1. Signature' = Signature /\ \A f : Agrees(f)' <=> Agrees(f)
  BY Zenon DEF Signature, Agrees
<1>2. CompletedWhole'
  BY Zenon DEF ContentInv, CompletedWhole, Completed
<1>3. ASSUME NEW u \in Uploads PROVE Promise(u)'
  <2>1. CASE saved'[u] = saved[u] \/ saved'[u] = NoState
    BY <2>1, <1>1 DEF ContentInv, Promise, Agrees
  <2>2. CASE phase[p] \in Working /\ u = current[p] /\ saved'[u].sig = Signature
    <3>1. Agrees(stored[u])
      BY <2>2, Zenon DEF ContentInv, OneVersion
    <3>2. /\ saved'[u].sig[1] = source.mtime /\ saved'[u].sig[2] = source.chunk[1]
          /\ saved'[u].sig[3] = source.chunk[PartCount]
      BY <2>2 DEF Signature
    <3>3. source.mtime <= source.mtime
      BY DEF TypeOK
    <3> QED
      BY <3>1, <3>2, <3>3, Zenon DEF Promise, Agrees
  <2> QED
    BY <2>1, <2>2, Zenon
<1>4. ASSUME NEW u \in Uploads PROVE Unused(u)'
  BY Zenon DEF ContentInv, Unused
<1>5. ASSUME NEW q \in Procs, q # p PROVE OneVersion(q)'
  <2>1. UNCHANGED <<phase[q], current[q], etags[q]>> /\ OneVersion(q)
    BY <1>5, Zenon DEF ContentInv
  <2>2. CASE phase[q] \in Working
    <3>1. current[q] \in Uploads
      BY <2>2, Zenon DEF PhaseInv, RunInv
    <3>2. stored'[current'[q]] = stored[current[q]] /\ etags'[q] = etags[q]
      BY <2>1, Zenon
    <3>3. saved'[current'[q]] # NoState => saved'[current'[q]].sig = Signature
      BY <2>1, <2>2, <3>1 DEF OneVersion
    <3> QED
      BY <1>1, <2>1, <2>2, <3>2, <3>3 DEF OneVersion, Agrees
  <2>3. CASE phase[q] \notin Working
    BY <2>1, <2>3, Zenon DEF OneVersion
  <2> QED
    BY <2>2, <2>3, Zenon
<1> QED
  BY <1>2, <1>3, <1>4, <1>5, Zenon DEF ContentInv

\* A run that ended works with nothing.
LEMMA ReturnedVersion ==
  ASSUME TypeOK, NEW p \in Procs, NEW r, Return(p, r)
  PROVE  /\ OneVersion(p)' /\ current'[p] = NoUpload
         /\ \A q \in Procs : q # p => UNCHANGED <<phase[q], current[q], etags[q]>>
<1>1. DOMAIN phase = Procs /\ DOMAIN etags = Procs /\ DOMAIN current = Procs
  BY Zenon DEF TypeOK
<1> QED
  BY <1>1, Zenon DEF Return, OneVersion, Working

\* Every step keeps the parts of one version together.
LEMMA NextContent ==
  SignatureTells /\ TypeOK /\ PhaseInv /\ ContentInv /\ [Next]_vars => ContentInv'
<1> SUFFICES ASSUME SignatureTells, TypeOK, PhaseInv, ContentInv, [Next]_vars PROVE ContentInv'
  BY Zenon
<1> USE DEF serverVars, procVars, history
<1>00. /\ phase \in [Procs -> Phases] /\ current \in [Procs -> Uploads \cup {NoUpload}]
       /\ status \in [Uploads -> {"none", "open", "completed", "aborted", "swept"}]
       /\ saved \in [Uploads -> SavedStates]
       /\ stored \in [Uploads -> PartialContents] /\ etags \in [Procs -> PartialContents]
       /\ sig \in [Procs -> Signatures \cup {NoSig}]
       /\ source.chunk \in Contents /\ source.mtime \in Nat
  BY DEF TypeOK
<1>0. \A q \in Procs :
        /\ OneVersion(q)
        /\ phase[q] \in Working => current[q] \in Uploads /\ status[current[q]] # "none"
        /\ phase[q] \in Working => sig[q] = Signature
        /\ phase[q] \notin Working => current[q] = NoUpload
  BY Zenon DEF ContentInv, PhaseInv, RunInv, Unused, Working, Signed
\* Moves of a run between phases, with the same upload or without one.
<1>a. ASSUME NEW p \in Procs, NEW ph, phase' = [phase EXCEPT ![p] = ph], OneVersion(p)',
             UNCHANGED <<source, status, stored, saved, current, etags, versions>>
      PROVE  ContentInv'
  <2>1. \A q \in Procs : q # p => UNCHANGED <<phase[q], current[q], etags[q]>>
    BY <1>00, <1>a, Zenon
  <2>2. \A u \in Uploads : status[u] = "none" => current[p] # u
    BY Zenon DEF ContentInv, Unused
  <2> QED
    BY <1>a, <2>1, <2>2, ContentFrame, Zenon
\* The end of a run, with what it does to its upload and its record.
<1>b. ASSUME NEW p \in Procs, NEW r, Return(p, r), UNCHANGED <<source, stored, versions>>,
             \A u \in Uploads :
               /\ status'[u] = "none" => status[u] = "none" /\ saved'[u] = saved[u]
               /\ status'[u] = "completed" => status[u] = "completed" \/ stored[u] \in versions
               /\ \/ saved'[u] = saved[u] \/ saved'[u] = NoState
                  \/ phase[p] \in Working /\ u = current[p] /\ saved'[u].sig = Signature
      PROVE  ContentInv'
  BY <1>b, ReturnedVersion, ContentFrame, Numbers
<1>1. ASSUME NEW p \in Procs, Start(p) PROVE ContentInv'
  <2>1. OneVersion(p)'
    BY <1>0, <1>00, <1>1, Zenon DEF Start, Goto, OneVersion, Working
  <2> QED
    BY <1>a, <1>1, <2>1, Zenon DEF Start, Goto
<1>2. ASSUME NEW p \in Procs, FindMatch(p) PROVE ContentInv'
  <2>1. PICK dropped \in SUBSET Uploads :
          saved' = [u \in Uploads |-> IF u \in dropped THEN NoState ELSE saved[u]]
    BY <1>2, Zenon DEF FindMatch
  <2>2. UNCHANGED <<source, status, stored, etags, versions>>
    BY <1>2, Zenon DEF FindMatch
  <2>3. \/ phase' = [phase EXCEPT ![p] = "preflight"] /\ UNCHANGED current
        \/ /\ phase' = [phase EXCEPT ![p] = "resume"]
           /\ \E u \in Uploads : SameSource(p, u) /\ current' = [current EXCEPT ![p] = u]
    BY <1>2, Zenon DEF FindMatch, Goto
  <2>4. \A q \in Procs : q # p => UNCHANGED <<phase[q], current[q], etags[q]>>
    BY <1>00, <2>2, <2>3, Zenon
  <2>5. \A u \in Uploads : saved'[u] = saved[u] \/ saved'[u] = NoState
    BY <2>1, Zenon
  <2>6. \A u \in Uploads : status'[u] = "none" =>
          status[u] = "none" /\ saved'[u] = saved[u] /\ current'[p] # u
    BY <1>00, <2>2, <2>3, <2>5 DEF ContentInv, Unused, SameSource, SameDest
  <2>7. OneVersion(p)'
    <3>1. etags'[p] = [c \in {} |-> 0]
      BY <1>0, <1>2, <2>2, Zenon DEF FindMatch, OneVersion
    <3>2. CASE phase' = [phase EXCEPT ![p] = "preflight"]
      BY <1>00, <3>1, <3>2, Zenon DEF OneVersion, Working
    <3>3. ASSUME NEW u \in Uploads, SameSource(p, u), current' = [current EXCEPT ![p] = u]
          PROVE  OneVersion(p)'
      <4>1. current'[p] = u /\ saved[u] # NoState /\ saved[u].sig = Signature
        BY <1>00, <3>3, Zenon DEF SameSource, SameDest
      <4>2. Agrees(stored[u])
        BY <4>1, MatchAgrees, Zenon DEF ContentInv
      <4> QED
        BY <2>2, <2>5, <3>1, <4>1, <4>2, Zenon DEF OneVersion, Agrees, Signature
    <3> QED
      BY <2>3, <3>2, <3>3, Zenon
  <2> QED
    BY <2>2, <2>4, <2>5, <2>6, <2>7, ContentFrame, Zenon
<1>3. ASSUME NEW p \in Procs, Preflight(p) PROVE ContentInv'
  <2>1. CASE Return(p, "insufficient")
    BY <1>b, <1>3, <2>1, Zenon DEF Preflight
  <2>2. CASE Goto(p, "initiate") /\ UNCHANGED <<current, etags>>
    <3>1. OneVersion(p)'
      BY <1>0, <1>00, <1>3, <2>2, Zenon DEF Preflight, Goto, OneVersion, Working
    <3> QED
      BY <1>a, <1>3, <2>2, <3>1, Zenon DEF Preflight, Goto
  <2> QED
    BY <1>3, <2>1, <2>2, Zenon DEF Preflight
<1>4. ASSUME NEW p \in Procs, InitiateRefused(p) PROVE ContentInv'
  BY <1>b, <1>4, Zenon DEF InitiateRefused
<1>5. ASSUME NEW p \in Procs, Initiate(p) PROVE ContentInv'
  <2>1. PICK u \in Uploads :
          /\ status[u] = "none" /\ status' = [status EXCEPT ![u] = "open"]
          /\ \/ Goto(p, "save") /\ current' = [current EXCEPT ![p] = u] /\ UNCHANGED etags
             \/ Return(p, "error")
    BY <1>5, Zenon DEF Initiate
  <2>2. UNCHANGED <<source, stored, saved, versions>> /\ phase[p] = "initiate"
    BY <1>5, Zenon DEF Initiate
  <2>3. \A v \in Uploads : /\ status'[v] = "none" => status[v] = "none" /\ v # u
                           /\ status'[v] = "completed" => status[v] = "completed"
    BY <1>00, <2>1, Zenon
  <2>4. CASE Return(p, "error")
    BY <1>b, <2>2, <2>3, <2>4, Zenon
  <2>5. CASE Goto(p, "save") /\ current' = [current EXCEPT ![p] = u] /\ UNCHANGED etags
    <3>1. \A q \in Procs : q # p => UNCHANGED <<phase[q], current[q], etags[q]>>
      BY <1>00, <2>5, Zenon DEF Goto
    <3>2. current'[p] = u /\ phase'[p] = "save" /\ etags'[p] = [c \in {} |-> 0]
      BY <1>0, <1>00, <2>2, <2>5, Zenon DEF Goto, OneVersion
    <3>3. stored'[u] = [c \in {} |-> 0] /\ saved'[u] = NoState
      BY <2>1, <2>2, Zenon DEF ContentInv, Unused
    <3>4. OneVersion(p)'
      BY <3>2, <3>3, Zenon DEF OneVersion, Agrees
    <3> QED
      BY <2>2, <2>3, <3>1, <3>2, <3>4, ContentFrame, Zenon
  <2> QED
    BY <2>1, <2>4, <2>5, Zenon
<1>6. ASSUME NEW p \in Procs, SaveState(p) PROVE ContentInv'
  <2>1. /\ UNCHANGED <<source, status, stored, current, etags, versions>> /\ phase[p] = "save"
        /\ phase' = [phase EXCEPT ![p] = "parts"] /\ phase[p] \in Working
        /\ \/ UNCHANGED saved
           \/ saved' = [saved EXCEPT ![current[p]] = [name |-> name[p], sig |-> sig[p]]]
    BY <1>6, Zenon DEF SaveState, Goto, Working
  <2>2. \A q \in Procs : q # p => UNCHANGED <<phase[q], current[q], etags[q]>>
    BY <1>00, <2>1, Zenon
  <2>3. \A u \in Uploads : \/ saved'[u] = saved[u]
                           \/ u = current[p] /\ saved'[u].sig = Signature
    BY <1>0, <1>00, <2>1
  <2>4. OneVersion(p)'
    BY <1>0, <1>00, <2>1, <2>3, Zenon DEF OneVersion, Agrees, Signature, Working
  <2>5. \A u \in Uploads : status'[u] = "none" =>
          status[u] = "none" /\ saved'[u] = saved[u] /\ current'[p] # u
    BY <1>0, <2>1, <2>3, Zenon DEF ContentInv, Unused
  <2> QED
    BY <2>1, <2>2, <2>3, <2>4, <2>5, ContentFrame, Zenon
<1>7. ASSUME NEW p \in Procs, Resume(p) PROVE ContentInv'
  <2>1. /\ UNCHANGED <<source, status, stored, saved, current, versions>> /\ phase[p] = "resume"
        /\ phase' = [phase EXCEPT ![p] = "parts"] /\ phase[p] \in Working
        /\ etags' = [etags EXCEPT ![p] = stored[current[p]]]
    BY <1>7, Zenon DEF Resume, Goto, Working
  <2>2. \A q \in Procs : q # p => UNCHANGED <<phase[q], current[q], etags[q]>>
    BY <1>00, <2>1, Zenon
  <2>3. OneVersion(p)'
    BY <1>0, <1>00, <2>1, Zenon DEF OneVersion, Agrees, Signature, Working
  <2>4. \A u \in Uploads : status[u] = "none" => current[p] # u
    BY Zenon DEF ContentInv, Unused
  <2> QED
    BY <2>1, <2>2, <2>3, <2>4, ContentFrame, Zenon
<1>8. ASSUME NEW p \in Procs, ResumeNotFound(p) PROVE ContentInv'
  <2>1. UNCHANGED <<source, status, stored, etags, versions>> /\ phase[p] = "resume"
    BY <1>8, Zenon DEF ResumeNotFound
  <2>2. \A u \in Uploads : \/ saved'[u] = saved[u]
                           \/ saved'[u] = NoState /\ u = current[p]
    <3>1. saved' = [saved EXCEPT ![current[p]] = NoState]
      BY <1>8, Zenon DEF ResumeNotFound
    <3> QED
      BY <1>00, <3>1, Zenon
  <2>4. phase'[p] = "preflight" /\ \A q \in Procs : q # p => UNCHANGED phase[q]
    BY <1>00, <1>8, Zenon DEF ResumeNotFound, Goto
  <2>5. current'[p] = NoUpload /\ \A q \in Procs : q # p => UNCHANGED current[q]
    BY <1>00, <1>8, Zenon DEF ResumeNotFound
  <2>6. OneVersion(p)'
    BY <1>0, <2>1, <2>4, Zenon DEF OneVersion, Working
  <2>7. current[p] \in Uploads /\ status[current[p]] # "none"
    BY <1>0, <2>1, Zenon DEF Working
  <2> QED
    BY <2>1, <2>2, <2>4, <2>5, <2>6, <2>7, Numbers, ContentFrame, Zenon
<1>9. ASSUME NEW p \in Procs, PutPart(p) PROVE ContentInv'
  <2> DEFINE w == current[p]
  <2>1. PICK c \in todo[p] :
          /\ stored' = [stored EXCEPT ![w] =
                          [d \in DOMAIN @ \cup {c} |-> IF d = c THEN source.chunk[c] ELSE @[d]]]
          /\ etags' = [etags EXCEPT ![p] =
                          [d \in DOMAIN @ \cup {c} |-> IF d = c THEN source.chunk[c] ELSE @[d]]]
    BY <1>9, Zenon DEF PutPart
  <2>2. /\ UNCHANGED <<source, status, saved, phase, current, versions>> /\ status[w] = "open"
        /\ phase[p] \in Working /\ w \in Uploads /\ phase[p] = "parts"
    BY <1>0, <1>9, Zenon DEF PutPart, Working
  <2>3. /\ Agrees(stored[w]) /\ Agrees(etags[p])
        /\ saved[w] # NoState => saved[w].sig = Signature
    BY <1>0, <2>2, Zenon DEF OneVersion
  <2>4. /\ \A v \in Uploads : v # w => stored'[v] = stored[v]
        /\ \A q \in Procs : q # p => etags'[q] = etags[q]
    BY <1>00, <2>1, Zenon
  <2>5. Agrees(stored[w])' /\ Agrees(etags[p])'
    BY <1>00, <2>1, <2>2, <2>3, Zenon DEF Agrees
  <2>6. CompletedWhole'
    BY <2>2, <2>4, Zenon DEF ContentInv, CompletedWhole, Completed
  <2>7. ASSUME NEW u \in Uploads PROVE Promise(u)'
    <3>1. CASE u # w
      BY <2>2, <2>4, <3>1 DEF ContentInv, Promise, Agrees
    <3>2. CASE u = w
      <4>1. saved[u] # NoState => /\ saved[u].sig[1] = source.mtime
                                  /\ saved[u].sig[2] = source.chunk[1]
                                  /\ saved[u].sig[3] = source.chunk[PartCount]
        BY <2>3, <3>2 DEF Signature
      <4>2. \A d \in DOMAIN stored'[u] : stored'[u][d] = source.chunk[d]
        BY <2>2, <2>5, <3>2, Zenon DEF Agrees
      <4> QED
        BY <1>00, <2>2, <2>5, <3>2, <4>1, <4>2 DEF Promise
    <3> QED
      BY <3>1, <3>2, Zenon
  <2>8. ASSUME NEW u \in Uploads PROVE Unused(u)'
    BY <2>2, <2>4, Zenon DEF ContentInv, Unused
  <2>9. ASSUME NEW q \in Procs PROVE OneVersion(q)'
    <3>1. OneVersion(q) /\ Signature' = Signature /\ \A f : Agrees(f)' <=> Agrees(f)
      BY <1>0, <2>2, Zenon DEF Signature, Agrees
    <3>2. phase[q] \in Working => Agrees(stored[current[q]])'
      <4>1. CASE current[q] = w
        BY <2>2, <2>5, <4>1, Zenon
      <4>2. CASE current[q] # w /\ phase[q] \in Working
        <5>1. stored'[current'[q]] = stored[current[q]] /\ Agrees(stored[current[q]])
          BY <1>0, <2>2, <2>4, <3>1, <4>2, Zenon DEF OneVersion
        <5> QED
          BY <3>1, <5>1, Zenon
      <4> QED
        BY <4>1, <4>2, Zenon
    <3>3. phase[q] \in Working => Agrees(etags[q])'
      BY <2>2, <2>4, <2>5, <3>1 DEF OneVersion, Agrees
    <3>4. phase[q] \notin {"parts", "abort", "complete"} => etags'[q] = etags[q]
      BY <2>2, <2>4, Zenon
    <3> QED
      BY <2>2, <3>1, <3>2, <3>3, <3>4, Zenon DEF OneVersion
  <2> QED
    BY <2>2, <2>6, <2>7, <2>8, <2>9, Zenon DEF ContentInv
<1>10. ASSUME NEW p \in Procs, PartsDone(p) PROVE ContentInv'
  <2>1. OneVersion(p)'
    BY <1>0, <1>00, <1>10, Zenon DEF PartsDone, Goto, OneVersion, Agrees, Signature, Working
  <2> QED
    BY <1>a, <1>10, <2>1, Zenon DEF PartsDone, Goto
<1>11. ASSUME NEW p \in Procs, AbortThenForget(p) PROVE ContentInv'
  <2>1. /\ UNCHANGED <<source, stored, versions>> /\ Return(p, "error")
        /\ \/ UNCHANGED <<status, saved>>
           \/ /\ status[current[p]] = "open" /\ status' = [status EXCEPT ![current[p]] = "aborted"]
              /\ saved' = saved \/ saved' = [saved EXCEPT ![current[p]] = NoState]
    BY <1>11, Zenon DEF AbortThenForget
  <2>2. \A u \in Uploads :
          /\ status'[u] = "none" => status[u] = "none" /\ saved'[u] = saved[u]
          /\ status'[u] = "completed" => status[u] = "completed"
          /\ saved'[u] = saved[u] \/ saved'[u] = NoState
    BY <1>00, <2>1, Zenon
  <2> QED
    BY <1>b, <2>1, <2>2, Zenon
<1>12. ASSUME NEW p \in Procs, Listed(p), phase[p] = "complete" PROVE stored[current[p]] \in versions
  <2>1. phase[p] \in Working
    BY <1>12, Zenon DEF Working
  <2> QED
    BY <1>0, <1>00, <1>12, <2>1, WholeSource, Zenon DEF Listed, ContentInv, OneVersion
<1>13. ASSUME NEW p \in Procs, Complete(p) PROVE ContentInv'
  <2>1. /\ UNCHANGED <<source, stored, versions>> /\ Return(p, "ok")
        /\ status' = [status EXCEPT ![current[p]] = "completed"]
        /\ saved' = [saved EXCEPT ![current[p]] = NoState]
        /\ stored[current[p]] \in versions
    BY <1>12, <1>13, Zenon DEF Complete
  <2>2. \A u \in Uploads :
          /\ status'[u] = "none" => status[u] = "none" /\ saved'[u] = saved[u]
          /\ status'[u] = "completed" => status[u] = "completed" \/ stored[u] \in versions
          /\ saved'[u] = saved[u] \/ saved'[u] = NoState
    BY <1>00, <2>1, Zenon
  <2> QED
    BY <1>b, <2>1, <2>2, Zenon
<1>14. ASSUME NEW p \in Procs, CompleteNotFound(p) PROVE ContentInv'
  <2>1. phase[p] \in Working
    BY <1>14, Zenon DEF CompleteNotFound, Working
  <2>2. \A u \in Uploads : \/ saved'[u] = saved[u]
                           \/ saved'[u] = NoState /\ u = current[p]
    <3>1. saved' = [saved EXCEPT ![current[p]] = NoState]
      BY <1>14, Zenon DEF CompleteNotFound
    <3> QED
      BY <1>00, <3>1, Zenon
  <2> QED
    BY <1>0, <1>b, <1>14, <2>1, <2>2, Zenon DEF CompleteNotFound
<1>15. ASSUME NEW p \in Procs, CallFails(p) PROVE ContentInv'
  BY <1>b, <1>15, Zenon DEF CallFails
<1>16. ASSUME NEW p \in Procs, ResumeMismatch(p) PROVE ContentInv'
  <2>1. UNCHANGED <<source, stored, etags, versions>> /\ phase[p] = "resume"
    BY <1>16, Zenon DEF ResumeMismatch
  <2>2. \A u \in Uploads : \/ saved'[u] = saved[u]
                           \/ saved'[u] = NoState /\ u = current[p]
    <3>1. saved' = [saved EXCEPT ![current[p]] = NoState]
      BY <1>16, Zenon DEF ResumeMismatch
    <3> QED
      BY <1>00, <3>1, Zenon
  <2>3. \A u \in Uploads : /\ status'[u] = "none" => status[u] = "none"
                           /\ status'[u] = "completed" => status[u] = "completed"
    <3>1. status' = status \/ status' = [status EXCEPT ![current[p]] = "aborted"]
      BY <1>16, Zenon DEF ResumeMismatch
    <3> QED
      BY <1>00, <3>1, Zenon
  <2>4. phase'[p] = "preflight" /\ \A q \in Procs : q # p => UNCHANGED phase[q]
    BY <1>00, <1>16, Zenon DEF ResumeMismatch, Goto
  <2>5. current'[p] = NoUpload /\ \A q \in Procs : q # p => UNCHANGED current[q]
    BY <1>00, <1>16, Zenon DEF ResumeMismatch
  <2>6. OneVersion(p)'
    BY <1>0, <2>1, <2>4, Zenon DEF OneVersion, Working
  <2>7. current[p] \in Uploads /\ status[current[p]] # "none"
    BY <1>0, <2>1, Zenon DEF Working
  <2> QED
    BY <2>1, <2>2, <2>3, <2>4, <2>5, <2>6, <2>7, Numbers, ContentFrame, Zenon
<1>17. ASSUME NEW p \in Procs, PartsStall(p) PROVE ContentInv'
  <2>1. /\ UNCHANGED <<source, status, stored, versions>> /\ Return(p, "stalled")
        /\ \/ UNCHANGED saved
           \/ saved' = [saved EXCEPT ![current[p]] = [name |-> name[p], sig |-> sig[p]]]
    BY <1>17, Zenon DEF PartsStall
  <2>2. phase[p] \in Working
    BY <1>17, Zenon DEF PartsStall, Working
  <2>3. \A u \in Uploads : \/ saved'[u] = saved[u]
                           \/ u = current[p] /\ saved'[u].sig = Signature
    <3>1. sig[p] = Signature
      BY <1>0, <2>2, Zenon
    <3>2. \/ UNCHANGED saved
          \/ saved' = [saved EXCEPT ![current[p]] = [name |-> name[p], sig |-> Signature]]
      BY <2>1, <3>1, Zenon
    <3> QED
      BY <1>00, <3>2
  <2> QED
    BY <1>0, <1>b, <2>1, <2>2, <2>3, Zenon
<1>18. ASSUME NEW p \in Procs, PartsFail(p) PROVE ContentInv'
  <2>1. CASE Return(p, "error")
    BY <1>b, <1>18, <2>1, Zenon DEF PartsFail
  <2>2. CASE Goto(p, "abort") /\ UNCHANGED <<current, etags>>
    <3>1. OneVersion(p)'
      BY <1>0, <1>00, <1>18, <2>2, Zenon DEF PartsFail, Goto, OneVersion, Agrees, Signature, Working
    <3> QED
      BY <1>a, <1>18, <2>2, <3>1, Zenon DEF PartsFail, Goto
  <2> QED
    BY <1>18, <2>1, <2>2, Zenon DEF PartsFail
<1>19. ASSUME NEW p \in Procs, CompleteFails(p) PROVE ContentInv'
  <2>1. /\ UNCHANGED <<source, stored, saved, versions>> /\ Return(p, "error")
        /\ phase[p] = "complete"
        /\ \/ UNCHANGED status
           \/ Listed(p) /\ status' = [status EXCEPT ![current[p]] = "completed"]
    BY <1>19, Zenon DEF CompleteFails
  <2>2. \A u \in Uploads :
          /\ status'[u] = "none" => status[u] = "none"
          /\ status'[u] = "completed" => status[u] = "completed" \/ stored[u] \in versions
    BY <1>00, <1>12, <2>1, Zenon
  <2> QED
    BY <1>b, <2>1, <2>2, Zenon
<1>20. ASSUME NEW p \in Procs, Kill(p) PROVE ContentInv'
  BY <1>b, <1>20, Zenon DEF Kill
<1>21. ASSUME NEW u \in Uploads, Sweep(u) PROVE ContentInv'
  <2>1. /\ UNCHANGED <<source, stored, saved, phase, current, etags, versions>>
        /\ \A v \in Uploads : /\ status'[v] = "none" => status[v] = "none"
                              /\ status'[v] = "completed" => status[v] = "completed"
    BY <1>00, <1>21, Zenon DEF Sweep
  <2>2. CompletedWhole'
    BY <2>1, Zenon DEF ContentInv, CompletedWhole, Completed
  <2>3. \A v \in Uploads : Promise(v)' /\ Unused(v)'
    BY <2>1, Zenon DEF ContentInv, Promise, Unused, Agrees
  <2>4. \A q \in Procs : OneVersion(q)'
    BY <1>0, <2>1, Zenon DEF OneVersion, Agrees, Signature
  <2> QED
    BY <2>1, <2>2, <2>3, <2>4, Zenon DEF ContentInv
<1>22. ASSUME Edit PROVE ContentInv'
  <2>1. /\ UNCHANGED <<status, stored, saved, current, phase, etags>>
        /\ \A p \in Procs : phase[p] = "idle"
        /\ versions' = versions \cup {source'.chunk}
    BY <1>22, Zenon DEF Edit
  <2>2. PICK later \in BOOLEAN :
          /\ EditBumpsMtime => later
          /\ source'.mtime = source.mtime + (IF later THEN 1 ELSE 0)
    <3>1. PICK C \in SUBSET Parts \ {{}}, later \in BOOLEAN :
            /\ EditBumpsMtime => later
            /\ source' = [mtime |-> source.mtime + (IF later THEN 1 ELSE 0),
                          chunk |-> [c \in Parts |-> IF c \in C THEN edits + 1 ELSE source.chunk[c]]]
      BY <1>22, Zenon DEF Edit
    <3> QED
      BY <3>1, Zenon
  <2>3. /\ source'.mtime \in Nat /\ source'.mtime >= source.mtime
        /\ EditBumpsMtime => source'.mtime > source.mtime
    BY <1>00, <2>2
  <2>4. CompletedWhole'
    BY <2>1, Zenon DEF ContentInv, CompletedWhole, Completed
  <2>5. ASSUME NEW u \in Uploads PROVE Promise(u)' /\ Unused(u)'
    <3>1. saved[u] # NoState => saved[u].sig[1] \in Nat
      <4>1. saved[u] # NoState => saved[u].sig \in Signatures
        BY <1>00, Zenon DEF SavedStates
      <4> QED
        BY <4>1 DEF Signatures
    <3>2. Promise(u) /\ Unused(u)
      BY Zenon DEF ContentInv
    <3>3. Promise(u)'
      <4>1. saved[u] # NoState =>
              /\ saved[u].sig[1] <= source'.mtime
              /\ ~(EditBumpsMtime /\ saved[u].sig[1] = source'.mtime)
        BY <1>00, <2>3, <3>1, <3>2 DEF Promise
      <4> QED
        BY <2>1, <3>2, <4>1, Zenon DEF Promise
    <3>4. Unused(u)'
      BY <2>1, <3>2, Zenon DEF Unused
    <3> QED
      BY <3>3, <3>4, Zenon
  <2>6. ASSUME NEW q \in Procs PROVE OneVersion(q)'
    BY <1>0, <2>1, Zenon DEF OneVersion, Working
  <2> QED
    BY <2>1, <2>4, <2>5, <2>6, Zenon DEF ContentInv
<1>23. CASE UNCHANGED vars
  BY <1>23, Zenon DEF vars, ContentInv, Promise, Unused, OneVersion, Agrees, Signature, CompletedWhole,
     Completed
<1> QED
  BY <1>1, <1>2, <1>3, <1>4, <1>5, <1>6, <1>7, <1>8, <1>9, <1>10, <1>11, <1>13, <1>14,
     <1>15, <1>16, <1>17, <1>18, <1>19, <1>20, <1>21, <1>22, <1>23, Zenon
     DEF Next, RunStep, FaultStep, AllDone

-----------------------------------------------------------------------------
(* The theorems *)

INSTANCE FiniteSetTheorems

\* The names taken are counted: there are finitely many uploads.
LEMMA CompletedCount == Cardinality(Completed) \in Nat
<1>1. IsFiniteSet(Completed)
  BY BoundAssumption, FS_Subset, Zenon DEF Completed
<1> QED
  BY <1>1, FS_CardinalityType, Zenon

\* The types, the phases and the records, together, are inductive.
LEMMA Invariance == Spec => [](TypeOK /\ PhaseInv /\ NotForgotten)
<1>1. Init => TypeOK /\ PhaseInv /\ NotForgotten
  <2>1. Init => PhaseInv
    BY Numbers DEF Init, PhaseInv, RunInv, Working, Signed
  <2>2. Init => NotForgotten
    BY Zenon DEF Init, NotForgotten
  <2> QED
    BY <2>1, <2>2, InitType, Zenon
<1> QED
  BY <1>1, CompletedCount, NextType, NextPhase, NextNotForgotten, PTL DEF Spec

\* The variables keep their types, whatever fails, is killed, swept or edited.
THEOREM TypeCorrect == Spec => []TypeOK
  BY Invariance, PTL

\* However runs overlap and fail, an upload the server holds open has its resume state,
\* or lost it to a failed initiate, a failed save, an edit or a geometry mismatch:
\* `abort_then_forget` and the finalize path never drop the only record of it.
THEOREM Remembered == Spec => []NotForgotten
  BY Invariance, PTL

\* Only a run that is itself short of parts, or a geometry mismatch, aborts an upload whose
\* finalize failed: the run that left it preserved never comes back to abort it.
THEOREM Preserved == Spec => PreservedStays
<1>1. TypeOK /\ PhaseInv /\ [Next]_vars =>
        [\A u \in preserved :
           status'[u] = "aborted" =>
             \/ status[u] = "aborted" \/ u \in excused'
             \/ \E p \in Procs : current[p] = u /\ phase[p] = "abort" /\ todo[p] # {}]_vars
  <2> SUFFICES ASSUME TypeOK, PhaseInv, Next, NEW u \in preserved,
                      status'[u] = "aborted", status[u] # "aborted"
               PROVE  \/ u \in excused'
                      \/ \E p \in Procs : current[p] = u /\ phase[p] = "abort" /\ todo[p] # {}
    BY Zenon
  <2>0. status \in [Uploads -> {"none", "open", "completed", "aborted", "swept"}] /\ u \in Uploads
    BY Zenon DEF TypeOK
  <2>1. ASSUME NEW p \in Procs, AbortThenForget(p)
        PROVE  current[p] = u /\ phase[p] = "abort" /\ todo[p] # {}
    BY <2>0, <2>1, Zenon DEF AbortThenForget, PhaseInv, RunInv
  <2>2. ASSUME NEW p \in Procs, ResumeMismatch(p) PROVE u \in excused'
    BY <2>0, <2>2, Zenon DEF ResumeMismatch
  <2>3. ASSUME NEW p \in Procs, Start(p) \/ RunStep(p) \/ FaultStep(p),
               ~AbortThenForget(p), ~ResumeMismatch(p)
        PROVE  FALSE
    BY <2>0, <2>3, Zenon DEF serverVars, Start, RunStep, FaultStep, FindMatch, Preflight, InitiateRefused,
       Initiate, SaveState, Resume, ResumeNotFound, PutPart, PartsDone, Complete, CompleteNotFound,
       CallFails, PartsStall, PartsFail, CompleteFails, Kill
  <2>4. ASSUME NEW v \in Uploads, Sweep(v) PROVE FALSE
    BY <2>0, <2>4, Zenon DEF Sweep
  <2>5. ~Edit /\ ~AllDone
    BY Zenon DEF Edit, AllDone, vars, serverVars
  <2> QED
    BY <2>1, <2>2, <2>3, <2>4, <2>5, Zenon DEF Next
<1> QED
  BY <1>1, Invariance, PTL DEF Spec, PreservedStays

\* A finished file is the source as it was at one time, whenever the resume signature
\* tells its versions apart: an edit comes more than a second after the last run, or the
\* file has no chunk the anchor does not cover.
THEOREM Whole == ASSUME SignatureTells PROVE Spec => []CompletedWhole
<1>1. Init => ContentInv
  <2>1. Init => \A p \in Procs : OneVersion(p)
    BY Zenon DEF Init, OneVersion, Working
  <2>2. Init => \A u \in Uploads : Promise(u) /\ Unused(u)
    BY Numbers DEF Init, Promise, Unused
  <2> QED
    BY <2>1, <2>2, Zenon DEF Init, ContentInv, CompletedWhole, Completed
<1>2. TypeOK /\ PhaseInv /\ ContentInv /\ [Next]_vars => ContentInv'
  BY NextContent, Zenon
<1>3. ContentInv => CompletedWhole
  BY Zenon DEF ContentInv
<1> QED
  BY <1>1, <1>2, <1>3, Invariance, PTL DEF Spec
=============================================================================
