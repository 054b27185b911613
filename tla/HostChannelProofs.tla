------------------------- MODULE HostChannelProofs -------------------------
(***************************************************************************)
(* Proofs about the host-signer's channels, for any number of channels,    *)
(* commands, requests and restarts, any replay window and any mishaps: a   *)
(* channel keeps the handle it was bound to, a command's answer comes from *)
(* a run of its own request, and the replay guard remembers what it says.  *)
(***************************************************************************)
EXTENDS HostChannel, TLAPS

SignerFields == {"up", "serving", "key", "pin", "window", "missing", "left",
                 "batch", "pc", "ch", "req", "ans"}

StoreFields == {"tier", "locked", "pq", "k3", "keys"}

\* The phases in which the daemon holds one request of its listing.
Holding == {"read", "pinning", "ran", "done"}

\* What the daemon's memory holds.
Memory ==
    /\ DOMAIN signer = SignerFields
    /\ signer.up \in BOOLEAN /\ signer.pc \in Steps
    /\ signer.serving \subseteq Channels /\ signer.left \subseteq Channels
    /\ signer.batch \subseteq Requests
    /\ signer.key \in [Channels -> {0} \cup Secrets]
    /\ signer.pin \in [Channels -> Handles \cup {NoHandle}]
    /\ signer.window \in [Channels -> Seq(Requests)]
    /\ \A c \in Channels : Len(signer.window[c]) <= Window

\* The sealed answers, the commands of the containers, the counts.
RespsType ==
    /\ DOMAIN resps = Requests
    /\ \A r \in Requests : resps[r].sec \in {0} \cup Secrets

CmdType ==
    /\ DOMAIN cmd = Cmds
    /\ \A k \in Cmds : /\ DOMAIN cmd[k] = {"phase", "sec", "call", "out"}
                       /\ cmd[k].phase \in {"idle", "identity", "op", "over"}
                       /\ cmd[k].call.op \in WireOps

UsedType ==
    /\ DOMAIN used = {"provisions", "mishaps", "kept"}
    /\ used.provisions \in 0 .. MaxProvisions

\* What the files, the key store and the containers hold.
Outside ==
    /\ registry \in [Channels -> {0} \cup Secrets]
    /\ secret \in [Channels -> {0} \cup Secrets]
    /\ folder \subseteq Channels /\ reqs \subseteq Requests
    /\ pinFile \in [Channels -> Handles \cup {NoHandle}]
    /\ DOMAIN store = StoreFields /\ store.keys \subseteq Labels
    /\ DOMAIN ran = Cmds /\ age \in [Requests -> Nat]
    /\ RespsType /\ CmdType /\ UsedType

\* Where the daemon is in its loop: it goes round the channels it serves, the
\* listing it works through belongs to the one it polls, and the request it
\* holds is in the listing.
LoopInv ==
    /\ ~signer.up => signer.serving = {} /\ signer.pc = "rest"
    /\ signer.left \subseteq signer.serving
    /\ signer.pc # "rest" =>
         /\ signer.ch \in Channels /\ signer.ch \in signer.serving
         /\ \A r \in signer.batch : ChannelOf(r) = signer.ch
    /\ signer.pc \in Holding => signer.req \in signer.batch

\* A request that ran within the last Window runs of its channel is in the
\* guard's window, at the place its age says.
WindowInv ==
    signer.up =>
      \A q \in Requests :
        age[q] \in 1 .. Window =>
          LET w == signer.window[ChannelOf(q)]
          IN  age[q] <= Len(w) /\ w[Len(w) - age[q] + 1] = q

\* An answer to a command's operation, in the daemon's hands or in a file, is
\* what a run of that operation returned.
AnswerInv ==
    /\ \A k \in Cmds :
         resps[<<k, "op">>] # NoFile => resps[<<k, "op">>].body \in ran[k]
    /\ \A k \in Cmds :
         signer.pc \in {"pinning", "ran"} /\ signer.req = <<k, "op">> =>
           signer.ans \in ran[k]

\* A command that has not sent its operation, or that gave up waiting, has no
\* request for it in the folder, short of one it failed to remove.
Withdrawn ==
    \A k \in Cmds :
      (\/ cmd[k].phase \in {"idle", "identity"}
       \/ cmd[k].phase = "over" /\ ~cmd[k].out.ok /\ cmd[k].out.val = "timeout")
      => <<k, "op">> \notin reqs \/ <<k, "op">> \in used.kept
-----------------------------------------------------------------------------
(* The daemon's memory. *)

\* What a step of the poll loop that runs nothing leaves alone.
Quiet ==
    /\ signer'.up = signer.up /\ signer'.serving \subseteq signer.serving
    /\ signer'.key = signer.key /\ signer'.pin = signer.pin
    /\ signer'.window = signer.window

\* The next request of the listing, or the next channel.
LEMMA NextRequestQuiet ==
    ASSUME Memory, LoopInv, signer.up, signer.pc \in Holding \cup {"batch"},
           NEW r \in signer.batch, signer' = NextRequest(signer, r)
    PROVE  Quiet /\ Memory' /\ LoopInv' /\ signer'.pc \in {"rest", "batch"}
<1>1. /\ DOMAIN signer' = SignerFields /\ Quiet
      /\ signer'.batch = signer.batch \ {r} /\ signer'.ch = signer.ch
      /\ signer'.pc \in {"rest", "batch"} /\ signer'.serving = signer.serving
      /\ signer'.left \in {Due \ {signer.ch}, signer.left}
  BY ZenonT(60) DEF Memory, SignerFields, NextRequest, Quiet
<1>2. Due \subseteq Channels /\ Due \subseteq signer.serving
  BY Zenon DEF Due, Memory, LoopInv
<1>3. Memory'
  BY <1>1, <1>2, Zenon DEF Memory, Quiet, Steps
<1>4. LoopInv'
  BY <1>1, <1>2, ZenonT(60) DEF LoopInv, Quiet, Holding
<1> QED
  BY <1>1, <1>3, <1>4, Zenon

\* A step that only moves the daemon on from one phase to the next.
LEMMA PhaseOnly ==
    ASSUME Memory, LoopInv, signer.up, signer.pc \in Holding, NEW p \in Holding,
           signer' = [signer EXCEPT !.pc = p]
    PROVE  /\ Quiet /\ Memory' /\ LoopInv' /\ signer'.pc = p
           /\ signer'.req = signer.req /\ signer'.ans = signer.ans
<1>1. /\ DOMAIN signer' = SignerFields /\ Quiet
      /\ signer'.batch = signer.batch /\ signer'.ch = signer.ch
      /\ signer'.pc = p /\ signer'.left = signer.left
      /\ signer'.serving = signer.serving
      /\ signer'.req = signer.req /\ signer'.ans = signer.ans
  BY ZenonT(60) DEF Memory, SignerFields, Quiet
<1>2. Memory'
  BY <1>1, ZenonT(60) DEF Memory, Quiet, Steps, Holding
<1>3. LoopInv'
  BY <1>1, Zenon DEF LoopInv, Quiet, Holding
<1> QED
  BY <1>1, <1>2, <1>3, Zenon

\* Listing the folder, or finding it gone.
LEMMA PollQuiet ==
    ASSUME Memory, LoopInv, NEW c \in Channels,
           PollFolder(c) \/ PollMissing(c) \/ PollFails(c), reqs \subseteq Requests
    PROVE  Quiet /\ Memory' /\ LoopInv' /\ signer'.pc \in {"rest", "batch"}
<1>1. /\ Due \subseteq Channels /\ Due \subseteq signer.serving /\ c \in Due
      /\ signer.up /\ signer.pc = "rest"
  BY Zenon DEF Due, Memory, LoopInv, PollFolder, PollMissing, PollFails
<1>2. CASE PollFolder(c)
  <2> DEFINE found == {r \in reqs : ChannelOf(r) = c}
  <2>1. CASE found = {}
    <3>1. signer' = [signer EXCEPT !.missing[c] = 0, !.left = Due \ {c}]
      BY <1>2, <2>1, Zenon DEF PollFolder
    <3>2. /\ DOMAIN signer' = SignerFields /\ Quiet
          /\ signer'.batch = signer.batch /\ signer'.pc = signer.pc
          /\ signer'.left = Due \ {c} /\ signer'.serving = signer.serving
      BY <3>1, Zenon DEF Memory, SignerFields, Quiet
    <3> QED
      BY <1>1, <3>2, Zenon DEF Memory, LoopInv, Quiet, Holding
  <2>2. CASE found # {}
    <3>1. signer' = [signer EXCEPT !.missing[c] = 0, !.pc = "batch", !.ch = c,
                       !.batch = found]
      BY <1>2, <2>2, Zenon DEF PollFolder
    <3>2. /\ DOMAIN signer' = SignerFields /\ Quiet
          /\ signer'.batch = found /\ signer'.pc = "batch"
          /\ signer'.left = signer.left /\ signer'.ch = c
          /\ signer'.serving = signer.serving
      BY <3>1, Zenon DEF Memory, SignerFields, Quiet
    <3>3. found \subseteq Requests /\ \A r \in found : ChannelOf(r) = c
      BY Zenon
    <3>4. Memory'
      BY <3>2, <3>3, Zenon DEF Memory, Quiet, Steps
    <3>5. LoopInv'
      BY <1>1, <3>2, <3>3, Zenon DEF LoopInv, Quiet, Holding
    <3> QED
      BY <3>2, <3>4, <3>5, Zenon
  <2> QED
    BY <2>1, <2>2, Zenon
<1>3. CASE PollMissing(c)
  <2>1. \E S : signer' = [signer EXCEPT !.missing[c] = signer.missing[c] + 1,
                          !.left = Due \ {c}, !.serving = S]
               /\ S \subseteq signer.serving /\ signer.serving \ {c} \subseteq S
    BY <1>3, ZenonT(60) DEF PollMissing, Memory, SignerFields
  <2>2. PICK S : /\ signer' = [signer EXCEPT !.missing[c] = signer.missing[c] + 1,
                                 !.left = Due \ {c}, !.serving = S]
                 /\ S \subseteq signer.serving /\ signer.serving \ {c} \subseteq S
    BY <2>1, ZenonT(60)
  <2>3. /\ DOMAIN signer' = SignerFields /\ Quiet
        /\ signer'.batch = signer.batch /\ signer'.pc = signer.pc
        /\ signer'.left = Due \ {c} /\ signer.serving \ {c} \subseteq signer'.serving
    BY <2>2 DEF Memory, SignerFields, Quiet
  <2> QED
    BY <1>1, <2>3, Zenon DEF Memory, LoopInv, Quiet, Holding
<1>4. CASE PollFails(c)
  <2>1. signer' = [signer EXCEPT !.missing[c] = 0, !.left = Due \ {c}]
    BY <1>4, Zenon DEF PollFails
  <2>2. /\ DOMAIN signer' = SignerFields /\ Quiet
        /\ signer'.batch = signer.batch /\ signer'.pc = signer.pc
        /\ signer'.left = Due \ {c} /\ signer'.serving = signer.serving
    BY <2>1, Zenon DEF Memory, SignerFields, Quiet
  <2> QED
    BY <1>1, <2>2, Zenon DEF Memory, LoopInv, Quiet, Holding
<1> QED
  BY <1>2, <1>3, <1>4, Zenon

\* Taking up a request of the listing, or passing over one that vanished.
LEMMA ReadQuiet ==
    ASSUME Memory, LoopInv, NEW r \in Requests, ReadRequest(r)
    PROVE  Quiet /\ Memory' /\ LoopInv' /\ signer'.pc \in {"rest", "batch", "read"}
<1>1. signer.up /\ signer.pc = "batch" /\ r \in signer.batch
  BY Zenon DEF ReadRequest
<1>2. CASE r \in reqs
  <2>1. signer' = [signer EXCEPT !.pc = "read", !.req = r]
    BY <1>2, Zenon DEF ReadRequest
  <2>2. /\ DOMAIN signer' = SignerFields /\ Quiet
        /\ signer'.batch = signer.batch /\ signer'.ch = signer.ch
        /\ signer'.pc = "read" /\ signer'.left = signer.left /\ signer'.req = r
        /\ signer'.serving = signer.serving
    BY <2>1, Zenon DEF Memory, SignerFields, Quiet
  <2>3. Memory'
    BY <2>2, Zenon DEF Memory, Quiet, Steps
  <2>4. LoopInv'
    BY <1>1, <2>2, Zenon DEF LoopInv, Quiet
  <2> QED
    BY <2>2, <2>3, <2>4, Zenon
<1>3. CASE r \notin reqs
  <2>1. signer' = NextRequest(signer, r)
    BY <1>3, Zenon DEF ReadRequest
  <2> QED
    BY <1>1, <2>1, NextRequestQuiet, Zenon
<1> QED
  BY <1>2, <1>3, Zenon

\* Refusing, storing the pin, answering and removing the request.
LEMMA HoldingQuiet ==
    ASSUME Memory, LoopInv, Refuse \/ PersistPin \/ WriteResponse \/ RemoveRequest
    PROVE  /\ Quiet /\ Memory' /\ LoopInv'
           /\ \/ signer'.pc \in {"rest", "batch", "done"}
              \/ /\ signer.pc = "pinning" /\ signer'.pc = "ran"
                 /\ signer'.req = signer.req /\ signer'.ans = signer.ans
<1>1. /\ signer.up /\ signer.pc \in Holding
      /\ \/ signer' = [signer EXCEPT !.pc = "done"]
         \/ signer' = [signer EXCEPT !.pc = "ran"] /\ signer.pc = "pinning"
         \/ signer' = NextRequest(signer, signer.req)
  BY Zenon DEF Refuse, PersistPin, WriteResponse, RemoveRequest, Holding
<1>2. signer.req \in signer.batch
  BY <1>1, Zenon DEF LoopInv
<1>3. CASE signer' = [signer EXCEPT !.pc = "done"]
  BY <1>1, <1>3, PhaseOnly, "done" \in Holding, Zenon DEF Holding
<1>4. CASE signer' = [signer EXCEPT !.pc = "ran"] /\ signer.pc = "pinning"
  BY <1>1, <1>4, PhaseOnly, "ran" \in Holding, Zenon DEF Holding
<1>5. CASE signer' = NextRequest(signer, signer.req)
  BY <1>1, <1>2, <1>5, NextRequestQuiet, Zenon
<1> QED
  BY <1>1, <1>3, <1>4, <1>5, Zenon

\* A daemon that is down holds nothing, and one that starts reads the registry
\* and the pins.
LEMMA DownType ==
    ASSUME Outside, signer' = Down
    PROVE  /\ Memory' /\ LoopInv' /\ ~signer'.up
           /\ signer'.pc = "rest" /\ signer'.serving = {}
<1>1. /\ DOMAIN signer' = SignerFields /\ signer'.up = FALSE
      /\ signer'.serving = {} /\ signer'.pc = "rest" /\ signer'.left = {}
      /\ signer'.batch = {} /\ signer'.key = [c \in Channels |-> 0]
      /\ signer'.pin = [c \in Channels |-> NoHandle]
      /\ signer'.window = [c \in Channels |-> <<>>]
  BY Zenon DEF Down, SignerFields
<1>2. <<>> \in Seq(Requests) /\ Len(<<>>) <= Window
  BY HostChannelAssumption
<1>3. Memory'
  BY <1>1, <1>2, ZenonT(60) DEF Memory, Steps
<1>4. LoopInv'
  BY <1>1, Zenon DEF LoopInv, Holding
<1> QED
  BY <1>1, <1>3, <1>4, Zenon

LEMMA StartType ==
    ASSUME Outside, StartSigner
    PROVE  /\ Memory' /\ LoopInv' /\ signer'.up /\ signer'.pc = "rest"
           /\ \A c \in signer'.serving : signer'.pin[c] = pinFile[c]
<1>1. PICK D : D = Down
  BY Zenon
<1>2. /\ DOMAIN D = SignerFields /\ D.left = {} /\ D.batch = {} /\ D.pc = "rest"
      /\ D.window = [c \in Channels |-> <<>>]
  BY <1>1, Zenon DEF Down, SignerFields
<1> DEFINE on == {c \in Channels : registry[c] # 0}
<1> DEFINE pins == [c \in Channels |-> IF c \in on THEN pinFile[c] ELSE NoHandle]
<1>3. signer' = [D EXCEPT !.up = TRUE, !.serving = on, !.key = registry, !.pin = pins]
  BY <1>1, Zenon DEF StartSigner
<1>4. /\ DOMAIN signer' = SignerFields /\ signer'.up = TRUE /\ signer'.serving = on
      /\ signer'.pc = "rest" /\ signer'.left = {} /\ signer'.batch = {}
      /\ signer'.key = registry /\ signer'.pin = pins
      /\ signer'.window = [c \in Channels |-> <<>>]
  BY <1>2, <1>3, Zenon DEF SignerFields
<1>5. <<>> \in Seq(Requests) /\ Len(<<>>) <= Window
  BY HostChannelAssumption
<1>6. /\ pins \in [Channels -> Handles \cup {NoHandle}] /\ on \subseteq Channels
      /\ \A c \in on : pins[c] = pinFile[c]
  BY Zenon DEF Outside
<1>7. Memory'
  <2>1. registry \in [Channels -> {0} \cup Secrets]
    BY Zenon DEF Outside
  <2> HIDE DEF on, pins
  <2>2. /\ signer'.window \in [Channels -> Seq(Requests)]
        /\ \A c \in Channels : Len(signer'.window[c]) <= Window
    BY <1>4, <1>5, Zenon
  <2> QED
    BY <1>4, <1>6, <2>1, <2>2, ZenonT(60) DEF Memory, Steps
<1>8. LoopInv'
  BY <1>4, Zenon DEF LoopInv, Holding
<1> QED
  BY <1>4, <1>6, <1>7, <1>8, Zenon

-----------------------------------------------------------------------------
(* Running a request. *)

\* The store operations keep the store's fields, and add no label but the one
\* they are given.
LEMMA StoreKept ==
    ASSUME NEW st, DOMAIN st = StoreFields, NEW l, NEW alg,
           NEW d \in {SeGenerate(st, l, alg), SeDelete(st, l)}
    PROVE  DOMAIN d.store = StoreFields /\ d.store.keys \subseteq st.keys \cup {l}
<1>1. /\ DOMAIN [st EXCEPT !.keys = @ \cup {l}] = StoreFields
      /\ [st EXCEPT !.keys = @ \cup {l}].keys = st.keys \cup {l}
      /\ DOMAIN [st EXCEPT !.keys = @ \ {l}] = StoreFields
      /\ [st EXCEPT !.keys = @ \ {l}].keys = st.keys \ {l}
  BY Zenon DEF StoreFields
<1>2. d.store \in {st, [st EXCEPT !.keys = @ \cup {l}], [st EXCEPT !.keys = @ \ {l}]}
  BY DEF SeGenerate, SeGeneratePq, SeDelete, Minted, Same, PqBlobStore, PqBlobDelete
<1> QED
  BY <1>1, <1>2, ZenonT(60)

\* dispatch: whatever is asked, the store afterwards holds only labels.
LEMMA DispatchKept ==
    ASSUME NEW st, DOMAIN st = StoreFields, st.keys \subseteq Labels,
           NEW h, NEW c, c.op \in WireOps \ {"identity"}
    PROVE  /\ DOMAIN Dispatch(st, h, c).store = StoreFields
           /\ Dispatch(st, h, c).store.keys \subseteq Labels
<1> DEFINE l == ScopedLabel(c.label, h)
<1> DEFINE d == Dispatch(st, h, c)
<1>1. l.ok => c.label \in Labels
  BY Zenon DEF ScopedLabel, Parse, Err
<1>2. CASE c.op # "list" /\ l.ok /\ c.op \in {"keygen", "delete"}
  <2>1. d \in {SeGenerate(st, c.label, c.alg), SeDelete(st, c.label)}
    BY <1>2, Zenon DEF Dispatch
  <2> QED
    BY <1>1, <1>2, <2>1, StoreKept
<1>3. CASE ~(c.op # "list" /\ l.ok /\ c.op \in {"keygen", "delete"})
  <2>1. d.store = st
    BY <1>3, Zenon DEF Dispatch, WireOps, Same
  <2> QED
    BY <2>1, Zenon
<1> QED
  BY <1>2, <1>3, Zenon

\* ChannelState::handle: a channel that is bound keeps its handle, one that is
\* not is bound to a PRSN handle or stays unbound, and the store holds labels.
LEMMA HandleKept ==
    ASSUME NEW st, DOMAIN st = StoreFields, st.keys \subseteq Labels,
           NEW pin \in Handles \cup {NoHandle}, NEW c, c.op \in WireOps
    PROVE  LET h == Handle(st, pin, c)
           IN  /\ DOMAIN h.store = StoreFields /\ h.store.keys \subseteq Labels
               /\ h.pin \in Handles \cup {NoHandle}
               /\ pin # NoHandle => h.pin = pin
<1> DEFINE h == Handle(st, pin, c)
<1>1. CASE c.op = "identity"
  BY <1>1, Zenon DEF Handle
<1>2. CASE c.op # "identity" /\ pin # NoHandle
  <2>1. h.store = Dispatch(st, pin, c).store /\ h.pin = pin
    BY <1>2, Zenon DEF Handle
  <2> QED
    BY <1>2, <2>1, DispatchKept
<1>3. CASE c.op # "identity" /\ pin = NoHandle
  <2>1. CASE c.op # "keygen" \/ ~Parse(c.label).ok
    <3>1. h.store = st /\ h.pin = pin
      BY <1>3, <2>1, Zenon DEF Handle
    <3> QED
      BY <1>3, <3>1, Zenon
  <2>2. CASE c.op = "keygen" /\ Parse(c.label).ok
    <3>1. /\ h.store = Dispatch(st, c.label.handle, c).store
          /\ h.pin \in {c.label.handle, NoHandle}
      BY <1>3, <2>2, Zenon DEF Handle
    <3>2. c.label \in Labels
      BY <2>2, Zenon DEF Parse, Err
    <3>3. c.label.handle \in Handles
      BY <3>2, Zenon DEF Labels
    <3> QED
      BY <1>3, <3>1, <3>3, DispatchKept
  <2> QED
    BY <2>1, <2>2, Zenon
<1> QED
  BY <1>1, <1>2, <1>3, Zenon

\* The replay guard's window after a request is recorded: at most Window long,
\* the request last, and every earlier one that is kept one place further back.
LEMMA RecordedWindow ==
    ASSUME NEW w \in Seq(Requests), NEW r \in Requests, Len(w) <= Window
    PROVE  /\ Recorded(w, r) \in Seq(Requests)
           /\ Len(Recorded(w, r)) \in 1 .. Window
           /\ Recorded(w, r)[Len(Recorded(w, r))] = r
           /\ \A n \in 1 .. Window - 1 : n <= Len(w) =>
                /\ n + 1 <= Len(Recorded(w, r))
                /\ Recorded(w, r)[Len(Recorded(w, r)) - n] = w[Len(w) - n + 1]
<1>1. Window \in Nat \ {0} /\ Len(w) \in Nat
  BY HostChannelAssumption
<1>2. CASE Len(w) >= Window
  <2>1. Recorded(w, r) = Append(Tail(w), r) /\ Len(w) = Window /\ w # <<>>
    BY <1>1, <1>2 DEF Recorded
  <2>2. /\ Tail(w) \in Seq(Requests) /\ Len(Tail(w)) = Window - 1
        /\ \A i \in 1 .. Window - 1 : Tail(w)[i] = w[i + 1]
    BY <1>1, <2>1
  <2>3. /\ Append(Tail(w), r) \in Seq(Requests) /\ Len(Append(Tail(w), r)) = Window
        /\ Append(Tail(w), r)[Window] = r
        /\ \A i \in 1 .. Window - 1 : Append(Tail(w), r)[i] = Tail(w)[i]
    BY <1>1, <2>2
  <2> QED
    BY <1>1, <2>1, <2>2, <2>3
<1>3. CASE ~(Len(w) >= Window)
  <2>1. Recorded(w, r) = Append(w, r)
    BY <1>3, Zenon DEF Recorded
  <2>2. /\ Append(w, r) \in Seq(Requests) /\ Len(Append(w, r)) = Len(w) + 1
        /\ Append(w, r)[Len(w) + 1] = r
        /\ \A i \in 1 .. Len(w) : Append(w, r)[i] = w[i]
    BY <1>1
  <2> QED
    BY <1>1, <1>3, <2>1, <2>2
<1> QED
  BY <1>2, <1>3, Zenon

\* What the daemon's memory and the store are after a request was run.
LEMMA ProcessMemory ==
    ASSUME Memory, Outside, LoopInv, NEW locked \in BOOLEAN, Process(locked)
    PROVE  /\ Memory' /\ LoopInv' /\ signer.up /\ signer'.up
           /\ signer'.serving = signer.serving
           /\ signer.pc = "read" /\ signer'.pc \in {"pinning", "ran"}
           /\ signer.ch \in Channels /\ signer.req \in Requests
           /\ ChannelOf(signer.req) = signer.ch /\ signer'.req = signer.req
           /\ ~Seen(signer.window[signer.ch], signer.req)
           /\ signer'.window = [signer.window EXCEPT ![signer.ch] =
                                  Recorded(signer.window[signer.ch], signer.req)]
           /\ \A c \in Channels : signer.pin[c] # NoHandle \/ c # signer.ch =>
                signer'.pin[c] = signer.pin[c]
           /\ ran' = IF signer.req[2] = "op"
                     THEN [ran EXCEPT ![signer.req[1]] = @ \cup {signer'.ans}] ELSE ran
           /\ DOMAIN store' = StoreFields /\ store'.keys \subseteq Labels
<1> DEFINE c == signer.ch
<1> DEFINE r == signer.req
<1> DEFINE body == RequestFrame(r).body
<1> DEFINE st == [store EXCEPT !.locked = locked]
<1>1. signer.up /\ signer.pc = "read" /\ ~Seen(signer.window[c], r)
  BY Zenon DEF Process
<1>2. c \in Channels /\ r \in signer.batch /\ r \in Requests /\ ChannelOf(r) = c
  BY <1>1, Zenon DEF LoopInv, Holding, Memory
<1>3. body.op \in WireOps
  <2>1. r[1] \in Cmds
    BY <1>2, Zenon DEF Requests
  <2>2. cmd[r[1]].call.op \in WireOps
    BY <2>1, Zenon DEF Outside, CmdType
  <2>3. body = IF r[2] = "identity" THEN [op |-> "identity"] ELSE cmd[r[1]].call
    BY Zenon DEF RequestFrame, Sealed
  <2> QED
    BY <2>2, <2>3 DEF WireOps
<1>4. DOMAIN st = StoreFields /\ st.keys \subseteq Labels
  BY Zenon DEF Outside, StoreFields
<1>5. signer.pin[c] \in Handles \cup {NoHandle}
  BY <1>2, Zenon DEF Memory
<1>6. PICK h : /\ h = Handle(st, signer.pin[c], body)
               /\ DOMAIN h.store = StoreFields /\ h.store.keys \subseteq Labels
               /\ h.pin \in Handles \cup {NoHandle}
               /\ signer.pin[c] # NoHandle => h.pin = signer.pin[c]
  <2> HIDE DEF st, body, c
  <2> QED
    BY <1>3, <1>4, <1>5, HandleKept, Zenon
<1>7. /\ store' = [h.store EXCEPT !.locked = FALSE]
      /\ signer' = [signer EXCEPT !.window[c] = Recorded(@, r),
                      !.pin[c] = h.pin, !.ans = h.res,
                      !.pc = IF h.pin # signer.pin[c] THEN "pinning" ELSE "ran"]
      /\ ran' = IF r[2] = "op" THEN [ran EXCEPT ![r[1]] = @ \cup {h.res}] ELSE ran
  BY <1>6, Zenon DEF Process
<1>8. /\ DOMAIN signer' = SignerFields /\ signer'.up = signer.up
      /\ signer'.serving = signer.serving /\ signer'.key = signer.key
      /\ signer'.left = signer.left /\ signer'.batch = signer.batch
      /\ signer'.ch = signer.ch /\ signer'.req = signer.req /\ signer'.ans = h.res
      /\ signer'.pc \in {"pinning", "ran"}
      /\ signer'.pin = [signer.pin EXCEPT ![c] = h.pin]
      /\ signer'.window = [signer.window EXCEPT ![c] = Recorded(signer.window[c], r)]
  BY <1>7, Zenon DEF Memory, SignerFields
<1>9. /\ signer'.window \in [Channels -> Seq(Requests)]
      /\ \A d \in Channels : Len(signer'.window[d]) <= Window
  <2>1. /\ Recorded(signer.window[c], r) \in Seq(Requests)
        /\ Len(Recorded(signer.window[c], r)) <= Window
    <3>1. signer.window[c] \in Seq(Requests) /\ Len(signer.window[c]) <= Window
      BY <1>2, Zenon DEF Memory
    <3>2. /\ Recorded(signer.window[c], r) \in Seq(Requests)
          /\ Len(Recorded(signer.window[c], r)) \in 1 .. Window
      BY <1>2, <3>1, RecordedWindow, Zenon
    <3> QED
      BY <3>2, HostChannelAssumption
  <2>2. /\ signer.window \in [Channels -> Seq(Requests)]
        /\ \A d \in Channels : Len(signer.window[d]) <= Window
    BY Zenon DEF Memory
  <2> QED
    BY <1>2, <1>8, <2>1, <2>2, Zenon
<1>10. /\ signer'.pin \in [Channels -> Handles \cup {NoHandle}]
       /\ \A d \in Channels : signer.pin[d] # NoHandle \/ d # c =>
            signer'.pin[d] = signer.pin[d]
  BY <1>2, <1>6, <1>8, ZenonT(60) DEF Memory
<1>11. Memory'
  BY <1>8, <1>9, <1>10 DEF Memory, Steps
<1>12. LoopInv'
  BY <1>1, <1>2, <1>8, Zenon DEF LoopInv
<1>13. DOMAIN store' = StoreFields /\ store'.keys \subseteq Labels
  BY <1>6, <1>7, ZenonT(60) DEF StoreFields
<1> QED
  BY <1>1, <1>2, <1>7, <1>8, <1>10, <1>11, <1>12, <1>13, Zenon

-----------------------------------------------------------------------------
(* Type correctness. *)

\* Secrets are what a registry entry and a sealed answer are made of.
LEMMA NoFileSecret == NoFile.sec = 0
  BY Zenon DEF NoFile, Sealed

LEMMA InitType == Init => Memory /\ Outside /\ LoopInv
<1> SUFFICES ASSUME Init PROVE Memory /\ Outside /\ LoopInv
  BY Zenon
<1>1. Memory /\ LoopInv
  <2>1. /\ DOMAIN signer = SignerFields /\ signer.up = FALSE
        /\ signer.serving = {} /\ signer.pc = "rest" /\ signer.left = {}
        /\ signer.batch = {} /\ signer.key = [c \in Channels |-> 0]
        /\ signer.pin = [c \in Channels |-> NoHandle]
        /\ signer.window = [c \in Channels |-> <<>>]
    BY Zenon DEF Init, Down, SignerFields
  <2>2. <<>> \in Seq(Requests) /\ Len(<<>>) <= Window
    BY HostChannelAssumption
  <2> QED
    BY <2>1, <2>2, ZenonT(60) DEF Memory, LoopInv, Steps, Holding
<1>2. Outside
  <2>1. /\ registry \in [Channels -> {0} \cup Secrets]
        /\ secret \in [Channels -> {0} \cup Secrets]
        /\ folder \subseteq Channels /\ reqs \subseteq Requests
        /\ pinFile \in [Channels -> Handles \cup {NoHandle}]
        /\ age \in [Requests -> Nat] /\ DOMAIN ran = Cmds
    BY Zenon DEF Init
  <2>2. RespsType
    BY NoFileSecret, Zenon DEF Init, RespsType
  <2>3. DOMAIN store = StoreFields /\ store.keys \subseteq Labels
    BY Zenon DEF Init, StoreFields
  <2>4. CmdType
    BY Zenon DEF Init, Idle, WireOps, CmdType
  <2>5. UsedType
    BY HostChannelAssumption DEF Init, UsedType
  <2> QED
    BY <2>1, <2>2, <2>3, <2>4, <2>5, Zenon DEF Outside
<1> QED
  BY <1>1, <1>2, Zenon

LEMMA FinishedType ==
    ASSUME CmdType, NEW k \in Cmds, NEW out, Finished(k, out)
    PROVE  /\ CmdType'
           /\ cmd'[k].phase = "over" /\ cmd'[k].out = out
           /\ \A j \in Cmds : j # k => cmd'[j] = cmd[j]
<1> DEFINE over == [cmd[k] EXCEPT !.phase = "over"]
<1>1. cmd' = [cmd EXCEPT ![k] = [over EXCEPT !.out = out]]
  BY ZenonT(60) DEF Finished, CmdType
<1>2. /\ DOMAIN over = {"phase", "sec", "call", "out"} /\ over.call = cmd[k].call
      /\ over.phase = "over"
  BY Zenon DEF CmdType
<1>3. PICK new : /\ new = [over EXCEPT !.out = out]
                 /\ DOMAIN new = {"phase", "sec", "call", "out"}
                 /\ new.call = cmd[k].call /\ new.phase = "over" /\ new.out = out
  <2> HIDE DEF over
  <2>1. /\ DOMAIN [over EXCEPT !.out = out] = {"phase", "sec", "call", "out"}
        /\ [over EXCEPT !.out = out].call = cmd[k].call
        /\ [over EXCEPT !.out = out].phase = "over"
        /\ [over EXCEPT !.out = out].out = out
    BY <1>2, Zenon
  <2> QED
    BY <2>1, Zenon
<1>4. cmd' = [cmd EXCEPT ![k] = new]
  BY <1>1, <1>3, Zenon
<1>5. /\ DOMAIN cmd' = Cmds /\ cmd'[k] = new
      /\ \A j \in Cmds : j # k => cmd'[j] = cmd[j]
  BY <1>4, Zenon DEF CmdType
<1> HIDE DEF over
<1>6. CmdType'
  BY <1>3, <1>5, Zenon DEF CmdType
<1> QED
  BY <1>3, <1>5, <1>6, Zenon

LEMMA MishapType ==
    ASSUME UsedType, used' \in {used, [used EXCEPT !.mishaps = @ + 1]}
    PROVE  UsedType'
  BY Zenon DEF UsedType

LEMMA CleanUpType ==
    ASSUME UsedType, RespsType, NEW r, NEW sent, CleanUp(r, sent)
    PROVE  /\ UsedType' /\ RespsType' /\ used.kept \subseteq used'.kept
           /\ reqs' \subseteq reqs \cup sent
           /\ r \in sent \/ r \notin reqs' \/ r \in used'.kept
           /\ resps' \in {resps, [resps EXCEPT ![r] = NoFile]}
<1>1. UsedType' /\ used.kept \subseteq used'.kept
  <2>1. CASE UNCHANGED used
    BY <2>1, Zenon DEF UsedType
  <2>2. CASE used' = [used EXCEPT !.mishaps = @ + 1]
    BY <2>2, Zenon DEF UsedType
  <2>3. CASE used' = [used EXCEPT !.mishaps = @ + 1, !.kept = @ \cup {r}]
    BY <2>3, Zenon DEF UsedType
  <2> QED
    BY <2>1, <2>2, <2>3, Zenon DEF CleanUp
<1>2. r \in sent \/ r \notin reqs' \/ r \in used'.kept
  <2>1. CASE reqs' = (reqs \ {r}) \cup sent
    BY <2>1, Zenon
  <2>2. CASE used' = [used EXCEPT !.mishaps = @ + 1, !.kept = @ \cup {r}]
    BY <2>2, Zenon DEF UsedType
  <2> QED
    BY <2>1, <2>2, Zenon DEF CleanUp
<1>3. resps' \in {resps, [resps EXCEPT ![r] = NoFile]} /\ reqs' \subseteq reqs \cup sent
  BY Zenon DEF CleanUp
<1>4. RespsType'
  BY <1>3, NoFileSecret, ZenonT(60) DEF RespsType
<1> QED
  BY <1>1, <1>2, <1>3, <1>4, Zenon

\* The same of a command that sends nothing more.
LEMMA CleanUpLast ==
    ASSUME UsedType, RespsType, NEW r, CleanUp(r, {})
    PROVE  /\ used.kept \subseteq used'.kept /\ reqs' \subseteq reqs
           /\ r \notin reqs' \/ r \in used'.kept
<1>1. PICK none : none = {} /\ CleanUp(r, none)
  BY Zenon
<1>2. /\ used.kept \subseteq used'.kept /\ reqs' \subseteq reqs \cup none
      /\ r \in none \/ r \notin reqs' \/ r \in used'.kept
  BY <1>1, CleanUpType, Zenon
<1> QED
  BY <1>1, <1>2, Zenon

LEMMA RespSetType ==
    ASSUME RespsType, NEW r, NEW f, f.sec \in {0} \cup Secrets,
           resps' = [resps EXCEPT ![r] = f]
    PROVE  RespsType'
  BY Zenon DEF RespsType

LEMMA RespGoneType ==
    ASSUME RespsType, NEW c,
           resps' = [r \in Requests |-> IF ChannelOf(r) = c THEN NoFile ELSE resps[r]]
    PROVE  RespsType'
  BY NoFileSecret, Zenon DEF RespsType

\* The daemon's part of every step.
LEMMA NextMemory ==
    ASSUME Memory, Outside, LoopInv, [Next]_vars
    PROVE  Memory' /\ LoopInv'
<1>1. CASE UNCHANGED signer
  BY <1>1, Zenon DEF Memory, LoopInv
<1>2. CASE StartSigner
  BY <1>2, StartType, Zenon
<1>3. CASE SignerStep
  <2>1. CASE Refuse \/ PersistPin \/ WriteResponse \/ RemoveRequest
    BY <2>1, HoldingQuiet, Zenon
  <2>2. CASE \E locked \in BOOLEAN : Process(locked)
    BY <2>2, ProcessMemory, Zenon
  <2>3. CASE \E c \in Channels : PollFolder(c) \/ PollMissing(c) \/ PollFails(c)
    BY <2>3, PollQuiet, Zenon DEF Outside
  <2>4. CASE \E r \in Requests : ReadRequest(r)
    BY <2>4, ReadQuiet, Zenon
  <2> QED
    BY <1>3, <2>1, <2>2, <2>3, <2>4, Zenon DEF SignerStep
<1>4. CASE signer' = Down
  BY <1>4, DownType, Zenon
<1>5. UNCHANGED signer \/ StartSigner \/ SignerStep \/ signer' = Down
  <2>1. CASE UNCHANGED vars
    BY <2>1, Zenon DEF vars
  <2>2. CASE SignerStops
    BY <2>2, Zenon DEF SignerStops
  <2>3. ASSUME NEW c \in Channels, Provision(c) \/ Remove(c) \/ FolderLost(c)
        PROVE  UNCHANGED signer \/ signer' = Down
    BY <2>3, Zenon DEF Provision, Remove, FolderLost, KickstartHostSigner
  <2>4. ASSUME NEW k \in Cmds, ClientStep(k)
        PROVE  UNCHANGED signer
    BY <2>4, ZenonT(60) DEF ClientStep, Begin, GetIdentity, GetAnswer, Timeout, Killed,
                 SendFails
  <2> QED
    BY <2>1, <2>2, <2>3, <2>4, Zenon DEF Next
<1> QED
  BY <1>1, <1>2, <1>3, <1>4, <1>5, Zenon

\* The part of every step that the files, the store and the containers see.
LEMMA NextOutside ==
    ASSUME Memory, Outside, LoopInv, [Next]_vars
    PROVE  Outside'
<1>0. RespsType /\ CmdType /\ UsedType
  BY Zenon DEF Outside
<1>1. CASE UNCHANGED vars
  BY <1>1, Zenon DEF vars, Outside, RespsType, CmdType, UsedType
<1>2. CASE StartSigner
  BY <1>2, Zenon DEF StartSigner, hostVars, files, Outside, RespsType, CmdType, UsedType
<1>3. CASE SignerStops
  <2>1. UsedType'
    BY <1>0, <1>3, MishapType, Zenon DEF SignerStops
  <2> QED
    BY <1>3, <2>1, Zenon DEF SignerStops, hostVars, files, history, Outside, RespsType, CmdType
<1>4. CASE SignerStep
  <2>1. CASE Refuse
    BY <2>1, Zenon DEF Refuse, hostVars, files, history, Outside, RespsType, CmdType, UsedType
  <2>2. ASSUME NEW locked \in BOOLEAN, Process(locked)
        PROVE  Outside'
    <3>1. DOMAIN store' = StoreFields /\ store'.keys \subseteq Labels
      BY <2>2, ProcessMemory, Zenon
    <3>2. age' \in [Requests -> Nat]
      <4>1. age' = [q \in Requests |->
                      CASE q = signer.req -> 1
                        [] q # signer.req /\ age[q] # 0 /\ ChannelOf(q) = signer.ch ->
                             IF age[q] > Window THEN age[q] ELSE age[q] + 1
                        [] OTHER -> age[q]]
        BY <2>2, Zenon DEF Process
      <4>2. age \in [Requests -> Nat]
        BY Zenon DEF Outside
      <4> QED
        BY <4>1, <4>2
    <3>3. DOMAIN ran' = Cmds
      BY <2>2, ProcessMemory, Zenon DEF Outside
    <3>4. UNCHANGED <<hostVars, files, cmd, used>>
      BY <2>2, Zenon DEF Process
    <3> QED
      BY <3>1, <3>2, <3>3, <3>4, Zenon
         DEF hostVars, files, Outside, RespsType, CmdType, UsedType
  <2>3. CASE PersistPin
    <3>1. signer.ch \in Channels /\ signer.pin \in [Channels -> Handles \cup {NoHandle}]
      BY <2>3, Zenon DEF PersistPin, LoopInv, Memory
    <3>2. UsedType'
      BY <1>0, <2>3, MishapType, Zenon DEF PersistPin
    <3>3. pinFile' \in {pinFile, [pinFile EXCEPT ![signer.ch] = signer.pin[signer.ch]]}
      BY <2>3, Zenon DEF PersistPin
    <3>4. pinFile' \in [Channels -> Handles \cup {NoHandle}]
      BY <3>1, <3>3, Zenon DEF Outside
    <3> QED
      BY <2>3, <3>2, <3>4, Zenon
         DEF PersistPin, files, history, Outside, RespsType, CmdType
  <2>4. CASE WriteResponse
    <3>1. signer.ch \in Channels /\ signer.key \in [Channels -> {0} \cup Secrets]
      BY <2>4, Zenon DEF WriteResponse, LoopInv, Memory
    <3>2. UsedType'
      BY <1>0, <2>4, MishapType, Zenon DEF WriteResponse
    <3>3. RespsType'
      <4>1. CASE resps' = resps
        BY <1>0, <4>1, Zenon DEF RespsType
      <4>2. CASE resps' = [resps EXCEPT ![signer.req] = HeldAnswer]
        <5>1. HeldAnswer.sec \in {0} \cup Secrets
          BY <3>1, Zenon DEF HeldAnswer, Sealed
        <5> QED
          BY <1>0, <4>2, <5>1, RespSetType, ZenonT(60)
      <4> QED
        BY <2>4, <4>1, <4>2, Zenon DEF WriteResponse
    <3> QED
      BY <2>4, <3>2, <3>3, Zenon
         DEF WriteResponse, hostVars, history, Outside, CmdType
  <2>5. CASE RemoveRequest
    <3>1. UsedType' /\ reqs' \subseteq reqs
      BY <1>0, <2>5, MishapType, Zenon DEF RemoveRequest
    <3> QED
      BY <2>5, <3>1, Zenon
         DEF RemoveRequest, hostVars, history, Outside, RespsType, CmdType
  <2>6. ASSUME NEW c \in Channels, PollFolder(c) \/ PollMissing(c) \/ PollFails(c)
        PROVE  Outside'
    <3>1. UsedType'
      BY <1>0, <2>6, MishapType, Zenon DEF PollFolder, PollMissing, PollFails
    <3> QED
      BY <2>6, <3>1, Zenon DEF PollFolder, PollMissing, PollFails, hostVars, files, history,
                  Outside, RespsType, CmdType
  <2>7. ASSUME NEW r \in Requests, ReadRequest(r)
        PROVE  Outside'
    BY <2>7, Zenon DEF ReadRequest, hostVars, files, history, Outside, RespsType, CmdType,
                UsedType
  <2> QED
    BY <1>4, <2>1, <2>2, <2>3, <2>4, <2>5, <2>6, <2>7, Zenon DEF SignerStep
<1>5. ASSUME NEW c \in Channels, Provision(c)
      PROVE  Outside'
  <2>1. PICK s : /\ s = used.provisions + 1 /\ used.provisions < MaxProvisions
                 /\ registry' = [registry EXCEPT ![c] = s]
                 /\ secret' = [secret EXCEPT ![c] = s]
                 /\ used' = [used EXCEPT !.provisions = s]
                 /\ folder' = folder \cup {c}
    BY <1>5, ZenonT(60) DEF Provision, ProvisionCore
  <2>2. s \in Secrets /\ s \in 0 .. MaxProvisions
    BY <1>0, <2>1, HostChannelAssumption DEF UsedType, Secrets
  <2>3. UsedType'
    BY <1>0, <2>1, <2>2, Zenon DEF UsedType
  <2>4. /\ registry' \in [Channels -> {0} \cup Secrets]
        /\ secret' \in [Channels -> {0} \cup Secrets]
        /\ folder' \subseteq Channels
    BY <1>5, <2>1, <2>2, Zenon DEF Outside
  <2> QED
    BY <1>5, <2>3, <2>4, Zenon DEF Provision, files, history, Outside, RespsType, CmdType
<1>6. ASSUME NEW c \in Channels, Remove(c)
      PROVE  Outside'
  <2>1. UsedType'
    BY <1>0, <1>6, MishapType, Zenon DEF Remove
  <2>2. RespsType'
    BY <1>0, <1>6, RespGoneType, Zenon DEF Remove
  <2>3. /\ registry' \in [Channels -> {0} \cup Secrets]
        /\ secret' \in [Channels -> {0} \cup Secrets]
        /\ folder' \subseteq Channels /\ reqs' \subseteq Requests
    BY <1>6, Zenon DEF Outside, Remove
  <2>4. pinFile' \in [Channels -> Handles \cup {NoHandle}]
    BY <1>6, Zenon DEF Outside, Remove
  <2> QED
    BY <1>6, <2>1, <2>2, <2>3, <2>4, Zenon DEF Remove, history, Outside, CmdType
<1>7. ASSUME NEW c \in Channels, FolderLost(c)
      PROVE  Outside'
  <2>1. UsedType'
    BY <1>0, <1>7, MishapType, Zenon DEF FolderLost
  <2>2. RespsType'
    BY <1>0, <1>7, RespGoneType, Zenon DEF FolderLost
  <2>3. folder' \subseteq Channels /\ reqs' \subseteq Requests
    BY <1>7, Zenon DEF Outside, FolderLost
  <2> QED
    BY <1>7, <2>1, <2>2, <2>3, Zenon DEF FolderLost, history, Outside, CmdType
<1>8. ASSUME NEW k \in Cmds, ClientStep(k)
      PROVE  Outside'
  <2>0. <<k, "identity">> \in Requests /\ <<k, "op">> \in Requests
    BY Zenon DEF Requests
  <2>1. ASSUME NEW call \in Calls[k], Begin(k, call)
        PROVE  Outside'
    <3>1. call.op \in WireOps
      BY CallsAssumption, Zenon
    <3>2. PICK new : /\ new = [Idle EXCEPT !.phase = "identity",
                                 !.sec = secret[Wired[k]], !.call = call]
                     /\ cmd' = [cmd EXCEPT ![k] = new]
      BY <2>1, Zenon DEF Begin
    <3>3. /\ DOMAIN new = {"phase", "sec", "call", "out"} /\ new.phase = "identity"
          /\ new.call = call
      BY <3>2, Zenon DEF Idle
    <3>4. CmdType'
      BY <1>0, <3>1, <3>2, <3>3, Zenon DEF CmdType
    <3>5. reqs' \subseteq Requests
      BY <2>0, <2>1, Zenon DEF Begin, Outside
    <3> QED
      BY <2>1, <3>4, <3>5, Zenon DEF Begin, hostVars, history, Outside, RespsType, UsedType
  <2>2. CASE GetIdentity(k)
    <3>0. PICK sent \in SUBSET {<<k, "op">>} : CleanUp(<<k, "identity">>, sent)
      BY <2>2, Zenon DEF GetIdentity
    <3>1. RespsType' /\ UsedType'
      BY <1>0, <3>0, CleanUpType, Zenon
    <3>2. reqs' \subseteq Requests
      BY <1>0, <2>0, <3>0, CleanUpType, Zenon DEF Outside
    <3>3. CmdType'
      <4>1. CASE Finished(k, Err("identity_mismatch"))
        BY <1>0, <4>1, FinishedType, Zenon
      <4>2. CASE cmd' = [cmd EXCEPT ![k].phase = "op"]
        <5>1. cmd' = [cmd EXCEPT ![k] = [cmd[k] EXCEPT !.phase = "op"]]
          BY <4>2, Zenon
        <5>2. /\ DOMAIN [cmd[k] EXCEPT !.phase = "op"] = {"phase", "sec", "call", "out"}
              /\ [cmd[k] EXCEPT !.phase = "op"].phase = "op"
              /\ [cmd[k] EXCEPT !.phase = "op"].call = cmd[k].call
          BY <1>0, Zenon DEF CmdType
        <5> QED
          BY <1>0, <5>1, <5>2, Zenon DEF CmdType
      <4> QED
        BY <2>2, <4>1, <4>2, Zenon DEF GetIdentity
    <3> QED
      BY <2>2, <3>1, <3>2, <3>3, Zenon DEF GetIdentity, hostVars, history, Outside
  <2>3. CASE GetAnswer(k) \/ Timeout(k)
    <3>1. PICK out, r : Finished(k, out) /\ CleanUp(r, {})
      BY <2>3, Zenon DEF GetAnswer, Timeout
    <3>2. RespsType' /\ UsedType'
      BY <1>0, <3>1, CleanUpType, Zenon
    <3>3. CmdType'
      BY <1>0, <3>1, FinishedType, Zenon
    <3>4. reqs' \subseteq Requests
      BY <1>0, <3>1, CleanUpLast, Zenon DEF Outside
    <3> QED
      BY <2>3, <3>2, <3>3, <3>4, Zenon
         DEF GetAnswer, Timeout, hostVars, history, Outside
  <2>4. CASE Killed(k)
    <3>1. CmdType'
      BY <1>0, <2>4, FinishedType, Zenon DEF Killed
    <3>2. UsedType'
      BY <1>0, <2>4, MishapType, Zenon DEF Killed
    <3> QED
      BY <2>4, <3>1, <3>2, Zenon DEF Killed, hostVars, files, history, Outside, RespsType
  <2>5. CASE SendFails(k)
    <3>1. CmdType'
      BY <1>0, <2>5, FinishedType, Zenon DEF SendFails
    <3>2. UsedType'
      BY <1>0, <2>5, MishapType, Zenon DEF SendFails
    <3>3. RespsType'
      BY <1>0, <2>5, RespSetType, NoFileSecret, ZenonT(60) DEF SendFails
    <3>4. reqs' \subseteq Requests
      BY <2>5, Zenon DEF SendFails, Outside
    <3> QED
      BY <2>5, <3>1, <3>2, <3>3, <3>4, Zenon DEF SendFails, hostVars, history, Outside
  <2> QED
    BY <1>8, <2>1, <2>2, <2>3, <2>4, <2>5, Zenon DEF ClientStep
<1> QED
  BY <1>1, <1>2, <1>3, <1>4, <1>5, <1>6, <1>7, <1>8, Zenon DEF Next

-----------------------------------------------------------------------------
(* The pin, the window, the answers, the withdrawn requests. *)

\* What a step can do to the daemon's memory, as far as the invariants below
\* are concerned.
Moves ==
    \/ UNCHANGED signer
    \/ StartSigner
    \/ \E locked \in BOOLEAN : Process(locked)
    \/ /\ Quiet
       /\ \/ signer'.pc \notin {"pinning", "ran"}
          \/ /\ signer.pc = "pinning" /\ signer'.pc = "ran"
             /\ signer'.req = signer.req /\ signer'.ans = signer.ans
    \/ ~signer'.up /\ signer'.serving = {} /\ signer'.pc = "rest"

LEMMA NextMoves ==
    ASSUME Memory, Outside, LoopInv, [Next]_vars
    PROVE  Moves
<1>1. CASE UNCHANGED vars
  BY <1>1, Zenon DEF vars, Moves
<1>2. CASE StartSigner
  BY <1>2, Zenon DEF Moves
<1>3. CASE SignerStep
  <2>1. CASE Refuse \/ PersistPin \/ WriteResponse \/ RemoveRequest
    BY <2>1, HoldingQuiet, Zenon DEF Moves
  <2>2. CASE \E locked \in BOOLEAN : Process(locked)
    BY <2>2, Zenon DEF Moves
  <2>3. CASE \E c \in Channels : PollFolder(c) \/ PollMissing(c) \/ PollFails(c)
    BY <2>3, PollQuiet, Zenon DEF Outside, Moves
  <2>4. CASE \E r \in Requests : ReadRequest(r)
    BY <2>4, ReadQuiet, Zenon DEF Moves
  <2> QED
    BY <1>3, <2>1, <2>2, <2>3, <2>4, Zenon DEF SignerStep
<1>4. CASE SignerStops
  BY <1>4, DownType, Zenon DEF SignerStops, Moves
<1>5. ASSUME NEW c \in Channels, Provision(c) \/ Remove(c) \/ FolderLost(c)
      PROVE  Moves
  <2>1. UNCHANGED signer \/ signer' = Down
    BY <1>5, Zenon DEF Provision, Remove, FolderLost, KickstartHostSigner
  <2> QED
    BY <2>1, DownType, Zenon DEF Moves
<1>6. ASSUME NEW k \in Cmds, ClientStep(k)
      PROVE  Moves
  BY <1>6, ZenonT(60) DEF ClientStep, Begin, GetIdentity, GetAnswer, Timeout, Killed,
                 SendFails, Moves
<1> QED
  BY <1>1, <1>2, <1>3, <1>4, <1>5, <1>6, Zenon DEF Next

\* The pin file changes only at a removal, which clears it or leaves it, and
\* when the daemon stores the pin it serves.
LEMMA PinFileSteps ==
    ASSUME Memory, Outside, LoopInv, [Next]_vars
    PROVE  \/ UNCHANGED pinFile
           \/ \E c \in Channels : pinFile' = [pinFile EXCEPT ![c] = NoHandle]
                                  /\ registry'[c] = 0 /\ UNCHANGED signer
           \/ /\ PersistPin /\ signer.ch \in Channels
              /\ pinFile' = [pinFile EXCEPT ![signer.ch] = signer.pin[signer.ch]]
<1>1. CASE UNCHANGED vars \/ StartSigner \/ SignerStops
  BY <1>1, Zenon DEF vars, StartSigner, SignerStops, hostVars
<1>2. CASE SignerStep
  <2>1. CASE PersistPin
    <3>1. signer.ch \in Channels
      BY <2>1, Zenon DEF PersistPin, LoopInv
    <3> QED
      BY <2>1, <3>1, Zenon DEF PersistPin
  <2>2. CASE ~PersistPin
    BY <1>2, <2>2, ZenonT(60) DEF SignerStep, Refuse, Process, WriteResponse, RemoveRequest,
                      PollFolder, PollMissing, PollFails, ReadRequest, hostVars
  <2> QED
    BY <2>1, <2>2, Zenon
<1>3. ASSUME NEW c \in Channels, Provision(c) \/ Remove(c) \/ FolderLost(c)
      PROVE  \/ UNCHANGED pinFile
             \/ pinFile' = [pinFile EXCEPT ![c] = NoHandle] /\ registry'[c] = 0
                /\ UNCHANGED signer
  BY <1>3, ZenonT(60) DEF Provision, Remove, FolderLost, Outside
<1>4. ASSUME NEW k \in Cmds, ClientStep(k)
      PROVE  UNCHANGED pinFile
  BY <1>4, ZenonT(60) DEF ClientStep, Begin, GetIdentity, GetAnswer, Timeout, Killed,
                 SendFails, hostVars
<1> QED
  BY <1>1, <1>2, <1>3, <1>4, Zenon DEF Next

LEMMA NextPin ==
    ASSUME Memory, Outside, LoopInv, PinAgrees, [Next]_vars
    PROVE  PinAgrees'
<1>0. /\ pinFile \in [Channels -> Handles \cup {NoHandle}]
      /\ signer.serving \subseteq Channels
      /\ signer.pin \in [Channels -> Handles \cup {NoHandle}]
  BY Zenon DEF Outside, Memory
<1>1. CASE UNCHANGED pinFile
  <2>1. CASE UNCHANGED signer
    BY <1>1, <2>1, Zenon DEF PinAgrees
  <2>2. CASE StartSigner
    BY <1>1, <2>2, StartType, Zenon DEF PinAgrees
  <2>3. ASSUME NEW locked \in BOOLEAN, Process(locked)
        PROVE  PinAgrees'
    <3>1. /\ signer'.serving = signer.serving
          /\ \A c \in Channels : signer.pin[c] # NoHandle => signer'.pin[c] = signer.pin[c]
      BY <2>3, ProcessMemory, Zenon
    <3> QED
      BY <1>0, <1>1, <3>1, Zenon DEF PinAgrees
  <2>4. CASE Quiet
    BY <1>0, <1>1, <2>4, Zenon DEF PinAgrees, Quiet
  <2>5. CASE signer'.serving = {}
    BY <2>5, Zenon DEF PinAgrees
  <2> QED
    BY <2>1, <2>2, <2>3, <2>4, <2>5, NextMoves, Zenon DEF Moves
<1>2. ASSUME NEW c \in Channels, pinFile' = [pinFile EXCEPT ![c] = NoHandle],
             UNCHANGED signer
      PROVE  PinAgrees'
  BY <1>0, <1>2, Zenon DEF PinAgrees
<1>3. CASE /\ PersistPin /\ signer.ch \in Channels
           /\ pinFile' = [pinFile EXCEPT ![signer.ch] = signer.pin[signer.ch]]
  <2>1. Quiet
    BY <1>3, HoldingQuiet, Zenon
  <2> QED
    BY <1>0, <1>3, <2>1, Zenon DEF PinAgrees, Quiet
<1> QED
  BY <1>1, <1>2, <1>3, PinFileSteps, Zenon

LEMMA AgeSteps ==
    ASSUME [Next]_vars
    PROVE  UNCHANGED age \/ StartSigner \/ \E locked \in BOOLEAN : Process(locked)
<1>1. CASE UNCHANGED vars \/ SignerStops
  BY <1>1, Zenon DEF vars, SignerStops, history
<1>2. CASE SignerStep
  BY <1>2, ZenonT(60) DEF SignerStep, Refuse, PersistPin, WriteResponse, RemoveRequest, PollFolder,
              PollMissing, PollFails, ReadRequest, history
<1>3. ASSUME NEW c \in Channels, Provision(c) \/ Remove(c) \/ FolderLost(c)
      PROVE  UNCHANGED age
  BY <1>3, Zenon DEF Provision, Remove, FolderLost, history
<1>4. ASSUME NEW k \in Cmds, ClientStep(k)
      PROVE  UNCHANGED age
  BY <1>4, ZenonT(60) DEF ClientStep, Begin, GetIdentity, GetAnswer, Timeout, Killed,
                 SendFails, history
<1> QED
  BY <1>1, <1>2, <1>3, <1>4, Zenon DEF Next

\* Running a request puts it last in its channel's window and moves the others
\* back by one; the one that falls out is then older than Window.
LEMMA ProcessWindow ==
    ASSUME Memory, Outside, LoopInv, WindowInv, NEW locked \in BOOLEAN, Process(locked)
    PROVE  WindowInv'
<1>1. /\ signer.up /\ signer'.up /\ signer.ch \in Channels /\ signer.req \in Requests
      /\ ChannelOf(signer.req) = signer.ch
      /\ signer'.window = [signer.window EXCEPT ![signer.ch] =
                             Recorded(signer.window[signer.ch], signer.req)]
  BY ProcessMemory, Zenon
<1> DEFINE c == signer.ch
<1> DEFINE r == signer.req
<1> DEFINE w == signer.window[c]
<1>2. w \in Seq(Requests) /\ Len(w) <= Window /\ Len(w) \in Nat
  BY <1>1 DEF Memory
<1>3. Window \in Nat \ {0}
  BY HostChannelAssumption, Zenon
<1>4. age \in [Requests -> Nat]
  BY Zenon DEF Outside
<1>5. age' = [q \in Requests |->
                CASE q = r -> 1
                  [] q # r /\ age[q] # 0 /\ ChannelOf(q) = c ->
                       IF age[q] > Window THEN age[q] ELSE age[q] + 1
                  [] OTHER -> age[q]]
  BY Zenon DEF Process
<1>6. signer'.window[c] = Recorded(w, r)
      /\ \A d \in Channels : d # c => signer'.window[d] = signer.window[d]
  BY <1>1, Zenon DEF Memory
<1>7. PICK v : /\ v = Recorded(w, r) /\ Len(v) \in 1 .. Window /\ v[Len(v)] = r
               /\ \A n \in 1 .. Window - 1 : n <= Len(w) =>
                    n + 1 <= Len(v) /\ v[Len(v) - n] = w[Len(w) - n + 1]
  <2> HIDE DEF w, r
  <2>1. r \in Requests
    BY <1>1, Zenon DEF r
  <2>2. /\ Len(Recorded(w, r)) \in 1 .. Window
        /\ Recorded(w, r)[Len(Recorded(w, r))] = r
        /\ \A n \in 1 .. Window - 1 : n <= Len(w) =>
             /\ n + 1 <= Len(Recorded(w, r))
             /\ Recorded(w, r)[Len(Recorded(w, r)) - n] = w[Len(w) - n + 1]
    BY <1>2, <2>1, RecordedWindow, Zenon
  <2> QED
    BY <2>2, Zenon
<1>8. SUFFICES ASSUME NEW q \in Requests, age'[q] \in 1 .. Window
               PROVE  LET u == signer'.window[ChannelOf(q)]
                      IN  age'[q] <= Len(u) /\ u[Len(u) - age'[q] + 1] = q
  BY Zenon DEF WindowInv, ChannelOf
<1>9. CASE q = r
  <2>1. age'[q] = 1 /\ signer'.window[ChannelOf(q)] = v
    BY <1>1, <1>5, <1>6, <1>7, <1>9, Zenon
  <2> QED
    BY <1>3, <1>7, <1>9, <2>1
<1>10. CASE q # r /\ age[q] # 0 /\ ChannelOf(q) = c
  <2>1. age'[q] = IF age[q] > Window THEN age[q] ELSE age[q] + 1
    BY <1>5, <1>10, Zenon
  <2>2. age[q] \in 1 .. Window - 1 /\ age'[q] = age[q] + 1
    BY <1>3, <1>4, <1>8, <1>10, <2>1
  <2>3. age[q] <= Len(w) /\ w[Len(w) - age[q] + 1] = q
    <3>1. age[q] \in 1 .. Window
      BY <1>3, <2>2
    <3> QED
      BY <1>1, <1>10, <3>1, Zenon DEF WindowInv
  <2>4. /\ age[q] + 1 <= Len(v)
        /\ v[Len(v) - age[q]] = w[Len(w) - age[q] + 1]
    BY <1>7, <2>2, <2>3, Zenon
  <2>5. signer'.window[ChannelOf(q)] = v
    BY <1>6, <1>7, <1>10, Zenon
  <2>6. Len(v) - (age[q] + 1) + 1 = Len(v) - age[q]
    BY <1>3, <1>7, <2>2
  <2> QED
    BY <2>2, <2>3, <2>4, <2>5, <2>6, Zenon
<1>11. CASE q # r /\ ~(age[q] # 0 /\ ChannelOf(q) = c)
  <2>1. age'[q] = age[q]
    BY <1>5, <1>11, Zenon
  <2>2. age[q] # 0
    BY <1>3, <1>8, <2>1
  <2>3. ChannelOf(q) # c /\ ChannelOf(q) \in Channels
    BY <1>11, <2>2, HostChannelAssumption, Zenon DEF ChannelOf, Requests
  <2>4. signer'.window[ChannelOf(q)] = signer.window[ChannelOf(q)]
    BY <1>6, <2>3, Zenon
  <2> QED
    BY <1>1, <1>8, <2>1, <2>4, Zenon DEF WindowInv
<1> QED
  BY <1>9, <1>10, <1>11, Zenon

LEMMA NextWindow ==
    ASSUME Memory, Outside, LoopInv, WindowInv, [Next]_vars
    PROVE  WindowInv'
<1>1. CASE StartSigner
  <2>1. age' = [r \in Requests |-> 0]
    BY <1>1, Zenon DEF StartSigner
  <2> QED
    BY <2>1, HostChannelAssumption DEF WindowInv
<1>2. CASE \E locked \in BOOLEAN : Process(locked)
  BY <1>2, ProcessWindow, Zenon
<1>3. CASE UNCHANGED age /\ ~StartSigner /\ ~\E locked \in BOOLEAN : Process(locked)
  <2>1. CASE UNCHANGED signer
    BY <1>3, <2>1, Zenon DEF WindowInv, ChannelOf
  <2>2. CASE Quiet
    BY <1>3, <2>2, Zenon DEF WindowInv, ChannelOf, Quiet
  <2>3. CASE ~signer'.up
    BY <2>3, Zenon DEF WindowInv
  <2> QED
    BY <1>3, <2>1, <2>2, <2>3, NextMoves, Zenon DEF Moves
<1> QED
  BY <1>1, <1>2, <1>3, AgeSteps, Zenon

\* The files and the answers: what each step writes, and what a run recorded.
LEMMA NextAnswer ==
    ASSUME Memory, Outside, LoopInv, AnswerInv, [Next]_vars
    PROVE  AnswerInv' /\ \A k \in Cmds : ran[k] \subseteq ran'[k]
<1>0. DOMAIN ran = Cmds /\ DOMAIN resps = Requests
  BY Zenon DEF Outside, RespsType
<1>1. ASSUME NEW locked \in BOOLEAN, Process(locked)
      PROVE  AnswerInv' /\ \A k \in Cmds : ran[k] \subseteq ran'[k]
  <2>1. /\ signer.req \in Requests /\ signer'.req = signer.req
        /\ ran' = IF signer.req[2] = "op"
                  THEN [ran EXCEPT ![signer.req[1]] = @ \cup {signer'.ans}] ELSE ran
    BY <1>1, ProcessMemory, Zenon
  <2>2. signer.req[1] \in Cmds
    BY <2>1, Zenon DEF Requests
  <2>3. \A k \in Cmds : ran[k] \subseteq ran'[k]
    BY <1>0, <2>1, <2>2, Zenon
  <2>4. \A k \in Cmds : signer.req = <<k, "op">> => signer'.ans \in ran'[k]
    BY <1>0, <2>1
  <2>5. UNCHANGED resps
    BY <1>1, Zenon DEF Process, files
  <2> QED
    BY <2>1, <2>3, <2>4, <2>5, Zenon DEF AnswerInv
<1>2. CASE UNCHANGED ran /\ ~\E locked \in BOOLEAN : Process(locked)
  <2>1. \A k \in Cmds : signer'.pc \in {"pinning", "ran"} /\ signer'.req = <<k, "op">> =>
          signer'.ans \in ran'[k]
    <3>1. CASE UNCHANGED signer
      BY <1>2, <3>1, Zenon DEF AnswerInv
    <3>2. CASE signer'.pc \notin {"pinning", "ran"}
      BY <3>2, Zenon
    <3>3. CASE /\ signer.pc = "pinning" /\ signer'.pc = "ran"
               /\ signer'.req = signer.req /\ signer'.ans = signer.ans
      BY <1>2, <3>3, Zenon DEF AnswerInv
    <3>4. CASE StartSigner
      BY <3>2, <3>4, StartType, Zenon
    <3>5. CASE signer'.pc = "rest"
      BY <3>2, <3>5, Zenon
    <3> QED
      BY <1>2, <3>1, <3>2, <3>3, <3>4, <3>5, NextMoves, Zenon DEF Moves
  <2>2. \A k \in Cmds :
          resps'[<<k, "op">>] \in {NoFile, resps[<<k, "op">>]}
          \/ /\ signer.pc = "ran" /\ signer.req = <<k, "op">>
             /\ resps'[<<k, "op">>].body = signer.ans
    <3> SUFFICES ASSUME NEW k \in Cmds
                 PROVE  resps'[<<k, "op">>] \in {NoFile, resps[<<k, "op">>]}
                        \/ /\ signer.pc = "ran" /\ signer.req = <<k, "op">>
                           /\ resps'[<<k, "op">>].body = signer.ans
      BY ZenonT(60)
    <3>0. <<k, "op">> \in Requests
      BY Zenon DEF Requests
    <3>1. CASE UNCHANGED resps
      BY <3>1, Zenon
    <3>2. CASE WriteResponse
      <4>1. CASE resps' = [resps EXCEPT ![signer.req] = HeldAnswer]
        BY <1>0, <3>0, <3>2, <4>1, Zenon DEF WriteResponse, HeldAnswer, Sealed
      <4> QED
        BY <3>1, <3>2, <4>1, Zenon DEF WriteResponse
    <3>3. ASSUME NEW c \in Channels, Remove(c) \/ FolderLost(c)
          PROVE  resps'[<<k, "op">>] \in {NoFile, resps[<<k, "op">>]}
      BY <3>0, <3>3, Zenon DEF Remove, FolderLost
    <3>4. ASSUME NEW j \in Cmds,
                 GetIdentity(j) \/ GetAnswer(j) \/ Timeout(j) \/ SendFails(j)
          PROVE  resps'[<<k, "op">>] \in {NoFile, resps[<<k, "op">>]}
      <4>1. PICK r : resps' \in {resps, [resps EXCEPT ![r] = NoFile]}
        BY <3>4, ZenonT(60) DEF GetIdentity, GetAnswer, Timeout, SendFails, CleanUp
      <4> QED
        BY <1>0, <3>0, <4>1, Zenon
    <3>5. UNCHANGED resps \/ WriteResponse
          \/ (\E c \in Channels : Remove(c) \/ FolderLost(c))
          \/ \E j \in Cmds : GetIdentity(j) \/ GetAnswer(j) \/ Timeout(j) \/ SendFails(j)
      BY ZenonT(60) DEF Next, vars, StartSigner, SignerStep, SignerStops, Refuse, Process, PersistPin,
             RemoveRequest, PollFolder, PollMissing, PollFails, ReadRequest, Provision, ClientStep,
             Begin, Killed, files
    <3> QED
      BY <3>1, <3>2, <3>3, <3>4, <3>5, Zenon
  <2> QED
    BY <1>2, <2>1, <2>2, Zenon DEF AnswerInv
<1>3. UNCHANGED ran \/ \E locked \in BOOLEAN : Process(locked)
  BY ZenonT(60) DEF Next, vars, StartSigner, SignerStep, SignerStops, Refuse, PersistPin, WriteResponse,
         RemoveRequest, PollFolder, PollMissing, PollFails, ReadRequest, Provision, Remove, FolderLost,
         ClientStep, Begin, GetIdentity, GetAnswer, Timeout, Killed,
                 SendFails, history
<1> QED
  BY <1>1, <1>2, <1>3, Zenon

\* What a client's step makes of its command.
LEMMA ClientMoves ==
    ASSUME Outside, NEW k \in Cmds, ClientStep(k)
    PROVE  /\ \A j \in Cmds : j # k => cmd'[j] = cmd[j]
           /\ used.kept \subseteq used'.kept
           /\ \/ /\ cmd'[k].phase = "identity" /\ cmd[k].phase = "idle"
                 /\ reqs' = reqs \cup {<<k, "identity">>}
              \/ cmd'[k].phase = "op" /\ reqs' \subseteq reqs \cup {<<k, "op">>}
              \/ /\ cmd'[k].phase = "over" /\ reqs' \subseteq reqs
                 /\ \/ cmd'[k].out \in {Err("identity_mismatch"), Err("killed"), Err("unsent")}
                    \/ /\ resps[<<k, "op">>] # NoFile
                       /\ cmd'[k].out = FromWire(resps[<<k, "op">>].body)
                       /\ <<k, "op">> \notin reqs' \/ <<k, "op">> \in used'.kept
                    \/ /\ cmd'[k].out = Err("timeout") /\ cmd[k].phase \in {"identity", "op"}
                       /\ \/ <<k, cmd[k].phase>> \notin reqs'
                          \/ <<k, cmd[k].phase>> \in used'.kept
<1>0. CmdType /\ UsedType /\ RespsType
  BY Zenon DEF Outside
<1>1. ASSUME NEW call \in Calls[k], Begin(k, call)
      PROVE  /\ \A j \in Cmds : j # k => cmd'[j] = cmd[j]
             /\ cmd'[k].phase = "identity" /\ cmd[k].phase = "idle"
             /\ reqs' = reqs \cup {<<k, "identity">>} /\ UNCHANGED used
  <2>1. PICK new : /\ new = [Idle EXCEPT !.phase = "identity",
                               !.sec = secret[Wired[k]], !.call = call]
                   /\ cmd' = [cmd EXCEPT ![k] = new]
    BY <1>1, Zenon DEF Begin
  <2>2. new.phase = "identity"
    BY <2>1, Zenon DEF Idle
  <2> QED
    BY <1>0, <1>1, <2>1, <2>2, Zenon DEF CmdType, Begin
<1>2. CASE GetIdentity(k)
  <2>1. CASE Finished(k, Err("identity_mismatch")) /\ CleanUp(<<k, "identity">>, {})
    <3>1. used.kept \subseteq used'.kept /\ reqs' \subseteq reqs
      BY <1>0, <2>1, CleanUpLast, Zenon
    <3> QED
      BY <1>0, <2>1, <3>1, FinishedType, Zenon
  <2>2. CASE /\ cmd' = [cmd EXCEPT ![k].phase = "op"]
             /\ CleanUp(<<k, "identity">>, {<<k, "op">>})
    <3>1. cmd' = [cmd EXCEPT ![k] = [cmd[k] EXCEPT !.phase = "op"]]
      BY <2>2, Zenon
    <3>2. [cmd[k] EXCEPT !.phase = "op"].phase = "op"
      BY <1>0, Zenon DEF CmdType
    <3>3. cmd'[k].phase = "op" /\ \A j \in Cmds : j # k => cmd'[j] = cmd[j]
      BY <1>0, <3>1, <3>2, Zenon DEF CmdType
    <3>4. used.kept \subseteq used'.kept /\ reqs' \subseteq reqs \cup {<<k, "op">>}
      BY <1>0, <2>2, CleanUpType, Zenon
    <3> QED
      BY <3>3, <3>4, Zenon
  <2> QED
    BY <1>2, <2>1, <2>2, Zenon DEF GetIdentity
<1>3. CASE GetAnswer(k)
  <2>1. /\ used.kept \subseteq used'.kept /\ reqs' \subseteq reqs
        /\ <<k, "op">> \notin reqs' \/ <<k, "op">> \in used'.kept
    BY <1>0, <1>3, CleanUpLast, Zenon DEF GetAnswer
  <2>2. /\ resps[<<k, "op">>] # NoFile /\ Finished(k, FromWire(resps[<<k, "op">>].body))
    BY <1>3, Zenon DEF GetAnswer, Answered
  <2> QED
    BY <1>0, <2>1, <2>2, FinishedType, Zenon
<1>4. CASE Timeout(k)
  <2>1. /\ used.kept \subseteq used'.kept /\ reqs' \subseteq reqs
        /\ <<k, cmd[k].phase>> \notin reqs' \/ <<k, cmd[k].phase>> \in used'.kept
    BY <1>0, <1>4, CleanUpLast, Zenon DEF Timeout
  <2>2. Finished(k, Err("timeout")) /\ cmd[k].phase \in {"identity", "op"}
    BY <1>4, Zenon DEF Timeout
  <2> QED
    BY <1>0, <2>1, <2>2, FinishedType, Zenon
<1>5. CASE Killed(k) \/ SendFails(k)
  <2>1. PICK out \in {Err("killed"), Err("unsent")} : Finished(k, out)
    BY <1>5, Zenon DEF Killed, SendFails
  <2>2. reqs' \subseteq reqs /\ used' = [used EXCEPT !.mishaps = @ + 1]
    BY <1>5, Zenon DEF Killed, SendFails, files
  <2>3. used'.kept = used.kept
    BY <1>0, <2>2, Zenon DEF UsedType
  <2> QED
    BY <1>0, <2>1, <2>2, <2>3, FinishedType, Zenon
<1> QED
  BY <1>1, <1>2, <1>3, <1>4, <1>5, ZenonT(60) DEF ClientStep

\* Every other step leaves the commands alone and adds no request.
LEMMA OtherSteps ==
    ASSUME UsedType, [Next]_vars, ~\E k \in Cmds : ClientStep(k)
    PROVE  UNCHANGED cmd /\ reqs' \subseteq reqs /\ used'.kept = used.kept
<1>0. \A n : /\ [used EXCEPT !.mishaps = n].kept = used.kept
            /\ [used EXCEPT !.provisions = n].kept = used.kept
  BY Zenon DEF UsedType
<1>1. CASE UNCHANGED vars \/ StartSigner \/ SignerStops
  BY <1>0, <1>1, Zenon DEF vars, StartSigner, SignerStops, files
<1>2. CASE SignerStep
  <2>1. UNCHANGED cmd /\ reqs' \subseteq reqs
    BY <1>2, ZenonT(60) DEF SignerStep, Refuse, Process, PersistPin, WriteResponse,
                RemoveRequest, PollFolder, PollMissing, PollFails, ReadRequest, files
  <2>2. UNCHANGED used \/ used' = [used EXCEPT !.mishaps = @ + 1]
    BY <1>2, ZenonT(60) DEF SignerStep, Refuse, Process, PersistPin, WriteResponse,
                RemoveRequest, PollFolder, PollMissing, PollFails, ReadRequest
  <2> QED
    BY <1>0, <2>1, <2>2, Zenon
<1>3. ASSUME NEW c \in Channels, Provision(c) \/ Remove(c) \/ FolderLost(c)
      PROVE  UNCHANGED cmd /\ reqs' \subseteq reqs /\ used'.kept = used.kept
  BY <1>0, <1>3, ZenonT(60) DEF Provision, ProvisionCore, Remove, FolderLost, files
<1> QED
  BY <1>1, <1>2, <1>3, Zenon DEF Next

LEMMA NextOwnRun ==
    ASSUME Memory, Outside, LoopInv, AnswerInv, AnswerFromOwnRun, [Next]_vars
    PROVE  AnswerFromOwnRun'
<1>1. \A j \in Cmds : ran[j] \subseteq ran'[j]
  BY NextAnswer, Zenon
<1>2. SUFFICES ASSUME NEW j \in Cmds, cmd'[j].phase = "over",
                      cmd'[j].out.ok \/ cmd'[j].out.val \notin NotRun
               PROVE  \E res \in ran'[j] : FromWire(res) = cmd'[j].out
  BY Zenon DEF AnswerFromOwnRun, FromWire, WireCode
<1>3. CASE cmd'[j] = cmd[j]
  <2>1. \E res \in ran[j] : FromWire(res) = cmd[j].out
    BY <1>2, <1>3, Zenon DEF AnswerFromOwnRun
  <2> QED
    BY <1>1, <1>3, <2>1, Zenon
<1>4. CASE cmd'[j] # cmd[j]
  <2>1. ClientStep(j)
    BY <1>4, OtherSteps, ClientMoves, ZenonT(60) DEF Outside
  <2>2. /\ resps[<<j, "op">>] # NoFile
        /\ cmd'[j].out = FromWire(resps[<<j, "op">>].body)
    <3>1. cmd'[j].out \notin {Err("identity_mismatch"), Err("killed"), Err("unsent"),
                             Err("timeout")}
      BY <1>2 DEF Err, NotRun
    <3>2. cmd'[j].phase \notin {"identity", "op"}
      BY <1>2, Zenon
    <3> QED
      BY <2>1, <3>1, <3>2, ClientMoves, ZenonT(60)
  <2>3. resps[<<j, "op">>].body \in ran[j]
    BY <2>2, Zenon DEF AnswerInv
  <2> QED
    BY <1>1, <2>2, <2>3, Zenon
<1> QED
  BY <1>3, <1>4, Zenon

LEMMA NextWithdrawn ==
    ASSUME Memory, Outside, LoopInv, Withdrawn, [Next]_vars
    PROVE  Withdrawn'
<1>1. CASE ~\E k \in Cmds : ClientStep(k)
  BY <1>1, OtherSteps, Zenon DEF Withdrawn, Outside
<1>2. ASSUME NEW k \in Cmds, ClientStep(k)
      PROVE  Withdrawn'
  <2> SUFFICES ASSUME NEW j \in Cmds,
                      \/ cmd'[j].phase \in {"idle", "identity"}
                      \/ /\ cmd'[j].phase = "over" /\ ~cmd'[j].out.ok
                         /\ cmd'[j].out.val = "timeout",
                      <<j, "op">> \in reqs', <<j, "op">> \notin used'.kept
               PROVE  FALSE
    BY Zenon DEF Withdrawn
  <2>0. used.kept \subseteq used'.kept
    BY <1>2, ClientMoves, Zenon
  <2>1. CASE j # k
    <3>1. cmd'[j] = cmd[j]
      BY <1>2, <2>1, ClientMoves, ZenonT(60)
    <3>2. reqs' \subseteq reqs \cup {<<k, "identity">>, <<k, "op">>}
      <4>1. \/ reqs' = reqs \cup {<<k, "identity">>} \/ reqs' \subseteq reqs
            \/ reqs' \subseteq reqs \cup {<<k, "op">>}
        BY <1>2, ClientMoves, Zenon
      <4> QED
        BY <4>1, Zenon
    <3>3. <<j, "op">> \in reqs
      BY <2>1, <3>2, Zenon
    <3> QED
      BY <2>0, <3>1, <3>3, Zenon DEF Withdrawn
  <2>2. CASE j = k
    <3>1. CASE cmd'[k].phase = "identity" /\ cmd[k].phase = "idle"
               /\ reqs' = reqs \cup {<<k, "identity">>}
      BY <2>0, <2>2, <3>1, Zenon DEF Withdrawn
    <3>2. CASE /\ cmd'[k].out = Err("timeout") /\ cmd[k].phase \in {"identity", "op"}
               /\ reqs' \subseteq reqs
               /\ \/ <<k, cmd[k].phase>> \notin reqs'
                  \/ <<k, cmd[k].phase>> \in used'.kept
      BY <2>0, <2>2, <3>2, Zenon DEF Withdrawn
    <3>3. CASE <<k, "op">> \notin reqs' \/ <<k, "op">> \in used'.kept
      BY <2>2, <3>3, Zenon
    <3>4. CASE /\ cmd'[k].phase = "over"
               /\ cmd'[k].out \in {Err("identity_mismatch"), Err("killed"), Err("unsent")}
      BY <2>2, <3>4 DEF Err
    <3>5. CASE cmd'[k].phase = "op"
      BY <2>2, <3>5, Zenon
    <3> QED
      BY <1>2, <3>1, <3>2, <3>3, <3>4, <3>5, ClientMoves, ZenonT(60)
  <2> QED
    BY <2>1, <2>2, Zenon
<1> QED
  BY <1>1, <1>2, Zenon

-----------------------------------------------------------------------------
(* The theorems. *)

\* Everything the theorems need, preserved by every step.
SafeInv ==
    /\ Memory /\ Outside /\ LoopInv /\ PinAgrees /\ WindowInv /\ AnswerInv
    /\ AnswerFromOwnRun /\ Withdrawn

LEMMA Invariance == Spec => []SafeInv
<1>1. Init => SafeInv
  <2> SUFFICES ASSUME Init PROVE SafeInv
    BY Zenon
  <2>1. Memory /\ Outside /\ LoopInv
    BY InitType, Zenon
  <2>2. signer.up = FALSE /\ signer.serving = {} /\ signer.pc = "rest"
    BY Zenon DEF Init, Down
  <2>3. PinAgrees /\ WindowInv
    BY <2>2, Zenon DEF PinAgrees, WindowInv
  <2>4. AnswerInv
    BY <2>2, Zenon DEF AnswerInv, Init, Requests
  <2>5. AnswerFromOwnRun /\ Withdrawn
    BY Zenon DEF AnswerFromOwnRun, Withdrawn, Init, Idle
  <2> QED
    BY <2>1, <2>3, <2>4, <2>5, Zenon DEF SafeInv
<1>2. SafeInv /\ [Next]_vars => SafeInv'
  BY NextMemory, NextOutside, NextPin, NextWindow, NextAnswer, NextOwnRun, NextWithdrawn, Zenon
     DEF SafeInv
<1> QED
  BY <1>1, <1>2, PTL DEF Spec

\* Every value the daemon, the containers, the folders and the key store hold
\* stays of its type, the guard's window never longer than Window
\* (ReplayGuard::check_and_record), the store never holding a label that names
\* no PRSN key (Handler::dispatch).
THEOREM TypeCorrect == Spec => []TypeOK
<1>1. SafeInv => TypeOK
  BY ZenonT(60) DEF SafeInv, Memory, Outside, RespsType, CmdType, TypeOK
<1> QED
  BY <1>1, Invariance, PTL

\* Whatever the order of first keygens, failed writes, stops, restarts,
\* evictions and removals, on any number of channels: a channel whose pin has
\* reached its file is served as that handle until it is removed
\* (ChannelState::handle, persist, ChannelState::load at start).
THEOREM PinKept == Spec => PinLasts
<1> DEFINE Lasts ==
      \A c \in Channels :
        pinFile[c] # NoHandle /\ registry'[c] # 0 =>
          /\ pinFile'[c] = pinFile[c]
          /\ c \in signer'.serving => signer'.pin[c] = pinFile[c]
<1>1. SafeInv /\ SafeInv' /\ [Next]_vars => Lasts
  <2> SUFFICES ASSUME SafeInv, SafeInv', [Next]_vars, NEW c \in Channels,
                      pinFile[c] # NoHandle, registry'[c] # 0
               PROVE  /\ pinFile'[c] = pinFile[c]
                      /\ c \in signer'.serving => signer'.pin[c] = pinFile[c]
    BY Zenon
  <2>0. Memory /\ Outside /\ LoopInv /\ PinAgrees /\ PinAgrees'
    BY Zenon DEF SafeInv
  <2>1. pinFile'[c] = pinFile[c]
    <3>1. CASE UNCHANGED pinFile
      BY <3>1, Zenon
    <3>2. ASSUME NEW d \in Channels, pinFile' = [pinFile EXCEPT ![d] = NoHandle],
                 registry'[d] = 0
          PROVE  pinFile'[c] = pinFile[c]
      BY <2>0, <3>2, Zenon DEF Outside
    <3>3. CASE /\ PersistPin
               /\ pinFile' = [pinFile EXCEPT ![signer.ch] = signer.pin[signer.ch]]
      <4>1. signer.ch \in signer.serving
        BY <2>0, <3>3, Zenon DEF PersistPin, LoopInv
      <4> QED
        BY <2>0, <3>3, <4>1, Zenon DEF PinAgrees, Outside
    <3> QED
      BY <2>0, <3>1, <3>2, <3>3, PinFileSteps, Zenon
  <2> QED
    BY <2>0, <2>1, Zenon DEF PinAgrees
<1> QED
  BY <1>1, Invariance, PTL DEF Spec, PinLasts

\* What a command reports is what a run of its own operation returned, also
\* when the folder holds leftovers of clients that were killed
\* (await_response, open_response).
THEOREM OwnAnswer == Spec => []AnswerFromOwnRun
<1>1. SafeInv => AnswerFromOwnRun
  BY Zenon DEF SafeInv
<1> QED
  BY <1>1, Invariance, PTL

\* For every length of the window: a request runs again in one life of the
\* daemon only after Window other requests of its channel
\* (ReplayGuard::check_and_record).
THEOREM ReplayGuarded == Spec => ReplayWindow
<1>1. SafeInv /\ [Next]_vars => [Runs(signer.req) => age[signer.req] \notin 1 .. Window]_vars
  <2> SUFFICES ASSUME SafeInv, [Next]_vars, Runs(signer.req),
                      age[signer.req] \in 1 .. Window
               PROVE  FALSE
    BY Zenon
  <2>0. Memory /\ Outside /\ LoopInv /\ WindowInv
    BY Zenon DEF SafeInv
  <2>1. PICK locked \in BOOLEAN : Process(locked)
    <3>1. signer.pc = "read" /\ signer'.pc \in {"pinning", "ran"}
      BY Zenon DEF Runs
    <3> QED
      BY <2>0, <3>1, NextMoves, StartType, Zenon DEF Moves
  <2>2. /\ signer.up /\ signer.req \in Requests /\ signer.ch \in Channels
        /\ ChannelOf(signer.req) = signer.ch
        /\ ~Seen(signer.window[signer.ch], signer.req)
    BY <2>0, <2>1, ProcessMemory, Zenon
  <2> DEFINE w == signer.window[signer.ch]
  <2> DEFINE n == age[signer.req]
  <2>3. w \in Seq(Requests)
    BY <2>0, <2>2, Zenon DEF Memory
  <2>4. n <= Len(w) /\ w[Len(w) - n + 1] = signer.req
    BY <2>0, <2>2, Zenon DEF WindowInv
  <2>5. Len(w) - n + 1 \in DOMAIN w
    BY <2>3, <2>4, HostChannelAssumption
  <2> QED
    BY <2>2, <2>4, <2>5, Zenon DEF Seen
<1> QED
  BY <1>1, Invariance, PTL DEF Spec, ReplayWindow

\* A command that timed out has withdrawn its request: the daemon runs the
\* operation later only if it had read the file already or the file could not
\* be removed (the clean-up of await_response, poll_once).
THEOREM TimedOutWithdrawn == Spec => TimedOutNotRunLater
<1> DEFINE Late ==
      \A k \in Cmds :
        Runs(<<k, "op">>) /\ cmd[k].phase = "over" /\ ~cmd[k].out.ok
        /\ cmd[k].out.val = "timeout" =>
          <<k, "op">> \notin reqs \/ <<k, "op">> \in used.kept
<1>1. SafeInv => Late
  BY Zenon DEF SafeInv, Withdrawn
<1> QED
  BY <1>1, Invariance, PTL DEF TimedOutNotRunLater
=============================================================================
