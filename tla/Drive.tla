-------------------------------- MODULE Drive -------------------------------
(***************************************************************************)
(* The commands that change the shared drive, of several processes and     *)
(* accounts at once: create, rename, move and delete; upload as far as the *)
(* wraps of the file key go; invite, accept, cancel, remove, leave; and    *)
(* the lists.  Each ends in one write; a write whose answer is lost is     *)
(* sent again as it was (http.rs signed_call).                             *)
(***************************************************************************)
EXTENDS Resolver

CONSTANTS
    Guardian,       \* the human account every PRSN's share folders include
    NewId           \* process -> the id it draws for what it creates

vars == <<driveVars, logVars>>

-----------------------------------------------------------------------------
(* The server's rules. *)

Locked(root) == \E i \in DOMAIN invs : invs[i].live /\ invs[i].root = root
Writes(a, f) == Sees(a, f) /\ ~Locked(folders[f].root)

RECURSIVE Tree(_)
Tree(f) == {f} \cup UNION {Tree(x) : x \in SubFolders(f)}
FilesBelow(f) == {x \in DOMAIN files : files[x].in \in Tree(f)}

Without(fn, S) == [x \in DOMAIN fn \ S |-> fn[x]]

\* The other processes see the tree move under them; moved are the files that
\* moved or appeared.  calm and stirred only record that for the properties.
Ruffled(q, moved) ==
    IF run[q] = Settle(cmd[q], Fresh) THEN run[q]
    ELSE [run[q] EXCEPT
            !.calm = FALSE,
            !.stirred = IF cmd[q].kind = "invite" /\ run[q].pc # "done" THEN @ \cup moved ELSE @]

\* The server did what p asked, or refused; p hears of it and goes on as after,
\* or its answer is lost and it asks again.
Answer(p, ok, moved, after) ==
    \/ /\ run' = [q \in Procs |->
            IF q = p THEN IF ok THEN [after EXCEPT !.calm = FALSE] ELSE Done(run[p], "refused")
            ELSE IF ok THEN Ruffled(q, moved) ELSE run[q]]
       /\ UNCHANGED losses
    \/ /\ ok /\ losses > 0
       /\ losses' = losses - 1
       /\ run' = [q \in Procs |-> IF q = p THEN [run[p] EXCEPT !.calm = FALSE] ELSE Ruffled(q, moved)]

Ends(p) == Done(run[p], "ok")

Sends(p, kind) == run[p].pc = "send" /\ cmd[p].kind = kind
Target(p, i) == run[p].ids[i].id

-----------------------------------------------------------------------------
(* What a command asks for before it writes. *)

\* /v1/me, and a PRSN's guardian, whose keys are verified.
AskMe(p) ==
    LET self == SelfWrapKeys(cmd[p].by)
        own == WrapMetadataKeyFor(self.keys, MetaKey(NewId[p]), NewId[p])
        guarded == cmd[p].kind = "share_create" /\ IsPrsn(cmd[p].by)
    IN  /\ run[p].pc = "me"
        /\ \E b \in IF guarded THEN Bundles(Guardian) ELSE {Offered(cmd[p].by, self.keys.ec)} :
            LET v == VerifiedWrapKeys(b, None)
                wraps == IF guarded THEN cmd[p].by :> own[1] @@ Guardian :> WrapMetadataKeyFor(v.keys, MetaKey(NewId[p]), NewId[p])[1]
                         ELSE cmd[p].by :> own[1]
            IN  Goes(p, IF (guarded /\ ~v.ok) \/ ~self.ok THEN Done(run[p], "violation")
                        ELSE [run[p] EXCEPT !.pc = "send", !.keys = <<wraps>>])
        /\ UNCHANGED <<cmd, serverVars, losses, excused, logVars>>

\* The recipient the user named: shown, or invited.
Named(p, kind, after(_)) ==
    /\ run[p].pc = "keys" /\ cmd[p].kind = kind
    /\ \E b \in Bundles(cmd[p].to) :
        LET v == VerifiedWrapKeys(b, <<cmd[p].to>>) IN
        Goes(p, IF ~v.ok THEN Done(run[p], "violation") ELSE after(v.keys))
    /\ UNCHANGED <<cmd, serverVars, losses, excused, logVars>>

Recipient(p) == Named(p, "recipient", LAMBDA keys : Done(run[p], "ok"))
ResolveRecipientPubkey(p) ==
    Named(p, "invite", LAMBDA keys : [run[p] EXCEPT !.pc = "metakey", !.keys = <<keys>>])

\* The metadata key of the root, from the resolver's cache where the command
\* keeps its resolver.
AskMetadataKey(p) ==
    LET r == run[p]
        c == cmd[p]
        root == r.ids[1].root
        cached == c.kind \in {"rename", "invite"} /\ root \in r.mk
    IN  /\ r.pc = "metakey"
        /\ Goes(p, IF ~cached /\ ~MetadataKey(c.by, root) THEN Done(r, "refused")
                   ELSE CASE c.kind = "invite" ->
                                Listing([r EXCEPT !.mk = {root}], "walk", "files", r.ids[1].id, root)
                          [] c.kind = "upload" -> [r EXCEPT !.pc = "members"]
                          [] OTHER -> [r EXCEPT !.pc = "send", !.mk = {}])
        /\ UNCHANGED <<cmd, serverVars, losses, excused, logVars>>

\* The file key of one walked file, opened and wrapped to the recipient; a file
\* met twice is wrapped twice.
RewrapNext(p) ==
    LET r == run[p]
        f == Head(r.walked)
        mine == IF f \in DOMAIN files /\ cmd[p].by \in DOMAIN files[f].deks
                THEN RewrapDekTo(Pair(cmd[p].by), files[f].deks[cmd[p].by], r.keys[1]) ELSE <<>>
    IN  /\ r.pc = "dek"
        /\ Goes(p, IF r.walked = <<>> THEN [r EXCEPT !.pc = "send"]
                   ELSE IF mine = <<>> THEN Done(r, "refused")
                   ELSE [r EXCEPT !.deks = f :> mine[1] @@ @, !.walked = Tail(@)])
        /\ UNCHANGED <<cmd, serverVars, losses, excused, logVars>>

\* The wraps of a new file's key: the uploader's own, then every member's.
WrapForMembers(p) ==
    LET r == run[p]
        root == r.ids[1].root
        others == Members(root) \ {cmd[p].by}
        self == SelfWrapKeys(cmd[p].by)
    IN  /\ r.pc = "members"
        /\ IF root \notin DOMAIN folders \/ cmd[p].by \notin Members(root) THEN Goes(p, Done(r, "refused"))
           ELSE \E bs \in [others -> UNION {Bundles(a) : a \in others}] :
            LET v == [a \in others |-> VerifiedWrapKeys(bs[a], None)] IN
            /\ \A a \in others : bs[a] \in Bundles(a)
            /\ Goes(p, IF ~self.ok \/ \E a \in others : ~v[a].ok THEN Done(r, "violation")
                       ELSE [r EXCEPT !.pc = "send",
                                !.deks = cmd[p].by :> WrapDekFor(self.keys, Dek(NewId[p]))[1] @@
                                         [a \in others |-> WrapDekFor(v[a].keys, Dek(NewId[p]))[1]]])
        /\ UNCHANGED <<cmd, serverVars, losses, excused, logVars>>

-----------------------------------------------------------------------------
(* The writes. *)

ShareCreate(p) ==
    LET id == NewId[p]
        c == cmd[p]
        ok == id \notin DOMAIN folders
        wraps == run[p].keys[1]
    IN  /\ Sends(p, "share_create")
        /\ IF ok
           THEN /\ folders' = id :> [up |-> Top, root |-> id, owner |-> c.by,
                                     name |-> EncryptName(id, id, c.name)] @@ folders
                /\ mkw' = id :> wraps @@ mkw
                /\ recips' = id :> (DOMAIN wraps \ {c.by}) @@ recips
           ELSE UNCHANGED <<folders, mkw, recips>>
        /\ UNCHANGED <<cmd, files, invs, excused, logVars>>
        /\ Answer(p, ok, {}, Ends(p))

\* A folder inside a shared tree; or, for an account that is not a PRSN, a
\* private one at the top with a metadata key of its own.
FolderCreate(p) ==
    LET id == NewId[p]
        c == cmd[p]
        up == run[p].ids[1]
        ok == /\ id \notin DOMAIN folders
              /\ IF up.id = Top THEN ~IsPrsn(c.by) ELSE Writes(c.by, up.id)
    IN  /\ Sends(p, "folder_create")
        /\ IF ~ok THEN UNCHANGED <<folders, mkw, recips>>
           ELSE IF up.id = Top
           THEN /\ folders' = id :> [up |-> Top, root |-> id, owner |-> c.by,
                                     name |-> EncryptName(id, id, c.name)] @@ folders
                /\ mkw' = id :> run[p].keys[1] @@ mkw
                /\ recips' = id :> {} @@ recips
           ELSE /\ folders' = id :> [up |-> up.id, root |-> folders[up.id].root, owner |-> c.by,
                                     name |-> EncryptName(up.root, id, c.name)] @@ folders
                /\ UNCHANGED <<mkw, recips>>
        /\ UNCHANGED <<cmd, files, invs, excused, logVars>>
        /\ Answer(p, ok, {}, Ends(p))

\* Mutant: the new name is bound to the entry itself instead of to its root.
NewNameUnderItself(root, id, name) == EncryptName(id, id, name)
NewName(root, id, name) == EncryptName(root, id, name)

FolderRename(p) ==
    LET x == run[p].ids[1]
        ok == Writes(cmd[p].by, x.id)
    IN  /\ Sends(p, "rename") /\ ~cmd[p].file
        /\ folders' = IF ok THEN [folders EXCEPT ![x.id].name = NewName(x.root, x.id, cmd[p].name)] ELSE folders
        /\ UNCHANGED <<cmd, files, mkw, recips, invs, excused, logVars>>
        /\ Answer(p, ok, {}, Ends(p))

FileRename(p) ==
    LET x == run[p].ids[1]
        ok == x.id \in DOMAIN files /\ Writes(cmd[p].by, files[x.id].in)
    IN  /\ Sends(p, "rename") /\ cmd[p].file
        /\ files' = IF ok THEN [files EXCEPT ![x.id].name = NewName(x.root, x.id, cmd[p].name)] ELSE files
        /\ UNCHANGED <<cmd, folders, mkw, recips, invs, excused, logVars>>
        /\ Answer(p, ok, {}, Ends(p))

\* Within one root, and not below itself.
FolderMove(p) ==
    LET f == Target(p, 1)
        to == Target(p, 2)
        ok == /\ Writes(cmd[p].by, f) /\ Writes(cmd[p].by, to)
              /\ folders[f].root = folders[to].root
              /\ f # folders[f].root /\ to \notin Tree(f)
    IN  /\ Sends(p, "move") /\ ~cmd[p].file
        /\ folders' = IF ok THEN [folders EXCEPT ![f].up = to] ELSE folders
        /\ UNCHANGED <<cmd, files, mkw, recips, invs, excused, logVars>>
        /\ Answer(p, ok, IF ok THEN FilesBelow(f) ELSE {}, Ends(p))

FileMove(p) ==
    LET f == Target(p, 1)
        to == Target(p, 2)
        ok == /\ f \in DOMAIN files /\ Writes(cmd[p].by, files[f].in) /\ Writes(cmd[p].by, to)
              /\ folders[files[f].in].root = folders[to].root
    IN  /\ Sends(p, "move") /\ cmd[p].file
        /\ files' = IF ok THEN [files EXCEPT ![f].in = to] ELSE files
        /\ UNCHANGED <<cmd, folders, mkw, recips, invs, excused, logVars>>
        /\ Answer(p, ok, {f}, Ends(p))

\* One request for all targets, resolved before any is deleted.
DeleteTargets(p, ok, goneFolders, goneFiles) ==
    /\ IF ok
       THEN /\ files' = Without(files, goneFiles)
            /\ folders' = Without(folders, goneFolders)
            /\ mkw' = Without(mkw, goneFolders)
            /\ recips' = Without(recips, goneFolders)
       ELSE UNCHANGED <<files, folders, mkw, recips>>
    /\ UNCHANGED <<cmd, invs, excused, logVars>>
    /\ Answer(p, ok, {}, Ends(p))

Targets(p) == {run[p].ids[i].id : i \in DOMAIN run[p].ids}

FolderDelete(p) ==
    /\ Sends(p, "delete") /\ ~cmd[p].file
    /\ DeleteTargets(p, \A f \in Targets(p) : Writes(cmd[p].by, f),
                     UNION {Tree(f) : f \in Targets(p)}, UNION {FilesBelow(f) : f \in Targets(p)})

FileDelete(p) ==
    /\ Sends(p, "delete") /\ cmd[p].file
    /\ DeleteTargets(p, \A f \in Targets(p) : f \in DOMAIN files /\ Writes(cmd[p].by, files[f].in),
                     {}, Targets(p))

\* An upload begins: the wraps must be for exactly the members and the uploader.
Initiate(p) ==
    LET id == NewId[p]
        r == run[p]
        ok == /\ id \notin DOMAIN files /\ Writes(cmd[p].by, r.ids[1].id)
              /\ DOMAIN r.deks = Members(folders[r.ids[1].id].root)
    IN  /\ Sends(p, "upload")
        /\ files' = IF ok THEN id :> [in |-> r.ids[1].id, name |-> EncryptName(r.ids[1].root, id, r.name),
                                      deks |-> r.deks, listed |-> FALSE] @@ files ELSE files
        /\ UNCHANGED <<cmd, folders, mkw, recips, invs, excused, logVars>>
        /\ Answer(p, ok, {}, [Done(r, "none") EXCEPT !.pc = "parts", !.out = "none"])

\* The parts are in the bucket and the upload completes; what the server makes
\* of it under a pending invitation is left open.
Complete(p) ==
    LET id == NewId[p] IN
    /\ run[p].pc = "parts"
    /\ \E ok \in BOOLEAN :
        /\ ok => id \in DOMAIN files
        /\ ~ok => id \notin DOMAIN files \/ Locked(folders[files[id].in].root)
        /\ files' = IF ok THEN [files EXCEPT ![id].listed = TRUE] ELSE files
        /\ UNCHANGED <<cmd, folders, mkw, recips, invs, excused, logVars>>
        /\ Answer(p, ok, {id}, Ends(p))

-----------------------------------------------------------------------------
(* Sharing. *)

\* The wraps made for the recipient go up as one invitation; a second sending
\* makes a second one, and only the last answered link is known.
ShareInvite(p) ==
    LET r == run[p]
        root == r.ids[1].id
        c == cmd[p]
        ok == /\ root \in DOMAIN folders /\ folders[root].up = Top
              /\ Owner(root) = c.by /\ c.to \notin Members(root)
        flying == {f \in FilesBelow(root) : ~files[f].listed}
        inv == [root |-> root, to |-> c.to, mk |-> WrapMetadataKeyFor(r.keys[1], MetaKey(r.ids[1].root), r.ids[1].root)[1],
                deks |-> r.deks, live |-> TRUE, shown |-> FALSE, excuse |-> r.stirred \cup flying]
    IN  /\ Sends(p, "invite")
        /\ UNCHANGED <<cmd, folders, files, mkw, recips, excused, logVars>>
        /\ Answer(p, ok, {}, Ends(p))
        /\ invs' = IF ok THEN Append(invs, [inv EXCEPT !.shown = run'[p].pc = "done"]) ELSE invs

\* The staged wraps take effect in one transaction; the link works once.
ShareAccept(p) ==
    LET a == cmd[p].by IN
    /\ run[p].pc = "wait" /\ cmd[p].kind = "accept"
    /\ \E i \in DOMAIN invs :
        LET inv == invs[i]
            ok == inv.live
        IN  /\ inv.shown /\ inv.to = a
            /\ IF ok
               THEN /\ invs' = [invs EXCEPT ![i].live = FALSE]
                    /\ recips' = [recips EXCEPT ![inv.root] = @ \cup {a}]
                    /\ mkw' = [mkw EXCEPT ![inv.root] = a :> inv.mk @@ @]
                    /\ files' = [f \in DOMAIN files |->
                            IF f \in DOMAIN inv.deks THEN [files[f] EXCEPT !.deks = a :> inv.deks[f] @@ @]
                            ELSE files[f]]
                    /\ excused' = excused \cup {<<a, f>> : f \in inv.excuse}
               ELSE UNCHANGED <<invs, recips, mkw, files, excused>>
            /\ UNCHANGED <<cmd, folders, logVars>>
            /\ Answer(p, ok, {}, Ends(p))

SharePreview(p) ==
    /\ run[p].pc = "wait" /\ cmd[p].kind = "preview"
    /\ \E i \in DOMAIN invs :
        /\ invs[i].shown /\ invs[i].to = cmd[p].by
        /\ Goes(p, Done(run[p], IF invs[i].live THEN "ok" ELSE "refused"))
    /\ UNCHANGED <<cmd, serverVars, losses, excused, logVars>>

\* Any pending invitation can be cancelled, its link known or not.
ShareCancelInvite(p) ==
    /\ run[p].pc = "wait" /\ cmd[p].kind = "cancel"
    /\ \E i \in DOMAIN invs :
        LET ok == invs[i].live /\ invs[i].root = Target(p, 1) /\ Owner(invs[i].root) = cmd[p].by IN
        /\ invs' = IF ok THEN [invs EXCEPT ![i].live = FALSE] ELSE invs
        /\ UNCHANGED <<cmd, folders, files, mkw, recips, excused, logVars>>
        /\ Answer(p, ok, {}, Ends(p))

\* A member goes, and with it its wraps; never the guardian.
Departs(a, root, p, ok) ==
    /\ IF ok
       THEN /\ recips' = [recips EXCEPT ![root] = @ \ {a}]
            /\ mkw' = [mkw EXCEPT ![root] = Without(@, {a})]
            /\ files' = [f \in DOMAIN files |->
                    IF folders[files[f].in].root = root THEN [files[f] EXCEPT !.deks = Without(@, {a})] ELSE files[f]]
            /\ excused' = {x \in excused : x[1] # a}
       ELSE UNCHANGED <<recips, mkw, files, excused>>
    /\ UNCHANGED <<cmd, folders, invs, logVars>>
    /\ Answer(p, ok, {}, Ends(p))

Departable(a, root) == root \in DOMAIN recips /\ a \in recips[root] /\ a # Guardian

ShareRemove(p) ==
    /\ Sends(p, "remove")
    /\ Departs(cmd[p].to, Target(p, 1), p,
               Departable(cmd[p].to, Target(p, 1)) /\ Owner(Target(p, 1)) = cmd[p].by)

ShareLeave(p) ==
    /\ Sends(p, "leave")
    /\ Departs(cmd[p].by, Target(p, 1), p, Departable(cmd[p].by, Target(p, 1)))

\* The recipients, or the invitations, of a folder: read, nothing written.
Reads(p, kind) ==
    /\ run[p].pc = "read" /\ cmd[p].kind = kind
    /\ Goes(p, Done(run[p], IF Sees(cmd[p].by, Target(p, 1)) THEN "ok" ELSE "refused"))
    /\ UNCHANGED <<cmd, serverVars, losses, excused, logVars>>

ShareRecipients(p) == Reads(p, "recipients")
ShareInvitations(p) == Reads(p, "invitations")

-----------------------------------------------------------------------------
\* cast: what the processes run, with what log and what fault of the directory;
\* tree: what the server holds.
DriveInit(cast, tree) ==
    /\ LogInit(cast, cast.log)
    /\ cmd = cast.cmd
    /\ folders = tree.folders /\ files = tree.files
    /\ mkw = tree.mkw /\ recips = tree.recips /\ invs = <<>>
    /\ run = [p \in Procs |-> Settle(cmd[p], Fresh)]
    /\ losses = cast.losses /\ excused = {}

ResolverStep(p) == FetchPage(p) \/ ListSharedFolders(p) \/ DecryptNames(p)
Asks(p) == AskMe(p) \/ Recipient(p) \/ ResolveRecipientPubkey(p) \/ AskMetadataKey(p) \/ RewrapNext(p)
           \/ WrapForMembers(p) \/ SharePreview(p) \/ ShareRecipients(p) \/ ShareInvitations(p)
Changes(p) ==
    \/ ShareCreate(p) \/ FolderCreate(p) \/ FolderRename(p) \/ FileRename(p)
    \/ FolderMove(p) \/ FileMove(p) \/ FolderDelete(p) \/ FileDelete(p) \/ Initiate(p) \/ Complete(p)
    \/ ShareInvite(p) \/ ShareAccept(p) \/ ShareCancelInvite(p) \/ ShareRemove(p) \/ ShareLeave(p)

CommandStep == \E p \in Procs : ResolverStep(p) \/ Asks(p) \/ Changes(p)

LogStep == (AuditStep \/ LogServer) /\ UNCHANGED driveVars

Next == CommandStep \/ LogStep

-----------------------------------------------------------------------------
(* Properties. *)

\* The tree is a forest: every folder lies under one of its own root, every file
\* in a folder; each root has its recipients and its wraps; a process that
\* resolves is at a segment of a target of its command.
TypeOK ==
    /\ \A f \in DOMAIN folders :
        IF folders[f].up = Top THEN folders[f].root = f
        ELSE folders[f].up \in DOMAIN folders /\ folders[f].root = folders[folders[f].up].root
    /\ \A f \in DOMAIN files : files[f].in \in DOMAIN folders /\ files[f].listed \in BOOLEAN
    /\ DOMAIN mkw = {folders[f].root : f \in DOMAIN folders} /\ DOMAIN recips = DOMAIN mkw
    /\ \A r \in DOMAIN mkw : \A a \in DOMAIN mkw[r] : mkw[r][a].alg \in Algs
    /\ \A p \in Procs :
        /\ run[p].pc \in {"page", "names", "shared", "me", "keys", "metakey", "dek", "members",
                          "send", "parts", "wait", "read", "done"}
        /\ run[p].doing = "resolve" /\ run[p].pc # "done" =>
            /\ Len(run[p].ids) < Len(cmd[p].targets)
            /\ run[p].seg <= Len(cmd[p].targets[Len(run[p].ids) + 1].path)

\* Whoever shares a folder can open it: the owner and every recipient hold the
\* metadata key and the key of every listed file, however invitations, uploads,
\* moves, departures and repeated requests interleave (commands.rs share_invite,
\* upload).  Excused are only the files that moved or appeared while the
\* invitation was prepared, or were still in flight when it was sent; and a
\* server that passes off keys is the subject of SubstitutionVisible.
RecipientsOpen ==
    (Strange(log) = {} /\ fault # "rewrote") =>
    \A root \in DOMAIN recips : \A a \in Members(root) :
        /\ MetadataKey(a, root)
        /\ \A f \in DOMAIN files :
            (files[f].listed /\ folders[files[f].in].root = root) =>
                \/ a \in DOMAIN files[f].deks /\ OpensDek(a, files[f].deks[a], f)
                \/ <<a, f>> \in excused

\* The roots that the user gave, with an id, for a command that names entry f.
GivenRoots(f) ==
    {cmd[p].targets[1].root : p \in {q \in Procs :
        /\ cmd[q].kind \in {"rename", "folder_create", "upload"} /\ cmd[q].targets[1].path = <<>>
        /\ f = IF cmd[q].kind = "rename" THEN cmd[q].targets[1].id ELSE NewId[q]}}

\* Every name is bound to its entry and to the root it lies under, so that the
\* holders of that root's key can read it, after any interleaving of creates,
\* renames, moves, uploads and repeated requests.  The one exception is a name
\* written for an id with the --root-folder-id of another tree: the commands take
\* the flag as given, and the name is bound to that root (commands.rs
\* resolve_folder_target, folder_rename, file_rename, folder_create).
NamesReadable ==
    /\ \A f \in DOMAIN folders :
        \E root \in {folders[f].root} \cup GivenRoots(f) : DecryptEntryName(root, f, folders[f].name)
    /\ \A f \in DOMAIN files :
        \/ files[f].name = Garbled(f)
        \/ \E root \in {folders[files[f].in].root} \cup GivenRoots(f) :
                DecryptEntryName(root, f, files[f].name)

\* The accounts something is wrapped for that they cannot open.
ShutOut ==
    {a \in Accounts :
        \/ \E r \in DOMAIN mkw : a \in DOMAIN mkw[r] /\ ~OpensMetaKey(a, mkw[r][a], r)
        \/ \E f \in DOMAIN files : a \in DOMAIN files[f].deks /\ ~OpensDek(a, files[f].deks[a], f)
        \/ \E i \in DOMAIN invs : invs[i].to = a /\ ~OpensMetaKey(a, invs[i].mk, invs[i].root)}

StrangeUnder(s, a) == {x \in Strange(s) : x.under = a}

\* From epoch 2, a wrap to a key its account does not hold, human or PRSN, is
\* made only for a key logged under that account's own index; and the account's
\* watch over a published log with such a key never ends well, whatever the
\* server leaves out of a page, masks or rewrites meanwhile (commands.rs
\* check_receipt_index, anchors.rs owner_watch).  That the log holds what the
\* server signs receipts for is the server's promise: no writer checks inclusion.
SubstitutionVisible ==
    epoch = 2 =>
    /\ fault # "rewrote" => \A a \in ShutOut : StrangeUnder(log, a) # {}
    /\ \A c \in DOMAIN audit :
        (c.kind = "watch" /\ audit[c].pc = "over" /\ StrangeUnder(audit[c].lined, c.by) # {}) =>
            audit[c].result \in {"foreign_key", "violation"}

Readable(a, x) == MetadataKey(a, x.root) /\ DecryptEntryName(x.root, x.id, x.env)

\* What a path stands for, read off the tree at once.
RECURSIVE Denoted(_, _, _)
Denoted(a, path, file) ==
    LET within == IF Len(path) = 1 THEN OwnTop(a) \cup SharedWithMe(a)
                  ELSE UNION {IF file THEN FileRows(FilesIn(f), folders[f].root) ELSE FolderRows(SubFolders(f)) :
                                f \in Denoted(a, Front(path), FALSE)}
    IN  {x.id : x \in {y \in within : Readable(a, y) /\ y.env.plain = Last(path)}}

\* A command given a path acts on the only entry the path stands for, or says
\* that there is none or that there are several, when nothing was written while
\* it resolved; own and shared folders, unreadable names and pages
\* notwithstanding (resolve.rs match_one).  When the read of a metadata key
\* failed, the entries under it are passed over: the command may then miss one,
\* or take one of several, but still none that the path does not stand for.
PathMeansOne ==
    \A p \in Procs :
        LET r == run[p]
            c == cmd[p]
            Count(t, n) == Cardinality(Denoted(c.by, SubSeq(t.path, 1, n), t.file /\ n = Len(t.path)))
            paths == {c.targets[i] : i \in {j \in DOMAIN c.targets : c.targets[j].path # <<>>}}
        IN  r.calm =>
            /\ \A i \in DOMAIN r.ids : c.targets[i].path # <<>> =>
                LET meant == Denoted(c.by, c.targets[i].path, c.targets[i].file) IN
                r.ids[i].id \in meant /\ (meant = {r.ids[i].id} \/ r.blind)
            /\ r.out = "name_not_found" => r.blind \/ \E t \in paths : Count(t, Len(t.path)) = 0
            /\ r.out = "ambiguous_name" => \E t \in paths : \E n \in DOMAIN t.path : Count(t, n) > 1

=============================================================================
