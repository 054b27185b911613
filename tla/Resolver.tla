------------------------------ MODULE Resolver ------------------------------
(***************************************************************************)
(* Paths and listings (resolve.rs): names are readable only to who holds   *)
(* the metadata key of the root folder, so a path is resolved by listing,  *)
(* page by page, and decrypting, one segment after the other, while other  *)
(* processes change the tree.                                              *)
(*                                                                         *)
(* The server is the environment: it keeps folders, files, the wraps of    *)
(* the metadata keys and of the file keys, the recipients and the          *)
(* invitations, and serves its lists in the order of the ids.              *)
(***************************************************************************)
EXTENDS RecipientKeys

CONSTANTS
    Procs,          \* CLI processes, each one command
    PageSize        \* rows in one page of a list

VARIABLES
    cmd,            \* the command of each process
    folders,        \* id -> [up, root, owner, name]
    files,          \* id -> [in, name, deks (account -> wrap), listed]
    mkw,            \* root -> account -> wrap of its metadata key
    recips,         \* root -> recipients beside the owner
    invs,           \* invitations ever made
    run,            \* the processes
    losses,         \* answers that may still be lost, reads that may still fail
    excused         \* <<account, file>>: wraps no invitation could carry

serverVars == <<folders, files, mkw, recips, invs>>
driveVars == <<cmd, folders, files, mkw, recips, invs, run, losses, excused>>

Top == 0

-----------------------------------------------------------------------------
(* Names. *)

\* The metadata key of a root is named by the root; an envelope is bound to the
\* key, the root and the entry it was made for.
EncryptName(root, target, name) == [key |-> root, root |-> root, target |-> target, plain |-> name]
Garbled(target) == [key |-> Top, root |-> Top, target |-> target, plain |-> "lost"]
DecryptEntryName(root, target, env) ==
    env.key = root /\ env.root = root /\ env.target = target

\* Whether account a obtains the metadata key of a root.
MetadataKey(a, root) ==
    /\ root \in DOMAIN mkw
    /\ a \in DOMAIN mkw[root]
    /\ OpensMetaKey(a, mkw[root][a], root)

\* The name a row shows: readable or not, never an error.
ResolveEntryName(mk, root, target, env) ==
    root \in mk /\ DecryptEntryName(root, target, env)

-----------------------------------------------------------------------------
(* The server's lists. *)

Owner(root) == folders[root].owner
Members(root) == {Owner(root)} \cup recips[root]
Sees(a, f) == f \in DOMAIN folders /\ a \in Members(folders[f].root)

SubFolders(f) == {x \in DOMAIN folders : folders[x].up = f}
FilesIn(f) == {x \in DOMAIN files : files[x].in = f /\ files[x].listed}

FolderRows(S) == {[id |-> x, root |-> folders[x].root, env |-> folders[x].name] : x \in S}
FileRows(S, root) == {[id |-> x, root |-> root, env |-> files[x].name] : x \in S}

OwnTop(a) == FolderRows({x \in SubFolders(Top) : Owner(x) = a})
SharedWithMe(a) == FolderRows({x \in SubFolders(Top) : a \in recips[x]})

\* The rows of one folder: its files or its subfolders.
RowsOf(a, want, at, root) ==
    IF at = Top THEN OwnTop(a)
    ELSE IF want = "files" THEN FileRows(FilesIn(at), root) ELSE FolderRows(SubFolders(at))

-----------------------------------------------------------------------------
(* Pages. *)

\* One page after the cursor and the cursor of the next, Top when there is none.
FetchPaginated(rows, cursor) ==
    LET later == {x \in rows : x.id > cursor}
        page == {x \in later : Cardinality({y \in later : y.id < x.id}) < PageSize}
    IN  [rows |-> page,
         next |-> IF page = later THEN Top ELSE (CHOOSE x \in page : \A y \in page : y.id <= x.id).id]

-----------------------------------------------------------------------------
(* Processes. *)

\* A target is an id with the root the user gave, or a path (names from the
\* top) of a folder or of a file.
ById(id, root) == [path |-> <<>>, file |-> FALSE, id |-> id, root |-> root]
ByPath(path, file) == [path |-> path, file |-> file, id |-> Top, root |-> Top]

Fresh == [pc |-> "start", doing |-> "resolve", seg |-> 1, at |-> Top, root |-> Top,
          want |-> "folders", cursor |-> Top, rows |-> {}, named |-> {}, ids |-> <<>>, mk |-> {},
          queue |-> <<>>, walked |-> <<>>, deks |-> <<>>, keys |-> <<>>, name |-> "none",
          calm |-> TRUE, blind |-> FALSE, stirred |-> {}, out |-> "none"]

\* Nothing of a finished command matters but its outcome and what it listed.
Done(r, out) == [Fresh EXCEPT !.pc = "done", !.out = out, !.doing = r.doing, !.at = r.at,
                    !.want = r.want, !.named = IF r.doing = "list" THEN r.named ELSE {},
                    !.root = r.root, !.calm = r.calm, !.blind = r.blind]

\* The step a command takes once its targets are resolved.
FirstStep(c, ids) ==
    CASE c.kind = "share_create" -> "me"
      [] c.kind = "folder_create" -> IF ids[1].id = Top THEN "me" ELSE "metakey"
      [] c.kind = "rename" -> "metakey"
      [] c.kind \in {"invite", "recipient"} -> "keys"
      [] c.kind \in {"accept", "preview", "cancel"} -> "wait"
      [] c.kind \in {"recipients", "invitations"} -> "read"
      [] c.kind = "idle" -> "done"
      [] OTHER -> "send"

\* A list begins: of a folder's files or subfolders, under a root.
Listing(r, doing, want, at, root) ==
    [r EXCEPT !.pc = "page", !.doing = doing, !.want = want, !.at = at, !.root = root,
              !.cursor = Top, !.rows = {}, !.named = {}]

\* The commands that begin with a list.
FolderList(r) == Listing(r, "list", "folders", r.ids[1].id, r.ids[1].root)
FileList(r) == Listing(r, "list", "files", r.ids[1].id, r.ids[1].root)
ShareList(r) == [Listing(r, "list", "shared", Top, Top) EXCEPT !.pc = "shared"]
UploadTaken(r) == Listing(r, "taken", "files", r.ids[1].id, r.ids[1].root)

Settled(c, r) ==
    CASE c.kind = "folder_list" -> FolderList(r)
      [] c.kind = "file_list" -> FileList(r)
      [] c.kind = "share_list" -> ShareList(r)
      [] c.kind = "upload" -> UploadTaken(r)
      [] OTHER -> [r EXCEPT !.pc = FirstStep(c, r.ids), !.rows = {}, !.named = {}, !.doing = "act"]

\* A target found; the next one, an id taken as given or a path resolved from
\* the top; then the command itself.
Resolved(r, id, root) == [r EXCEPT !.ids = Append(@, [id |-> id, root |-> root])]

RECURSIVE Settle(_, _)
Settle(c, r) ==
    IF Len(r.ids) = Len(c.targets) THEN Settled(c, r)
    ELSE LET t == c.targets[Len(r.ids) + 1] IN
         IF t.path = <<>> THEN Settle(c, Resolved(r, t.id, t.root))
         ELSE [Listing(r, "resolve", "folders", Top, Top) EXCEPT !.seg = 1]

-----------------------------------------------------------------------------
(* Names and matches. *)

\* The next segment, among the folder's subfolders, or its files when it is the
\* last of a file's path.
Descended(r, x, want) == [Listing(r, "resolve", want, x.id, x.root) EXCEPT !.seg = r.seg + 1]
ResolveFile(t, r, x) == Descended(r, x, IF r.seg + 1 = Len(t.path) THEN "files" ELSE "folders")
ResolveFolderSegments(t, r, x) == Descended(r, x, "folders")

\* Mutant: the last segment is not known for the last.
PickedPastEnd(c, r, x) ==
    LET t == c.targets[Len(r.ids) + 1] IN
    IF r.seg > Len(t.path) THEN Settle(c, Resolved(r, x.id, x.root))
    ELSE IF t.file THEN ResolveFile(t, r, x) ELSE ResolveFolderSegments(t, r, x)

Picked(c, r, x) ==
    LET t == c.targets[Len(r.ids) + 1] IN
    IF r.seg = Len(t.path) THEN Settle(c, Resolved(r, x.id, x.root))
    ELSE IF t.file THEN ResolveFile(t, r, x) ELSE ResolveFolderSegments(t, r, x)

\* Mutant: the first entry with the name is taken, however many there are.
MatchFirst(c, r, named) ==
    LET seg == c.targets[Len(r.ids) + 1].path[r.seg]
        found == {x \in named : x.name = seg}
    IN  IF found = {} THEN Done(r, "name_not_found")
        ELSE Picked(c, r, CHOOSE x \in found : \A y \in found : x.id <= y.id)

\* The only readable entry with the segment's name, or an error.
MatchOne(c, r, named) ==
    LET seg == c.targets[Len(r.ids) + 1].path[r.seg]
        found == {x \in named : x.name = seg}
    IN  IF found = {} THEN Done(r, "name_not_found")
        ELSE IF Cardinality(found) > 1 THEN Done(r, "ambiguous_name")
        ELSE Picked(c, r, CHOOSE x \in found : TRUE)

\* The rows with the names that can be read: folders each under its own root,
\* files under the root of their folder, shared folders as the server lists them.
Shown(x, root, mk) ==
    [id |-> x.id, root |-> root,
     name |-> IF ResolveEntryName(mk, root, x.id, x.env) THEN x.env.plain ELSE "(unreadable)"]
ListFolders(rows, mk, unread) == {Shown(x, x.root, IF x \in unread THEN {} ELSE mk) : x \in rows}
ListFiles(rows, root, mk, unread) == {Shown(x, root, IF x \in unread THEN {} ELSE mk) : x \in rows}
ShareEntries(rows, mk, unread) == ListFolders(rows, mk, unread)

NamedRows(r, mk, unread) ==
    CASE r.want = "files" -> ListFiles(r.rows, r.root, mk, unread)
      [] r.want = "shared" -> ShareEntries(r.rows, mk, unread)
      [] OTHER -> ListFolders(r.rows, mk, unread)

\* A metadata key is asked for until it was once obtained: for each row of a
\* folder list in turn, and once for a whole list of files.  These are the rows
\* that failed reads can leave unreadable: all the files; or, of each root, the
\* first rows up to the one whose read succeeds.
Unread(r) ==
    IF r.want = "files" THEN {{}} \cup {U \in {r.rows} : r.root \notin r.mk /\ losses > 0}
    ELSE {U \in SUBSET {x \in r.rows : x.root \notin r.mk} :
            /\ Cardinality(U) <= losses
            /\ \A x \in U, y \in r.rows : y.root = x.root /\ y.id < x.id => y \in U}
FailedReads(r, unread) == IF r.want = "files" /\ unread # {} THEN 1 ELSE Cardinality(unread)
Legible(named) == {x \in named : x.name # "(unreadable)"}

\* The candidates for the one name the model uploads: x, x (1), x (2)...
NameWithNumber == <<"x", "x1", "x2", "x3">>

DedupeName(name, taken) ==
    IF name \notin taken THEN name
    ELSE LET n == CHOOSE n \in DOMAIN NameWithNumber :
                    /\ NameWithNumber[n] \notin taken
                    /\ \A k \in 1..(n - 1) : NameWithNumber[k] \in taken
         IN  NameWithNumber[n]

-----------------------------------------------------------------------------
(* The walk of an invitation (files_under): the stack's last folder, its files,
   then its subfolders onto the stack. *)

IdsInOrder(rows) == [i \in 1..Cardinality(rows) |->
                        (CHOOSE x \in rows : Cardinality({y \in rows : y.id < x.id}) = i - 1).id]

\* Mutant: the subfolders are left out.
FilesUnderTopOnly(r) ==
    IF r.want = "files" THEN Listing([r EXCEPT !.walked = @ \o IdsInOrder(r.rows)], "walk", "folders", r.at, r.root)
    ELSE [r EXCEPT !.pc = "dek", !.rows = {}]

FilesUnder(r) ==
    IF r.want = "files"
    THEN Listing([r EXCEPT !.walked = @ \o IdsInOrder(r.rows)], "walk", "folders", r.at, r.root)
    ELSE LET queue == r.queue \o IdsInOrder(r.rows) IN
         IF queue = <<>> THEN [r EXCEPT !.pc = "dek", !.rows = {}]
         ELSE Listing([r EXCEPT !.queue = Front(queue)], "walk", "files", Last(queue), r.root)

-----------------------------------------------------------------------------
(* The requests of the resolver. *)

Goes(p, r) == run' = [run EXCEPT ![p] = r]

\* One page; a folder the account may not see is refused.
FetchPage(p) ==
    LET r == run[p]
        by == cmd[p].by
        got == FetchPaginated(RowsOf(by, r.want, r.at, r.root), r.cursor)
        seen == [r EXCEPT !.rows = @ \cup got.rows, !.cursor = got.next]
    IN  /\ r.pc = "page"
        /\ Goes(p, IF r.at # Top /\ ~Sees(by, r.at) THEN Done(r, "refused")
                   ELSE IF got.next # Top THEN seen
                   ELSE IF r.doing = "walk" THEN FilesUnder(seen)
                   ELSE [seen EXCEPT !.pc = "names"])
        /\ UNCHANGED <<cmd, serverVars, losses, excused, logVars>>

\* The folders shared with the account, in one request.
ListSharedFolders(p) ==
    /\ run[p].pc = "shared"
    /\ Goes(p, [run[p] EXCEPT !.pc = "names", !.want = "shared", !.rows = SharedWithMe(cmd[p].by)])
    /\ UNCHANGED <<cmd, serverVars, losses, excused, logVars>>

\* The metadata keys of the rows are asked for and kept, a failed read hides the
\* names it was for and nothing more; then what the list was for goes on.
DecryptNames(p) ==
    LET r == run[p]
        c == cmd[p]
        roots(unread) == IF r.want = "files" THEN {x \in {r.root} : unread = {}}
                         ELSE {x.root : x \in r.rows \ unread}
    IN  /\ r.pc = "names"
        /\ \E unread \in Unread(r) :
            LET mk == r.mk \cup {x \in roots(unread) : MetadataKey(c.by, x)}
                named == NamedRows(r, mk, unread)
                s == [r EXCEPT !.mk = mk, !.rows = {}, !.cursor = Top, !.blind = @ \/ unread # {}]
            IN  /\ Goes(p,
                    CASE r.doing = "resolve" /\ r.at = Top /\ r.want = "folders" ->
                            [s EXCEPT !.pc = "shared", !.named = Legible(named)]
                      [] r.doing = "resolve" /\ (r.at # Top \/ r.want = "shared") ->
                            MatchOne(c, s, r.named \cup Legible(named))
                      [] r.doing = "taken" ->
                            [s EXCEPT !.pc = "metakey", !.mk = {},
                                      !.name = DedupeName(c.name, {x.name : x \in Legible(named)})]
                      [] r.doing = "list" -> Done([s EXCEPT !.named = named], "ok"))
                /\ losses' = losses - FailedReads(r, unread)
        /\ UNCHANGED <<cmd, serverVars, excused, logVars>>
=============================================================================
