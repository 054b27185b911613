------------------------------- MODULE MCDrive ------------------------------
(* A drive of three accounts: two PRSNs, o and r, and their guardian g.  Folder
   1 is o's "a" with the subfolder 2 "s"; folder 3 is r's own "a"; the name of
   file 13 is unreadable.  In the second tree r is a recipient of folder 1. *)
EXTENDS Drive

MCAccounts == {"o", "g", "r"}
MCPrsns == {"o", "r"}
MCStrangers == {Entry("g", StrangeKey("g", "kem"))}
MCProcs == {1, 2, 3}
MCNewId == 1 :> 10 @@ 2 :> 14 @@ 3 :> 15

Wrapped(as, root) == [a \in as |-> WrapMetadataKeyFor(Pair(a), MetaKey(root), root)[1]]
\* Files 11 and 13 with hybrid wraps, file 12 still with classical ones.
File(f, id, name, as) ==
    [in |-> f, name |-> name, listed |-> TRUE,
     deks |-> [a \in as |-> IF id = 12 THEN WrapTo(Pair(a), Dek(id), NoRoot) ELSE WrapDekFor(Pair(a), Dek(id))[1]]]

Tree0(as) ==
    [folders |-> 1 :> [up |-> Top, root |-> 1, owner |-> "o", name |-> EncryptName(1, 1, "a")]
              @@ 2 :> [up |-> 1, root |-> 1, owner |-> "o", name |-> EncryptName(1, 2, "s")]
              @@ 3 :> [up |-> Top, root |-> 3, owner |-> "r", name |-> EncryptName(3, 3, "a")],
     files |-> 11 :> File(1, 11, EncryptName(1, 11, "x"), as) @@ 12 :> File(2, 12, EncryptName(1, 12, "x"), as)
            @@ 13 :> File(1, 13, Garbled(13), as),
     mkw |-> 1 :> Wrapped(as, 1) @@ 3 :> Wrapped({"r", "g"}, 3),
     recips |-> 1 :> (as \ {"o"}) @@ 3 :> {"g"}]

Bare == [folders |-> <<>>, files |-> <<>>, mkw |-> <<>>, recips |-> <<>>]
Private == Tree0({"o", "g"})
Shared == Tree0({"o", "g", "r"})

Command(kind, by, targets, file, name, to) ==
    [kind |-> kind, by |-> by, targets |-> targets, file |-> file, name |-> name, to |-> to]
Idle == Command("idle", "o", <<>>, FALSE, "", "")

A == ByPath(<<"a">>, FALSE)
AS == ByPath(<<"a", "s">>, FALSE)
AX == ByPath(<<"a", "x">>, TRUE)
R == ById(1, 1)
S == ById(2, 1)

Invite(t) == Command("invite", "o", <<t>>, FALSE, "", "r")
Accept == Command("accept", "r", <<>>, FALSE, "", "")
Upload(by, t) == Command("upload", by, <<t>>, FALSE, "x", "")
Rename(by, t, file, n) == Command("rename", by, <<t>>, file, n, "")
Move(t, to, file) == Command("move", "o", <<t, to>>, file, "", "")
Delete(ts, file) == Command("delete", "o", ts, file, "", "")
List(kind, by, ts) == Command(kind, by, ts, FALSE, "", "")
About(kind, by, t, to) == Command(kind, by, <<t>>, FALSE, "", to)

FullLog(e) == Genesis(e) \o Registered

Cast(tree, c1, c2, c3, n) ==
    [tree |-> tree, epoch |-> 2, bound |-> 0, fault |-> "none", audits |-> {},
     log |-> FullLog(2), losses |-> n, cmd |-> <<c1, c2, c3>>]

\* A key that account a does not hold is logged under a or another, and what is
\* done in turn is wrapped to it; beside it, in epoch 2, a watches the log.
Strangely(e, a, under, tree, c1, c2) ==
    [Cast(tree, c1, c2, Idle, 0)
     EXCEPT !.epoch = e, !.log = Append(FullLog(e), Entry(under, StrangeKey(a, "kem"))),
            !.audits = IF e = 2 THEN {[kind |-> "watch", by |-> a]} ELSE {}]
Unlogged(to) ==
    [Cast(Shared, Command("recipient", "o", <<>>, FALSE, "", to), Upload("o", R), Idle, 0)
     EXCEPT !.fault = "unlogged"]

Faulty(e, f, to) ==
    [Cast(Private, Command("recipient", "o", <<>>, FALSE, "", to),
          Command("share_create", "o", <<>>, FALSE, "b", ""), Idle, 0)
     EXCEPT !.epoch = e, !.log = FullLog(e), !.fault = f]

Audits(e, n, kind) ==
    [Cast(Bare, Idle, Idle, Idle, 0)
     EXCEPT !.epoch = e, !.log = Genesis(e), !.bound = n, !.audits = {[kind |-> kind, by |-> "g"]}]

\* Invitations beside uploads, moves, cancellations and repeated requests.
Invitations ==
    {Cast(Private, Invite(A), Upload("o", S), Accept, 0),
     Cast(Private, Invite(R), Upload("g", R), Accept, 1),
     Cast(Private, Invite(R), Move(AX, S, TRUE), Accept, 0),
     Cast(Private, Invite(R), Move(ById(12, 1), R, TRUE), Accept, 0),
     Cast(Private, Invite(R), About("cancel", "o", R, ""), Accept, 1),
     Cast(Private, Invite(A), Delete(<<AX, ById(12, 1)>>, TRUE), Command("preview", "r", <<>>, FALSE, "", ""), 0),
     Cast(Private, Invite(S), Invite(ByPath(<<"b">>, FALSE)), List("folder_list", "o", <<ById(Top, Top)>>), 0)}

\* Members that come and go.
Departures ==
    {Cast(Shared, Upload("r", R), About("remove", "o", A, "r"), Upload("g", R), 0),
     Cast(Shared, Upload("o", A), About("leave", "r", R, ""), About("recipients", "g", A, ""), 1),
     Cast(Shared, About("leave", "r", R, ""), List("file_list", "r", <<R>>), List("share_list", "r", <<>>), 0),
     Cast(Shared, About("leave", "g", R, ""), About("invitations", "o", A, ""), Invite(R), 0),
     Cast(Shared, About("leave", "r", R, ""), Invite(R), Accept, 1)}

\* The tree changes under lists and paths.
Changing ==
    {Cast(Shared, Rename("o", AS, FALSE, "t"), Rename("r", AX, TRUE, "y"), List("folder_list", "o", <<A>>), 0),
     Cast(Private, Rename("o", AX, TRUE, "y"), Move(AX, S, TRUE), List("file_list", "o", <<A>>), 0),
     Cast(Private, Command("folder_create", "o", <<A>>, FALSE, "n", ""), Move(S, ById(10, 1), FALSE),
          List("file_list", "o", <<AS>>), 0),
     Cast(Private, Command("folder_create", "g", <<ById(Top, Top)>>, FALSE, "n", ""),
          Command("folder_create", "o", <<ById(Top, Top)>>, FALSE, "n", ""), Move(AS, ById(3, 3), FALSE), 1),
     Cast(Private, Delete(<<AX, ByPath(<<"a", "s", "x">>, TRUE)>>, TRUE), Rename("o", A, FALSE, "b"),
          Command("share_create", "g", <<>>, FALSE, "a", ""), 1),
     Cast(Private, Delete(<<AS>>, FALSE), Move(AX, AS, TRUE), List("file_list", "o", <<ById(2, 2)>>), 0),
     Cast(Private, Upload("o", A), Upload("g", R), Rename("o", ById(2, 2), FALSE, "z"), 1)}

\* A root of another tree that the user holds the key of.
Misrooted ==
    {Cast(Private, Rename("g", ById(2, 3), FALSE, "z"), Command("folder_create", "g", <<ById(2, 3)>>, FALSE, "n", ""),
          List("folder_list", "o", <<A>>), 0),
     Cast(Private, Rename("g", ById(11, 3), TRUE, "z"), Upload("g", ById(2, 3)), List("file_list", "o", <<A>>), 0)}

\* Reads of metadata keys that fail: the one of two folders named a, of the only
\* one, of a list of files.
Blinded ==
    {Cast(Shared, Rename("r", AX, TRUE, "y"), List("folder_list", "r", <<A>>), Idle, 1),
     Cast(Private, Upload("o", A), Delete(<<AX, AS>>, TRUE), Idle, 1),
     Cast(Shared, Rename("g", A, FALSE, "b"), List("share_list", "g", <<>>), Rename("g", AS, FALSE, "t"), 2)}

Casts ==
    Invitations \cup Departures \cup Changing \cup Misrooted \cup Blinded
    \cup {Strangely(e, "g", a, Private, Command("share_create", "o", <<>>, FALSE, "b", ""), Upload("o", R)) :
            e \in {1, 2}, a \in {"g", "o"}}
    \cup {Strangely(e, "r", a, Private, Invite(R), Accept) : e \in {1, 2}, a \in {"r", "o"}}
    \cup {Strangely(e, "r", a, Shared, Upload("g", R), Idle) : e \in {1, 2}, a \in {"r", "g"}}
    \cup {Unlogged(to) : to \in {"g", "r"}}
    \cup {Faulty(e, f, to) : e \in {1, 2}, to \in {"g", "r"},
            f \in {"none", "no_pq", "half_pq", "no_proof", "misnamed", "misprint", "stripped", "partial", "revoked", "no_pq_key"}}
    \cup {Audits(1, 4, "fetched"), Audits(1, 4, "saved"), Audits(2, 4, "offline"),
          Audits(2, 6, "fetched"), Audits(1, 2, "watch"), Audits(2, 6, "watch")}

MCInit == \E c \in Casts : DriveInit(c, c.tree)
MCSpec == MCInit /\ [][Next]_vars
=============================================================================
