------------------------------- MODULE Merkle -------------------------------
(***************************************************************************)
(* The Merkle hash tree over the transparency log (crypto/src/merkle.rs):  *)
(* root, inclusion proofs and consistency proofs, built by recursion over  *)
(* the leaves, and the two verifiers, which walk a proof with a pair of    *)
(* shifting positions and never see the leaves.  SHA-256 is a constructor: *)
(* two hashes are equal exactly when they hash the same thing.             *)
(***************************************************************************)
EXTENDS Naturals, Sequences, SequencesExt

LeafHash(e) == <<"leaf", e>>
InternalHash(left, right) == <<"node", left, right>>
EmptyRoot == <<"empty">>

\* The largest power of two strictly below n, for n of at least two.
RECURSIVE SplitFrom(_, _)
SplitFrom(k, n) == IF 2 * k < n THEN SplitFrom(2 * k, n) ELSE k
SplitPoint(n) == SplitFrom(1, n)

FirstPart(s) == SubSeq(s, 1, SplitPoint(Len(s)))
LastPart(s) == SubSeq(s, SplitPoint(Len(s)) + 1, Len(s))

RECURSIVE Mth(_)
Mth(s) ==
    IF Len(s) = 1 THEN LeafHash(s[1])
                  ELSE InternalHash(Mth(FirstPart(s)), Mth(LastPart(s)))

MerkleRoot(s) == IF s = <<>> THEN EmptyRoot ELSE Mth(s)

\* The siblings from the leaf at 0-based index up to the root, deepest first.
RECURSIVE AuditPath(_, _)
AuditPath(s, index) ==
    IF Len(s) = 1 THEN <<>>
    ELSE LET k == SplitPoint(Len(s)) IN
         IF index < k THEN Append(AuditPath(FirstPart(s), index), Mth(LastPart(s)))
                      ELSE Append(AuditPath(LastPart(s), index - k), Mth(FirstPart(s)))

InclusionProof(s, index) == AuditPath(s, index)

\* known: the verifier already has the root of the size-m subtree.
RECURSIVE Subproof(_, _, _)
Subproof(m, s, known) ==
    IF m = Len(s) THEN IF known THEN <<>> ELSE <<Mth(s)>>
    ELSE LET k == SplitPoint(Len(s)) IN
         IF m <= k THEN Append(Subproof(m, FirstPart(s), known), Mth(LastPart(s)))
                   ELSE Append(Subproof(m - k, LastPart(s), FALSE), Mth(FirstPart(s)))

ConsistencyProof(s, m) == Subproof(m, s, TRUE)

-----------------------------------------------------------------------------
Odd(n) == n % 2 = 1

\* On an even position that is the last of its level, both positions go up to
\* the next level where it is a right child, or the leftmost.
RECURSIVE Descend(_, _)
Descend(f, s) ==
    LET up == [f |-> f \div 2, s |-> s \div 2] IN
    IF Odd(up.f) \/ up.f = 0 THEN up ELSE Descend(up.f, up.s)

\* Mutant: the last position of a level is taken for a left child.
ClimbLeftmost(w, c) ==
    LET left == Odd(w.f) IN
    IF ~w.ok \/ w.s = 0 THEN [w EXCEPT !.ok = FALSE]
    ELSE [ok |-> TRUE, f |-> w.f \div 2, s |-> w.s \div 2,
          first |-> IF left THEN InternalHash(c, w.first) ELSE w.first,
          second |-> IF left THEN InternalHash(c, w.second)
                             ELSE InternalHash(w.second, c)]

\* One sibling of a proof: the walk is [ok, f, s, first, second], the two hashes
\* being those of the smaller and of the larger tree.
Climb(w, c) ==
    LET left == Odd(w.f) \/ w.f = w.s
        at == IF left /\ ~Odd(w.f) THEN Descend(w.f, w.s) ELSE [f |-> w.f, s |-> w.s]
    IN  IF ~w.ok \/ w.s = 0 THEN [w EXCEPT !.ok = FALSE]
        ELSE [ok |-> TRUE, f |-> at.f \div 2, s |-> at.s \div 2,
              first |-> IF left THEN InternalHash(c, w.first) ELSE w.first,
              second |-> IF left THEN InternalHash(c, w.second)
                                 ELSE InternalHash(w.second, c)]

VerifyInclusion(e, index, size, proof, root) ==
    /\ index < size
    /\ LET w == FoldLeft(Climb, [ok |-> TRUE, f |-> index, s |-> size - 1,
                                 first |-> LeafHash(e), second |-> LeafHash(e)], proof)
       IN  w.ok /\ w.s = 0 /\ w.second = root

RECURSIVE IsPowerOfTwo(_)
IsPowerOfTwo(n) == n = 1 \/ (n > 1 /\ ~Odd(n) /\ IsPowerOfTwo(n \div 2))

RECURSIVE AlignLeft(_, _)
AlignLeft(f, s) == IF Odd(f) THEN AlignLeft(f \div 2, s \div 2) ELSE [f |-> f, s |-> s]

VerifyConsistency(m, n, first, second, proof) ==
    /\ m > 0 /\ m < n /\ proof # <<>>
    /\ LET path == IF IsPowerOfTwo(m) THEN <<first>> \o proof ELSE proof
           at == AlignLeft(m - 1, n - 1)
           w == FoldLeft(Climb, [ok |-> TRUE, f |-> at.f, s |-> at.s,
                                 first |-> path[1], second |-> path[1]], Tail(path))
       IN  w.ok /\ w.first = first /\ w.second = second /\ w.s = 0
=============================================================================
