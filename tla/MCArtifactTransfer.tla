------------------------- MODULE MCArtifactTransfer -------------------------
(***************************************************************************)
(* An instance of ArtifactTransfer for TLC.                                *)
(***************************************************************************)
EXTENDS ArtifactTransfer, TLC

CONSTANTS empty, good, other, over, long, d1, u1

\* A content at the limit, a shorter one, an empty one, and ones that pass the limit
\* by one byte and by two.
Lengths == (empty :> 0 @@ good :> 2 @@ other :> 1 @@ over :> 3 @@ long :> 4)

\* What callers expect: files within the limit, an empty file, a size that does
\* not go with its digest, one past the limit and a negative one.
Expected == {[size |-> 2, content |-> good], [size |-> 0, content |-> empty],
             [size |-> 1, content |-> good], [size |-> 4, content |-> long],
             [size |-> -1, content |-> good]}
=============================================================================
