------------------------------- MODULE Merkle -------------------------------
(***************************************************************************)
(* integrity/merkle.py: the binary Merkle tree of a sequence of leaves.    *)
(* SHA-256 is modelled as injective: the hash of two nodes is their pair.  *)
(* An odd node at the end of a level is promoted unchanged.                *)
(***************************************************************************)
EXTENDS Integers, Sequences

H2(a, b) == <<"h2", a, b>>
EmptyRoot == <<"empty">>

LevelAbove(level) ==
  [i \in 1..((Len(level) + 1) \div 2) |->
     IF 2 * i <= Len(level) THEN H2(level[2 * i - 1], level[2 * i]) ELSE level[2 * i - 1]]

\* Levels(leaves)[k]: the level after k rounds; Len(leaves) rounds are enough.
Levels(leaves) ==
  LET level[k \in 0..Len(leaves)] ==
        IF k = 0 THEN leaves ELSE LevelAbove(level[k - 1])
  IN level

BuildRoot(leaves) ==
  IF leaves = <<>> THEN EmptyRoot ELSE Levels(leaves)[Len(leaves)][1]

\* The position at each level, counted from 0, of the node above the leaf at idx.
PositionsAbove(leaves, idx) ==
  LET cur[k \in 0..Len(leaves)] == IF k = 0 THEN idx ELSE cur[k - 1] \div 2
  IN cur

Sibling(cur) == IF cur % 2 = 0 THEN cur + 1 ELSE cur - 1

PathStepOneSided(level, cur) ==
  IF cur % 2 = 0 /\ cur + 1 < Len(level)
  THEN <<[sibling |-> level[cur + 2], side |-> "R"]>> ELSE <<>>

\* What a round adds to the path; on a level of one node there is no sibling.
PathStep(level, cur) ==
  IF Sibling(cur) < Len(level)
  THEN <<[sibling |-> level[Sibling(cur) + 1], side |-> IF Sibling(cur) < cur THEN "L" ELSE "R"]>>
  ELSE <<>>

\* PathsUp(leaves, idx)[k]: the siblings of the first k rounds.
PathsUp(leaves, idx) ==
  LET path[k \in 0..Len(leaves)] ==
        IF k = 0 THEN <<>>
        ELSE path[k - 1] \o PathStep(Levels(leaves)[k - 1], PositionsAbove(leaves, idx)[k - 1])
  IN path

BuildProof(leaves, idx) == PathsUp(leaves, idx)[Len(leaves)]

Combine(step, h) == IF step.side = "L" THEN H2(step.sibling, h) ELSE H2(h, step.sibling)

\* HashesUp(leaf, path)[i]: the hash after i steps of the path.
HashesUp(leaf, path) ==
  LET h[i \in 0..Len(path)] == IF i = 0 THEN leaf ELSE Combine(path[i], h[i - 1])
  IN h

VerifyProof(leaf, path, root) == HashesUp(leaf, path)[Len(path)] = root

=============================================================================
