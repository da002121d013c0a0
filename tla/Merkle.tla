------------------------------- MODULE Merkle -------------------------------
(***************************************************************************)
(* merkle.py.  A hexadecimal string is a sequence of hashes, and a hash is *)
(* the sequence of length one that holds what was hashed: the hash         *)
(* function is taken to have no collisions, and concatenation to be what   *)
(* it is, so that a node and a link of the chain over the same two hashes  *)
(* are the same string, as they are in the code.                           *)
(***************************************************************************)
EXTENDS Integers, Sequences, FiniteSetsExt

Hash(s) == <<s>>

\* The text of a row: three fields, never the length of one or two hashes.
Leaf(row) == Hash(<<row.item, row.seen, "row">>)

\* An odd last node is paired with itself.
Even(level) == IF Len(level) % 2 = 1 THEN Append(level, level[Len(level)]) ELSE level

Up(level) == LET e == Even(level)
             IN  [i \in 1..(Len(e) \div 2) |-> Hash(e[2*i - 1] \o e[2*i])]

Levels(leaves) ==
  LET f[k \in 0..Len(leaves)] == IF k = 0 THEN leaves ELSE Up(f[k - 1]) IN f

Height(leaves) == Min({k \in 0..Len(leaves) : Len(Levels(leaves)[k]) <= 1})

Root(leaves) == IF leaves = <<>> THEN Hash(<<>>) ELSE Levels(leaves)[Height(leaves)][1]

\* The node over leaf i in each level, counted from 1.
Places(leaves, i) ==
  LET p[k \in 0..Len(leaves)] == IF k = 0 THEN i ELSE (p[k - 1] + 1) \div 2 IN p

\* The path of leaf i: on each level the node beside its own.
Proof(leaves, i) ==
  [k \in 1..Height(leaves) |->
     LET level == Even(Levels(leaves)[k - 1])
         place == Places(leaves, i)[k - 1]
     IN  IF place % 2 = 1 THEN [side |-> "right", hash |-> level[place + 1]]
                          ELSE [side |-> "left", hash |-> level[place - 1]]]

Beside(p, cur) == IF p.side = "right" THEN Hash(cur \o p.hash) ELSE Hash(p.hash \o cur)

\* What a verifier computes from a leaf and a path.
Climbed(leaf, path) ==
  LET cur[k \in 0..Len(path)] ==
        IF k = 0 THEN leaf ELSE Beside(path[k], cur[k - 1])
  IN  cur

Verify(leaf, path, root) == Climbed(leaf, path)[Len(path)] = root

NoChain == <<>>
Chain(prev, root) == Hash(prev \o root)
=============================================================================
