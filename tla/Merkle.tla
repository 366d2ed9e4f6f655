------------------------------- MODULE Merkle -------------------------------
(***************************************************************************)
(* The Merkle tree of merkle/rgtp_merkle.c and rgtp_merkle_hash.c: an      *)
(* exposer builds it over the plaintext chunks, a puller verifies one      *)
(* chunk against the root with the sibling hashes of its proof.            *)
(*                                                                         *)
(* A hash is the term of what was hashed, so that two hashes are equal     *)
(* exactly when their inputs are: the prefix byte and the hashed parts.    *)
(* A part is a chunk's text or another hash, because a chunk's bytes may   *)
(* be those of two hashes.                                                 *)
(***************************************************************************)
EXTENDS Naturals, Sequences, SequencesExt, Bitwise

CONSTANTS
  Texts,           \* what a chunk may hold
  MaxLeaves        \* bound: chunks in an exposure

VARIABLES
  tree,            \* the last rgtp_merkle_build: chunks, code, root, proofs, depth
  verified         \* the last rgtp_merkle_verify: data, index, proof, code

merkleVars == <<tree, verified>>

Text(x) == [prefix |-> "none", of |-> <<>>, text |-> x]
ZeroHash == [prefix |-> "zero", of |-> <<>>, text |-> ""]
Digest(prefix, parts) == [prefix |-> prefix, of |-> parts, text |-> ""]

\* Mutation: a leaf is hashed with the prefix of an internal node.
LeafHashNoDomain(data) == Digest("0x01", data)

LeafHash(data) == Digest("0x00", data)

InternalHash(left, right) == Digest("0x01", <<left, right>>)

-----------------------------------------------------------------------------
(* next_pow2, log2_u32                                                     *)

Smear(n, shift) == n | (n \div 2^shift)

NextPow2(n) ==
  IF n = 0 THEN 1 ELSE FoldLeft(Smear, n - 1, <<1, 2, 4, 8, 16>>) + 1

Log2[n \in Nat] == IF n > 1 THEN 1 + Log2[n \div 2] ELSE 0

-----------------------------------------------------------------------------
(* rgtp_merkle_build                                                       *)

\* The flat tree: node 1 is the root, node i has the children 2i and 2i + 1.
TreeOf(chunks) ==
  LET padded == NextPow2(Len(chunks))
      node[i \in 1 .. 2 * padded - 1] ==
        IF i < padded THEN InternalHash(node[2 * i], node[2 * i + 1])
        ELSE IF i - padded < Len(chunks) THEN LeafHash(chunks[i - padded + 1])
        ELSE ZeroHash
  IN  node

Sibling(i) == IF i % 2 = 0 THEN i + 1 ELSE i - 1

\* The siblings on the way from leaf i up.
ProofOf(chunks, i) ==
  LET padded == NextPow2(Len(chunks))
  IN  [d \in 1 .. Log2[padded] |-> TreeOf(chunks)[Sibling((padded + i) \div 2^(d - 1))]]

MerkleInit ==
  /\ tree = [chunks |-> <<>>, code |-> "none", root |-> ZeroHash, proofs |-> <<>>, depth |-> 0]
  /\ verified = [data |-> <<>>, index |-> 0, proof |-> <<>>, code |-> "none"]

\* The root is written before the proofs are allocated, and stays when that fails.
\* An allocation of zero bytes fails, which is what a tree of depth 0 asks for.
BuildTree(chunks, wantProofs, memory) ==
  LET depth == Log2[NextPow2(Len(chunks))]
      noProofs == wantProofs /\ (depth = 0 \/ memory = "short")
  IN
  /\ tree.code = "none"
  /\ tree' = [chunks |-> chunks,
              code |-> IF noProofs THEN "RGTP_ERR_NOMEM" ELSE "RGTP_OK",
              root |-> TreeOf(chunks)[1],
              proofs |-> IF wantProofs /\ ~noProofs
                         THEN [i \in 1 .. Len(chunks) |-> ProofOf(chunks, i - 1)] ELSE <<>>,
              depth |-> depth]
  /\ UNCHANGED verified

BuildRefused(memory) ==
  /\ tree.code = "none"
  /\ memory = "none"
  /\ tree' = [tree EXCEPT !.code = "RGTP_ERR_NOMEM"]
  /\ UNCHANGED verified

-----------------------------------------------------------------------------
(* rgtp_merkle_verify                                                      *)

Climb(at, sibling) ==
  [h |-> IF at.idx % 2 = 0 THEN InternalHash(at.h, sibling) ELSE InternalHash(sibling, at.h),
   idx |-> at.idx \div 2]

Verify(data, proof, index, root) ==
  FoldLeft(Climb, [h |-> LeafHash(data), idx |-> index], proof).h = root

\* The function keeps no state, so a behaviour needs only one call.
VerifyChunk(data, proof, index) ==
  /\ tree.code # "none"
  /\ verified.code = "none"
  /\ verified' = [data |-> data, index |-> index, proof |-> proof,
                  code |-> IF Verify(data, proof, index, tree.root)
                           THEN "RGTP_OK" ELSE "RGTP_ERR_MERKLE_FAIL"]
  /\ UNCHANGED tree

-----------------------------------------------------------------------------
(* Chunks whose bytes are a text, or those of the two children of a node;  *)
(* proofs that were built, whole or without their first entries.           *)

Chunk(x) == <<Text(x)>>
ChunkSeqs == UNION {[1 .. n -> {Chunk(x) : x \in Texts}] : n \in 1 .. MaxLeaves}
NodeBytes == {tree.root.of} \cup {Chunk(x) : x \in Texts}
ProofsGiven == {<<>>} \cup {SubSeq(tree.proofs[i], d, tree.depth) :
                         i \in DOMAIN tree.proofs, d \in 1 .. tree.depth}

MerkleNext ==
  \/ \E chunks \in ChunkSeqs, wantProofs \in BOOLEAN, memory \in {"enough", "short"} :
       BuildTree(chunks, wantProofs, memory)
  \/ BuildRefused("none")
  \/ \E data \in NodeBytes, proof \in ProofsGiven, index \in 0 .. MaxLeaves :
       VerifyChunk(data, proof, index)

MerkleSpec == MerkleInit /\ [][MerkleNext]_merkleVars

MerkleTypeOK ==
  /\ tree.code \in {"none", "RGTP_OK", "RGTP_ERR_NOMEM"}
  /\ tree.depth \in 0 .. MaxLeaves
  /\ verified.code \in {"none", "RGTP_OK", "RGTP_ERR_MERKLE_FAIL"}

-----------------------------------------------------------------------------
(* Properties                                                              *)

PaddedLeaves == NextPow2(Len(tree.chunks))
Built == tree.chunks # <<>>

\* Every proof rgtp_merkle_build hands out makes rgtp_merkle_verify accept its own
\* chunk at its own index, whatever the number of chunks and the padding.
\* What rgtp_merkle_verify accepts is the chunk that was exposed at that index (up to
\* a multiple of the padded size, which verification cannot see): not another chunk,
\* not a padding leaf, and not an internal node passed off as a chunk.
VerifiesExactly ==
  /\ \A i \in DOMAIN tree.proofs :
       Verify(tree.chunks[i], tree.proofs[i], i - 1, tree.root)
  /\ Built /\ verified.code = "RGTP_OK" =>
       LET i == verified.index % PaddedLeaves IN
       i < Len(tree.chunks) /\ verified.data = tree.chunks[i + 1]
=============================================================================
