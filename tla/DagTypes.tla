------------------------------ MODULE DagTypes ------------------------------
(***************************************************************************)
(* The values of consensus-core/src/dag/types.rs, the implementations of   *)
(* the traits of consensus-traits/src/dag.rs: a node with its metadata,    *)
(* payload and parents, and the certificate that comes with it.  The       *)
(* constructors check nothing: a certificate may name another node.        *)
(***************************************************************************)
EXTENDS Integers, Sequences

DagNodeId(epoch, round, author) == [epoch |-> epoch, round |-> round, author |-> author]

DagNodeMetadata(id, timestamp, digest) ==
    [node_id |-> id, timestamp |-> timestamp, digest |-> digest]

DagPayload(data, hash) == [data |-> data, hash |-> hash]

\* ParentCertificates: the metadata of the parents, in the order of add.
NoParents == <<>>

DagNode(metadata, payload, parents) ==
    [metadata |-> metadata, payload |-> payload, parents |-> parents]

NodeCertificate(metadata, signatures) == [metadata |-> metadata, signatures |-> signatures]

CertifiedNode(node, certificate) == [node |-> node, certificate |-> certificate]

\* node().metadata().node_id()
NodeIdOf(n) == n.node.metadata.node_id

\* TestNodeBuilder::build (dag/testing.rs); the round stands for the digest,
\* the payload's hash and the signatures.
TestNode(epoch, round, author, timestamp) ==
    LET metadata == DagNodeMetadata(DagNodeId(epoch, round, author), timestamp, round)
        node == DagNode(metadata, DagPayload(<<>>, round), NoParents)
    IN  CertifiedNode(node, NodeCertificate(metadata, round))

\* create_test_dag: a node of each author in each of the rounds.
CreateTestDag(epoch, rounds, authors) ==
    {TestNode(epoch, r, a, r * 1000) : r \in rounds, a \in authors}
=============================================================================
