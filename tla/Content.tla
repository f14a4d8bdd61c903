------------------------------ MODULE Content ------------------------------
(***************************************************************************)
(* Feeds with one more kind of content: a raw message, which is parsed,    *)
(* presented and inspected.                                                *)
(***************************************************************************)
EXTENDS InspectReport, Feeds

CONSTANTS Heads, Pieces, MaxPieces,  \* of a message
          Limits                     \* the limits it is inspected under

Init ==
    \/ FeedsInit
    \/ job = "message" /\ fed \in Heads /\ kept = 0 /\ NoData

\* kept counts the pieces of a message.
FeedMessage(piece) ==
    /\ job = "message" /\ kept < MaxPieces
    /\ fed' = fed \o piece
    /\ kept' = kept + 1
    /\ UNCHANGED <<job, dataVars>>

Next == FeedsNext \/ \E piece \in Pieces : FeedMessage(piece)

Spec == Init /\ [][Next]_vars

-----------------------------------------------------------------------------
Read(doc) == ~doc.err /\ doc.root # NoNode

\* The tree of a message.  What is below a part with a malformed Content-Type is
\* left out: of a multipart/digest child the inspection still makes a message,
\* because the index keeps the default type, while delivery makes a leaf of it.
RECURSIVE Shape(_)
Shape(n) ==
    [type |-> IF n.malformed THEN "malformed" ELSE n.type, path |-> n.path,
     kids |-> IF n.malformed THEN <<>> ELSE [i \in 1..Len(n.kids) |-> Shape(n.kids[i])]]

SameMessage(delivered, inspected) ==
    Read(inspected) => Read(delivered) /\ Shape(delivered.root) = Shape(inspected.root)

Agreed(parsed) ==
    /\ \A lim \in DOMAIN parsed : ~parsed[lim].inv
    /\ SameMessage(parsed[Unlimited], parsed[Generous(fed)])

\* The two passes over a message agree: the raw index and the semantic pass never
\* come to an invariant error, which would fail the whole inspection, and a
\* message that the inspection parses is the message that SMTP delivery parsed,
\* down to the parts whose Content-Type is malformed.
PassesAgree ==
    job = "message" => Agreed([lim \in Limits \cup {Unlimited, Generous(fed)} |-> Parse(fed, lim)])

Bounded(nodes, lim) ==
    /\ ~Over(lim.parts, Len(SelectSeq(nodes, LAMBDA n : ~n.standin)))
    /\ ~Over(2 * lim.parts, Len(nodes))
    /\ ~Over(lim.fields, SumFunction([i \in 1..Len(nodes) |-> Len(HeaderFields(nodes[i]))]))
    /\ ~Over(lim.depth, Max({Len(nodes[i].path) : i \in 1..Len(nodes)}))
BoundedTree(root, lim) == root # NoNode => Bounded(Preorder(root), lim)

\* The inspection's limits bound the whole message, with what is decoded inside
\* of it: neither the entities of the tree nor their header fields are more.  The
\* nodes that stand for unreadable messages are not counted by the code; they are
\* leaves, one for a message at most, so the tree has twice the limit at most.
InspectionBounded == job = "message" => \A lim \in Limits : BoundedTree(Parse(fed, lim).root, lim)

KeptParts(doc) == Read(doc) => NothingLost(doc.root)
\* What is delivered keeps every part (NothingLost).
PartsKept == job = "message" => KeptParts(Parse(fed, Unlimited))


=============================================================================
