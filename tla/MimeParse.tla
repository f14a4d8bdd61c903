----------------------------- MODULE MimeParse -----------------------------
(***************************************************************************)
(* mimeparse: the raw index of a message (index.go), the semantic pass     *)
(* that is correlated with it (parse.go) and the limits of both.           *)
(*                                                                         *)
(* A message is a sequence of physical lines; a byte offset is a line      *)
(* number, so that a line counts as one byte and all lines end alike.  A   *)
(* line is a record [k, b, start, in]: k says what it is, b is its         *)
(* boundary, filename or content id, start the parameter of that name, in  *)
(* what a base64 line decodes to.  The reader of go-message is external:   *)
(* it takes a header block of fields up to an empty line, ends a part at   *)
(* the next delimiter line of any enclosing multipart, and fails at the    *)
(* end of a body without a closing delimiter.  A tree node is [path, type, *)
(* b, start, malformed, filename, cid, kids, head, complete, body,         *)
(* standin]: head is its header block, body a leaf's decoded body, standin *)
(* says that it is no entity of the message (Unreadable).  A badtype       *)
(* header is a Content-Type that does not parse.  Left out: encodings that *)
(* are not known, Content-ID exposure and byte offsets within a line.      *)
(***************************************************************************)
EXTENDS Naturals, Sequences, FiniteSets, FiniteSetsExt, SequencesExt

CONSTANT InspectionDepth     \* InspectionLimits.MaxDepth

ASSUME DepthAssumption == InspectionDepth \in Nat \ {0}

L(kind, name) == [k |-> kind, b |-> name, start |-> "", in |-> <<>>]
Coded(lines) == [L("coded", "") EXCEPT !.in = lines]

Multiparts == {"mixed", "alternative", "related", "digest"}
Leaves == {"plain", "html", "calendar", "image", "badtype"}
TypeKinds == Multiparts \cup Leaves \cup {"rfc822"}
FieldKinds == TypeKinds \cup {"field", "base64", "filename", "cid"}

NoNode == [path |-> <<>>]
NoIndex == [lines |-> <<>>]
Unlimited == [raw |-> 0, depth |-> 0, parts |-> 0, fields |-> 0, hbytes |-> 0, lines |-> 0]

\* A limit of zero is off.
Over(limit, n) == limit > 0 /\ n > limit

\* Path of the last node that is complete, "" when there is none.
NoPath == <<>>

-----------------------------------------------------------------------------
(* The raw index. *)

\* The empty line that ends the header block of lines lo..hi, 0 if none does.
HeaderEnd(ls, lo, hi) ==
    LET empty == {i \in lo..hi : ls[i].k = "blank"} IN IF empty = {} THEN 0 ELSE Min(empty)

\* headerFieldsIn: a line without a colon is skipped.
Fields(ls, lo, h) == SelectSeq(SubSeq(ls, lo, h - 1), LAMBDA l : l.k \in FieldKinds)

\* The first header field of one of these kinds.
FirstOf(fields, kinds, absent) ==
    LET at == {i \in 1..Len(fields) : fields[i].k \in kinds}
    IN  IF at = {} THEN absent ELSE fields[Min(at)]

Value(fields, kind) == FirstOf(fields, {kind}, L("", "")).b

\* entityHeaderValues: the first Content-Type, "none" when there is none.
TypeLine(fields) == FirstOf(fields, TypeKinds, L("none", ""))
Identity(fields) == FirstOf(fields, {"base64"}, L("", "")).k = ""

\* boundaryLines
BoundaryLines(ls, lo, hi, b) ==
    SelectSeq([i \in 1..(IF hi < lo THEN 0 ELSE hi - lo + 1) |-> lo + i - 1],
              LAMBDA i : ls[i].k \in {"delim", "close"} /\ ls[i].b = b)

\* trimBoundaryPrefix: the line ending before a delimiter belongs to it, so
\* that an empty line there is not a line of the part.
Trim(ls, lo, hi) == IF hi >= lo /\ ls[hi].k = "blank" THEN hi - 1 ELSE hi

\* A node of the index: a Content-Type that is absent or malformed leaves the
\* default of the place, a message inside of a multipart/digest.
NewNode(head, digest, path) ==
    LET fields == Fields(head, 1, Len(head) + 1)
        type == TypeLine(fields)
        default == IF digest THEN "rfc822" ELSE "plain"
    IN  [path |-> path, type |-> IF type.k \in {"none", "badtype"} THEN default ELSE type.k,
         b |-> type.b, start |-> type.start,
         malformed |-> type.k = "badtype", filename |-> Value(fields, "filename"),
         cid |-> Value(fields, "cid"), kids |-> <<>>, head |-> head,
         complete |-> TRUE, body |-> <<>>, standin |-> FALSE]

Capped(st, cause) == [node |-> NoNode, st |-> [st EXCEPT !.causes = @ \cup {cause}]]

\* index.headerBytes += blockBytes; index.headerFields += len(fields); index.parts++
Charge(st, block, fields) ==
    [st EXCEPT !.hbytes = @ + block, !.fields = @ + Len(fields), !.parts = @ + 1]

RECURSIVE IndexEntity(_, _, _), IndexParts(_, _, _, _)

\* An encapsulated message that was indexed in place is the node's child.
Enclose(node, child) ==
    IF child.node = NoNode
    THEN [node |-> [node EXCEPT !.complete = FALSE], st |-> child.st]
    ELSE [node |-> [node EXCEPT !.kids = <<child.node>>, !.complete = @ /\ child.node.complete],
          st |-> child.st]

\* parseEntity below the header block, which ends at line h.
IndexBody(src, e, h, node, st) ==
    IF node.type \in Multiparts /\ node.b # ""
    THEN IndexParts(src, e, [node |-> node, st |-> st], BoundaryLines(src.lines, h + 1, e.hi, node.b))
    ELSE IF node.type # "rfc822" \/ ~Identity(node.head) THEN [node |-> node, st |-> st]
    ELSE Enclose(node, IndexEntity(src, [lo |-> h + 1, hi |-> e.hi, path |-> Append(e.path, 1),
                                         depth |-> e.depth + 1, digest |-> FALSE], st))

\* parseEntity at the header block; charged is the budget with it.
IndexHeader(src, e, h, st, charged) ==
    IF Over(src.lim.hbytes, charged.hbytes) THEN Capped(st, "header bytes")
    ELSE IF Over(src.lim.fields, charged.fields) THEN Capped(st, "header fields")
    ELSE IndexBody(src, e, h, [NewNode(SubSeq(src.lines, e.lo, h - 1), e.digest, e.path) EXCEPT
                                  !.complete = src.complete \/ e.hi < Len(src.lines)], charged)

\* parseEntity: e is [lo, hi, path, depth, digest], src the index it belongs to.
IndexEntity(src, e, st) ==
    LET h == HeaderEnd(src.lines, e.lo, e.hi)
    IN  IF Over(src.lim.depth, e.depth) THEN Capped(st, "depth")
        ELSE IF Over(src.lim.parts, st.parts + 1) THEN Capped(st, "parts")
        ELSE IF h = 0 THEN [node |-> NoNode, st |-> st]
        ELSE IndexHeader(src, e, h, st, Charge(st, h - e.lo + 1, Fields(src.lines, e.lo, h)))

\* What follows a part of a multipart; r is [node, st] before it.
AddPart(src, e, r, ds, child) ==
    LET grown == [r.node EXCEPT !.kids = Append(@, child.node)]
    IN  IF child.node = NoNode THEN [node |-> [r.node EXCEPT !.complete = FALSE], st |-> child.st]
        ELSE IF ~child.node.complete THEN [node |-> [grown EXCEPT !.complete = FALSE], st |-> child.st]
        ELSE IndexParts(src, e, [node |-> grown, st |-> child.st], ds)

\* The loop over the delimiters ds of a multipart: r is [node, st] so far.
IndexParts(src, e, r, ds) ==
    LET n == Len(r.node.kids) + 1
        closes(i) == src.lines[ds[i]].k = "close"
    IN  IF n > Len(ds) \/ closes(n)
        THEN [r EXCEPT !.node.complete = @ /\ \E i \in 1..Len(ds) : closes(i)]
        ELSE AddPart(src, e, r, ds,
                IndexEntity(src, [lo |-> ds[n] + 1, path |-> Append(e.path, n), depth |-> e.depth + 1,
                                  hi |-> IF n < Len(ds) THEN Trim(src.lines, ds[n] + 1, ds[n + 1] - 1) ELSE e.hi,
                                  digest |-> r.node.type = "digest"], r.st))

\* scanLines: what the limit on physical lines leaves.
Scan(ls, limit, st) ==
    IF Over(limit, Len(ls))
    THEN [lines |-> SubSeq(ls, 1, limit), st |-> [st EXCEPT !.causes = @ \cup {"lines"}]]
    ELSE [lines |-> ls, st |-> st]

EmptyBudget == [fields |-> 0, hbytes |-> 0, parts |-> 0, lines |-> 0, causes |-> {}]

\* scanLines and parseEntity on one source; st is the budget it is charged to.
IndexSource(ls, lim, room, path, depth, st) ==
    LET scan == Scan(ls, room, st)
        src == [lines |-> scan.lines, complete |-> Len(scan.lines) = Len(ls), lim |-> lim]
        r == IndexEntity(src, [lo |-> 1, hi |-> Len(src.lines), path |-> path,
                               depth |-> depth, digest |-> FALSE], scan.st)
    IN  [src |-> src, root |-> r.node, st |-> [r.st EXCEPT !.lines = @ + Len(scan.lines)]]

\* buildRawIndex
BuildRawIndex(ls, lim) ==
    IF Over(lim.raw, Len(ls))
    THEN [src |-> NoIndex, root |-> NoNode, st |-> [EmptyBudget EXCEPT !.causes = {"raw"}]]
    ELSE LET r == IndexSource(ls, lim, lim.lines, <<1>>, 1, EmptyBudget)
         IN  IF r.root = NoNode THEN r
             ELSE [r EXCEPT !.root.complete = @ /\ r.src.complete]

\* Mutant: a decoded message starts with a budget of its own.
IndexDecodedFresh(ls, lim, path, depth, st) == IndexSource(ls, lim, lim.lines, path, depth, EmptyBudget)

\* indexDecodedMessage: the decoded message is charged to the same budget.
IndexDecodedMessage(ls, lim, path, depth, st) ==
    IF Over(lim.lines, st.lines + 1)
    THEN [src |-> NoIndex, root |-> NoNode, st |-> [st EXCEPT !.causes = @ \cup {"lines"}]]
    ELSE IndexSource(ls, lim, IF lim.lines = 0 THEN 0 ELSE lim.lines - st.lines, path, depth, st)

RECURSIVE Preorder(_)
Preorder(node) == <<node>> \o FlattenSeq([i \in 1..Len(node.kids) |-> Preorder(node.kids[i])])

\* lastCompleteIndexedPath
LastCompletePath(root) ==
    IF root = NoNode THEN NoPath
    ELSE LET done == SelectSeq(Preorder(root), LAMBDA n : n.complete)
         IN  IF done = <<>> THEN NoPath ELSE Last(done).path

-----------------------------------------------------------------------------
(* go-message's reader. *)

\* ReadHeader fails without an empty line, and on a line without a colon.
ReadHeader(ls, lo, hi) ==
    LET h == HeaderEnd(ls, lo, hi)
    IN  IF \A i \in lo..(h - 1) : ls[i].k \in FieldKinds THEN h ELSE 0

\* What io.ReadAll of a body makes of it: the lines of the decoded body.
Failed == <<L("failed", "")>>
ReadBody(ls, fields, h, hi, broken) ==
    LET body == SubSeq(ls, h + 1, hi)
    IN  IF broken THEN Failed
        ELSE IF Identity(fields) \/ body = <<>> THEN body
        ELSE IF Len(body) = 1 /\ body[1].k = "coded" THEN body[1].in
        ELSE Failed

\* NextPart: the n-th part of the body h+1..hi as [got, lo, h, hi, broken], or how
\* the iteration ends.
NextPart(ls, h, hi, b, n) ==
    LET ds == BoundaryLines(ls, h + 1, hi, b)
        lo == ds[n] + 1
        end == IF n < Len(ds) THEN ds[n + 1] - 1 ELSE hi
        ph == ReadHeader(ls, lo, end)
    IN  IF b = "" \/ n > Len(ds) THEN [got |-> "error"]
        ELSE IF ls[ds[n]].k = "close" THEN [got |-> "EOF"]
        ELSE IF ph = 0 THEN [got |-> "error"]
        ELSE [got |-> "part", lo |-> lo, h |-> ph, broken |-> n = Len(ds),
              hi |-> IF n < Len(ds) THEN Trim(ls, ph + 1, end) ELSE end]

-----------------------------------------------------------------------------
(* The semantic pass.  Its result is [inv, err, node, last, st]: an          *)
(* invariant error, a semantic error, the node, the path parsed through and  *)
(* the budget.                                                               *)

Result(node, err, last, st) == [inv |-> FALSE, err |-> err, node |-> node, last |-> last, st |-> st]
InvariantError(st) == [inv |-> TRUE, err |-> FALSE, node |-> NoNode, last |-> NoPath, st |-> st]

\* The text/plain child that stands for an unreadable encapsulated message.
Unreadable(node, body) ==
    [NewNode(<<>>, FALSE, Append(node.path, 1)) EXCEPT !.body = body, !.standin = TRUE]

\* A node of the semantic pass.  Its malformed Content-Type is no media type at
\* all, unless the index has a node whose type it takes.
SemanticNode(head, digest, path, raw) ==
    LET node == NewNode(head, digest, path)
    IN  IF ~node.malformed THEN node
        ELSE [node EXCEPT !.type = IF raw = NoNode THEN "badtype" ELSE raw.type]

WithKid(node, kid) == IF kid = NoNode THEN node ELSE [node EXCEPT !.kids = Append(@, kid)]

RECURSIVE ReadNode(_, _, _, _, _), ReadParts(_, _, _, _, _, _)

WithInner(node, r) == IF r.inv THEN r ELSE [r EXCEPT !.node = WithKid(node, r.node)]

\* readSemanticNode for the message inside of node, with what was indexed of it.
ReadInner(e, node, body, raw, idx, st) ==
    LET path == Append(e.path, 1)
        h == ReadHeader(body, 1, Len(body))
    IN  IF raw = NoNode /\ idx # NoIndex /\ Over(idx.lim.depth, e.depth + 1)
        THEN Result(node, FALSE, e.path, st)
        ELSE IF h = 0 THEN Result(WithKid(node, Unreadable(node, body)), FALSE, path, st)
        ELSE WithInner(node, ReadNode(body, [lo |-> 1, h |-> h, hi |-> Len(body), broken |-> FALSE, path |-> path,
                                             depth |-> e.depth + 1, digest |-> FALSE], raw, idx, st))

\* The same for a message that was encoded, and is indexed once it is decoded.
ReadDecoded(e, node, body, decoded) ==
    IF decoded.st.causes # {}
    THEN Result(WithKid(node, decoded.root), FALSE, LastCompletePath(decoded.root), decoded.st)
    ELSE ReadInner(e, node, body, decoded.root, decoded.src, decoded.st)

\* readSemanticNode for an encapsulated message with this decoded body.
ReadEncapsulated(e, node, body, raw, idx, st) ==
    LET indexed == IF raw = NoNode \/ raw.kids = <<>> THEN NoNode ELSE raw.kids[1]
    IN  IF body = Failed THEN Result(node, TRUE, NoPath, st)
        ELSE IF indexed = NoNode /\ idx # NoIndex /\ ~Identity(node.head)
        THEN ReadDecoded(e, node, body,
                         IndexDecodedMessage(body, idx.lim, Append(e.path, 1), e.depth + 1, st))
        ELSE ReadInner(e, node, body, indexed, idx, st)

\* Mutant: a part that was not indexed is an invariant error whatever the index says.
UnindexedStrict(raw) == FALSE

\* !index.meta[rawNode].complete
Incomplete(raw) == ~raw.complete

\* What follows a part of a multipart; r is the result before it.
AddRead(ls, e, node, raw, idx, r, child) ==
    LET grown == [child EXCEPT !.node = WithKid(r.node, child.node),
                               !.last = IF child.last = NoPath THEN r.last ELSE child.last]
    IN  IF child.inv THEN child
        ELSE IF child.err \/ (idx # NoIndex /\ child.st.causes # {}) THEN grown
        ELSE ReadParts(ls, e, node, raw, idx, grown)

\* The n-th part, or the end of the parts.
ReadPart(ls, e, node, raw, idx, r, n, part) ==
    LET mismatch == IF Incomplete(raw) THEN [r EXCEPT !.err = TRUE] ELSE InvariantError(r.st)
    IN  IF part.got = "EOF" THEN IF raw # NoNode /\ n - 1 # Len(raw.kids) THEN mismatch ELSE r
        ELSE IF part.got = "error" THEN [r EXCEPT !.err = TRUE]
        ELSE IF raw # NoNode /\ n > Len(raw.kids) THEN mismatch
        ELSE AddRead(ls, e, node, raw, idx, r,
                ReadNode(ls, [lo |-> part.lo, h |-> part.h, hi |-> part.hi, broken |-> part.broken,
                              path |-> Append(e.path, n), depth |-> e.depth + 1,
                              digest |-> node.type = "digest"],
                         IF raw # NoNode THEN raw.kids[n] ELSE NoNode, idx, r.st))

\* The loop of readSemanticNode over the parts of a multipart.
ReadParts(ls, e, node, raw, idx, r) ==
    LET n == Len(r.node.kids) + 1
    IN  ReadPart(ls, e, node, raw, idx, r, n, NextPart(ls, e.h, e.hi, node.b, n))

\* readSemanticNode below the header block.
ReadContent(ls, e, node, body, raw, idx, st) ==
    IF raw # NoNode /\ (raw.path # e.path \/ raw.type # node.type) THEN InvariantError(st)
    ELSE IF node.type = "rfc822" THEN ReadEncapsulated(e, node, body, raw, idx, st)
    ELSE IF node.type \in Multiparts
         THEN ReadParts(ls, e, node, raw, idx, Result(node, FALSE, NoPath, st))
    ELSE IF body = Failed THEN Result(node, TRUE, NoPath, st)
    ELSE Result([node EXCEPT !.body = body], FALSE, e.path, st)

\* readSemanticNode: e is [lo, h, hi, broken, path, depth, digest], raw the node
\* of the index it is correlated with, idx the index that raw belongs to.
ReadNode(ls, e, raw, idx, st) ==
    IF Over(InspectionDepth, e.depth) THEN Result(NoNode, TRUE, NoPath, st)
    ELSE ReadContent(ls, e, SemanticNode(SubSeq(ls, e.lo, e.h - 1), e.digest, e.path, raw),
                     ReadBody(ls, Fields(ls, e.lo, e.h), e.h, e.hi, e.broken), raw, idx, st)

-----------------------------------------------------------------------------
Skipped(idx, root, through) ==
    [inv |-> FALSE, err |-> FALSE, root |-> root, truncated |-> idx.st.causes # {},
     skipped |-> TRUE, through |-> through, budget |-> idx.st]

ParseFailed(st) ==
    [inv |-> FALSE, err |-> TRUE, root |-> NoNode, truncated |-> FALSE,
     skipped |-> FALSE, through |-> NoPath, budget |-> st]

\* What the semantic pass r has made of the message.
Document(inspection, r) ==
    LET truncated == inspection /\ r.st.causes # {}
    IN  [inv |-> r.inv, err |-> r.err, root |-> r.node, truncated |-> truncated,
         skipped |-> FALSE, budget |-> r.st,
         through |-> IF r.err \/ truncated THEN r.last ELSE NoPath]

\* parseSemantic, correlated with what was indexed (raw, src).
ParseSemantic(ls, inspection, raw, src, st) ==
    LET h == ReadHeader(ls, 1, Len(ls))
    IN  IF h = 0 THEN ParseFailed(st)
        ELSE Document(inspection,
                ReadNode(ls, [lo |-> 1, h |-> h, hi |-> Len(ls), broken |-> FALSE, path |-> <<1>>,
                              depth |-> 1, digest |-> FALSE], raw, src, st))

\* Parse for an inspection, with its index.
ParseIndexed(ls, idx) ==
    IF "raw" \in idx.st.causes THEN Skipped(idx, NoNode, NoPath)
    ELSE IF idx.st.causes # {} THEN Skipped(idx, idx.root, LastCompletePath(idx.root))
    ELSE IF idx.root = NoNode THEN ParseFailed(idx.st)
    ELSE ParseSemantic(ls, TRUE, idx.root, idx.src, idx.st)

\* Parse: what a message becomes under the limits lim (Unlimited: SMTP delivery,
\* which builds no index).
Parse(ls, lim) ==
    LET inspection == lim # Unlimited
    IN  IF ls = <<>> THEN [ParseFailed(EmptyBudget) EXCEPT !.err = FALSE, !.skipped = inspection]
        ELSE IF inspection THEN ParseIndexed(ls, BuildRawIndex(ls, lim))
        ELSE ParseSemantic(ls, FALSE, NoNode, NoIndex, EmptyBudget)
=============================================================================
