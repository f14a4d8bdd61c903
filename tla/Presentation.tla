---------------------------- MODULE Presentation ----------------------------
(***************************************************************************)
(* presentation.go and parser.go: which parts of a parsed message are      *)
(* shown as its text and its HTML, and which become attachments.           *)
(*                                                                         *)
(* A presentation is [text, html, attachments, supported] over the nodes   *)
(* of MimeParse.  A filename stands for any mark of an attachment; whether *)
(* an attachment shows its Content-ID is left out.                         *)
(***************************************************************************)
EXTENDS MimeParse

None == [text |-> NoNode, html |-> NoNode, attachments |-> <<>>, supported |-> FALSE]

Encapsulated(node) == node.type = "rfc822"

\* selectLeaf
SelectLeaf(node) ==
    IF node.malformed \/ node.filename # "" THEN None
    ELSE IF node.type = "plain" THEN [None EXCEPT !.text = node, !.supported = TRUE]
    ELSE IF node.type = "html" THEN [None EXCEPT !.html = node, !.supported = TRUE]
    ELSE None

RECURSIVE AppendAttachments(_), CalendarLeaves(_)

\* appendAttachments
AppendAttachments(node) ==
    IF Encapsulated(node) \/ node.kids = <<>> THEN <<node>>
    ELSE FlattenSeq([i \in 1..Len(node.kids) |-> AppendAttachments(node.kids[i])])

\* isCalendarPart
CalendarPart(node) == ~node.malformed /\ (node.type = "calendar" \/ node.filename = "invite.ics")

\* The leaves that appendCalendarAttachments comes to, in order.
CalendarLeaves(node) ==
    IF node.kids # <<>>
    THEN FlattenSeq([i \in 1..Len(node.kids) |-> CalendarLeaves(node.kids[i])])
    ELSE IF CalendarPart(node) THEN <<node>> ELSE <<>>

\* sameCalendarAttachment
SameCalendar(l, r) == l.filename = r.filename /\ l.type = r.type /\ l.body = r.body

\* appendCalendarAttachments: one that is attached already is left out.
AppendCalendars(attachments, node) ==
    FoldLeft(LAMBDA found, leaf :
                IF \E i \in 1..Len(found) : SameCalendar(found[i], leaf) THEN found
                ELSE Append(found, leaf),
             attachments, CalendarLeaves(node))

RECURSIVE SelectPresentation(_)

\* Mutant: the calendar parts of the alternatives that are not chosen are dropped.
SelectAlternativeOnly(node) ==
    LET of == [i \in 1..Len(node.kids) |-> SelectPresentation(node.kids[i])]
        supported == {i \in DOMAIN of : of[i].supported}
    IN  IF supported = {} THEN None ELSE of[Max(supported)]

\* selectAlternative: the last supported child wins; an HTML one is given the
\* text of the last plain-text one before it.
SelectAlternative(node) ==
    LET of == [i \in 1..Len(node.kids) |-> SelectPresentation(node.kids[i])]
        supported == {i \in DOMAIN of : of[i].supported}
        chosen == IF supported = {} THEN 0 ELSE Max(supported)
        best == IF chosen = 0 THEN None ELSE of[chosen]
        plain == {i \in supported \ {chosen} : of[i].text # NoNode /\ of[i].html = NoNode}
        paired == IF best.html # NoNode /\ best.text = NoNode /\ plain # {}
                  THEN [best EXCEPT !.text = of[Max(plain)].text] ELSE best
        others == SelectSeq([i \in DOMAIN of |-> i], LAMBDA i : i # chosen)
    IN  [paired EXCEPT !.attachments =
            FoldLeft(LAMBDA found, i : AppendCalendars(found, node.kids[i]), @, others)]

\* selectMixed: the first supported child is the body, the others are attached.
SelectMixed(node) ==
    LET of == [i \in 1..Len(node.kids) |-> SelectPresentation(node.kids[i])]
        supported == {i \in DOMAIN of : of[i].supported}
        body == IF supported = {} THEN 0 ELSE Min(supported)
        rest == SelectSeq([i \in DOMAIN of |-> i], LAMBDA i : i # body)
    IN  [(IF body = 0 THEN None ELSE of[body]) EXCEPT
            !.attachments = @ \o FlattenSeq([i \in 1..Len(rest) |-> AppendAttachments(node.kids[rest[i]])])]

\* selectRelated: the root is the first child, or the one that start names.
SelectRelated(node) ==
    LET start == node.start
        named == {i \in 1..Len(node.kids) : node.kids[i].cid = start}
        root == IF start = "" THEN 1 ELSE IF named = {} THEN 0 ELSE Min(named)
        selected == SelectPresentation(node.kids[root])
        rest == SelectSeq([i \in 1..Len(node.kids) |-> i], LAMBDA i : i # root)
    IN  IF root = 0 \/ ~selected.supported THEN None
        ELSE [selected EXCEPT !.attachments =
                @ \o FlattenSeq([i \in 1..Len(rest) |-> AppendAttachments(node.kids[rest[i]])])]

\* selectPresentation
SelectPresentation(node) ==
    IF node.kids = <<>> THEN SelectLeaf(node)
    ELSE IF Encapsulated(node) THEN None
    ELSE IF node.type = "alternative" THEN SelectAlternative(node)
    ELSE IF node.type = "related" THEN SelectRelated(node)
    ELSE SelectMixed(node)

\* What smtpserver.Parse stores: without a supported body every leaf is attached
\* (collectAllLeaves).
Stored(root) ==
    LET p == SelectPresentation(root)
    IN  IF p.supported THEN p ELSE [None EXCEPT !.attachments = AppendAttachments(root)]

-----------------------------------------------------------------------------
\* The places at which a stored message shows its parts.
Shown(p) ==
    SelectSeq(<<p.text, p.html>> \o p.attachments, LAMBDA n : n # NoNode)

\* The parts of a message that a reader is owed: its leaves and the messages in it.
Parts(root) ==
    LET nodes == ToSet(Preorder(root))
    IN  {n \in nodes : /\ n.kids = <<>> \/ Encapsulated(n)
                       /\ \A m \in nodes : Encapsulated(m) => ~IsStrictPrefix(m.path, n.path)}

RECURSIVE Presents(_)

\* The child that gives a multipart its body, 0 when none does: the last
\* alternative, the root of a multipart/related, or else the first child that can.
BodyChild(node) ==
    LET able == {i \in 1..Len(node.kids) : Presents(node.kids[i])}
        named == {i \in 1..Len(node.kids) : node.kids[i].cid = node.start}
        root == IF node.start = "" THEN 1 ELSE IF named = {} THEN 0 ELSE Min(named)
    IN  IF able = {} \/ (node.type = "related" /\ root \notin able) THEN 0
        ELSE CASE node.type = "alternative" -> Max(able)
               [] node.type = "related" -> root
               [] OTHER -> Min(able)

\* A body, or a multipart with one.
Presents(node) ==
    IF node.kids = <<>> THEN node.type \in {"plain", "html"} /\ ~node.malformed /\ node.filename = ""
    ELSE ~Encapsulated(node) /\ BodyChild(node) # 0

RECURSIVE PassedOver(_)
\* The branches that are not selected on the way to the body.
PassedOver(node) ==
    IF node.kids = <<>> \/ ~Presents(node) THEN {}
    ELSE LET body == BodyChild(node)
             others == {node.kids[i] : i \in DOMAIN node.kids \ {body}}
         IN  PassedOver(node.kids[body]) \cup (IF node.type = "alternative" THEN others ELSE {})

\* A branch has a plain text and no HTML.
PlainOnly(branch) ==
    LET p == SelectPresentation(branch) IN p.supported /\ p.text # NoNode /\ p.html = NoNode

\* Nothing a message holds gets lost or is shown twice (mail-protocols.md:95-102).
\* Every part outside of the alternatives that were not selected is the text, the
\* HTML or an attachment, in one place: the body and all attachments of the selected
\* branch too.  Of the alternatives that were not selected every calendar is attached,
\* or one that equals it; nothing else of them is shown but the plain text of one
\* that the selected HTML lacks, and that is not missing when there is one.
NothingLost(root) ==
    LET p == Stored(root)
        shown == Shown(p)
        passed == PassedOver(root)
        aside(n) == \E branch \in passed : IsPrefix(branch.path, n.path)
        attached(n) == \E i \in 1..Len(p.attachments) : p.attachments[i].path = n.path
        leaves == {n \in ToSet(Preorder(root)) : n.kids = <<>>}
    IN  /\ \A i, j \in 1..Len(shown) : i # j => shown[i].path # shown[j].path
        /\ \A n \in {x \in Parts(root) : ~aside(x)} : n.path \in {shown[i].path : i \in 1..Len(shown)}
        /\ \A n \in {x \in leaves : aside(x) /\ CalendarPart(x)} :
             \E i \in 1..Len(p.attachments) : SameCalendar(p.attachments[i], n)
        /\ \A n \in {x \in ToSet(shown) : aside(x)} :
             IF attached(n) THEN CalendarPart(n) ELSE n = p.text /\ p.html # NoNode
        /\ p.html # NoNode /\ p.text = NoNode => \A branch \in passed : ~PlainOnly(branch)
=============================================================================
