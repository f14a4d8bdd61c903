--------------------------- MODULE InspectReport ---------------------------
(***************************************************************************)
(* inspect.Analyze: the report on a message, from the document mimeparse   *)
(* makes of it under the inspection limits: the analysis, message, MIME    *)
(* and body rules, the resources, and the report with its limits.          *)
(*                                                                         *)
(* A header field is a line L("field", name) whose `start` says what its   *)
(* value is: "" valid, "bad", "group", "two" (mailboxes), "utf8", "raw8".  *)
(* A text line's b is "LF" (bare), "long" (over 78), "over" (over 998) or  *)
(* the URL in it, "big" one that is too long.  A finding is [id, path,     *)
(* cat, out, sev, ev], ev its number of pieces of evidence; sizes count    *)
(* these pieces.  The HTML passes are external: `pass` is the cause that   *)
(* they give, if any.  Left out: authentication, unsubscribe, privacy and  *)
(* HTML rules, charsets, dispositions, encoded payloads, wording,          *)
(* references and field-value syntax.                                      *)
(***************************************************************************)
EXTENDS Presentation

CONSTANTS MaxFindings, MaxEvidence, MaxResources, MaxReportSize

ASSUME ReportAssumption ==
    /\ {MaxFindings, MaxEvidence, MaxResources, MaxReportSize} \subseteq Nat \ {0}
    /\ MaxFindings > 1

Rules == <<"analysis.parse", "analysis.raw-unavailable", "analysis.truncated",
           "content.alternative", "content.body", "message.address-fields", "message.date",
           "message.from", "message.header-syntax", "message.internationalized-headers",
           "message.line-endings", "message.line-length", "message.message-id",
           "message.sender", "message.singletons", "message.threading", "mime.alternative",
           "mime.content-id", "mime.content-type", "mime.header-syntax", "mime.related",
           "mime.structure", "mime.transfer-encoding", "mime.version">>
CategoryOrder == [analysis |-> 0, message |-> 1, mime |-> 2, content |-> 5]
Places(seq) == [x \in ToSet(seq) |-> CHOOSE i \in 1..Len(seq) : seq[i] = x]
RuleOrder == Places(Rules)

Finding(cat, id, path, verdict, ev) ==
    [cat |-> cat, id |-> id, path |-> path, out |-> verdict[1], sev |-> verdict[2], ev |-> ev]

Fail == <<"fail", "error">>
Pass == <<"pass", "none">>
Warning == <<"pass", "warning">>
Observed == <<"observed", "none">>
NotEvaluated == <<"not-evaluated", "none">>

-----------------------------------------------------------------------------
(* The analyzer: [findings, causes, unavailable, resources]. *)

AddCause(a, cause) == IF cause = "" THEN a ELSE [a EXCEPT !.causes = @ \cup {cause}]
AddUnavailable(a, families) == [a EXCEPT !.unavailable = @ \cup families]

\* addFinding, for one finding after the other
AddFindings(a, fs) ==
    AddCause([a EXCEPT !.findings = @ \o [i \in 1..Len(fs) |-> [fs[i] EXCEPT !.ev = Min({@, MaxEvidence})]]],
             IF \E i \in 1..Len(fs) : fs[i].ev > MaxEvidence THEN "evidence" ELSE "")

AddFinding(a, f) == AddFindings(a, <<f>>)

\* addResource: resources are told apart by where they are and what they name.
AddResource(a, r) ==
    IF r.url = "big" THEN AddCause(a, "resource values")
    ELSE IF r \in ToSet(a.resources) THEN a
    ELSE IF Len(a.resources) >= MaxResources THEN AddCause(a, "resources")
    ELSE [a EXCEPT !.resources = Append(@, r)]

-----------------------------------------------------------------------------
(* The rules.  d is [doc, lines, present, whole, complete]: whole says that  *)
(* no limit cut the document, complete that it was read to its end as well.  *)

\* runAnalysisRules
AnalysisRules(a, d) ==
    LET raw == {"message", "mime", "authentication", "unsubscribe"}
        parse(verdict, ev) == Finding("analysis", "analysis.parse", NoPath, verdict, ev)
    IN  IF ~d.present
        THEN AddFindings(AddUnavailable(a, raw),
                         <<Finding("analysis", "analysis.raw-unavailable", NoPath, Observed, 0),
                           parse(NotEvaluated, 0)>>)
        ELSE IF "raw" \in a.causes THEN AddFinding(AddUnavailable(a, raw), parse(NotEvaluated, 0))
        ELSE IF d.doc.skipped \/ (d.doc.truncated /\ ~d.doc.err)
             THEN AddFinding(AddUnavailable(a, {"mime"}), parse(NotEvaluated, 0))
        ELSE IF d.doc.err THEN AddFinding(AddUnavailable(a, {"mime"}), parse(Fail, 1))
        ELSE AddFinding(a, parse(Observed, 0))

Named(fields, name) == SelectSeq(fields, LAMBDA f : f.k = "field" /\ f.b = name)

Message(id, verdict, ev) == Finding("message", id, NoPath, verdict, ev)
When(condition, finding) == IF condition THEN <<finding>> ELSE <<>>


\* ruleLineEndings
RuleLineEndings(d) ==
    LET bare == Cardinality({i \in 1..Len(d.lines) : d.lines[i].b = "LF"})
    IN  IF bare > 0 THEN <<Message("message.line-endings", Fail, bare)>>
        ELSE When(d.complete, Message("message.line-endings", Pass, 0))

\* ruleLineLength
RuleLineLength(d) ==
    LET some(b) == \E i \in 1..Len(d.lines) : d.lines[i].b = b
    IN  IF some("over") THEN <<Message("message.line-length", Fail, 1)>>
        ELSE IF some("long") THEN <<Message("message.line-length", Warning, 1)>>
        ELSE When(d.complete, Message("message.line-length", Pass, 1))

\* inspectHeaderBlock: a line of the header block that is no field.
HeaderDefect(n) == \E i \in 1..Len(n.head) : n.head[i].k \notin FieldKinds

\* ruleHeaderSyntax
RuleHeaderSyntax(d, n, cat, id) ==
    IF HeaderDefect(n) THEN <<Finding(cat, id, n.path, Fail, 1)>>
    ELSE When(IF cat = "mime" THEN d.whole ELSE d.complete, Finding(cat, id, n.path, Pass, 0))

HeaderFields(n) == Fields(n.head, 1, Len(n.head) + 1)

\* ruleDate
RuleDate(d, fields) ==
    LET values == Named(fields, "Date")
    IN  IF Len(values) # 1 \/ values[1].start = "bad"
        THEN <<Message("message.date", Fail, Len(values))>>
        ELSE When(d.complete, Message("message.date", Pass, 0))

FromValid(fields) == Len(Named(fields, "From")) = 1 /\ Named(fields, "From")[1].start # "bad"

\* ruleFrom
RuleFrom(fields) ==
    LET values == Named(fields, "From")
    IN  IF ~FromValid(fields) THEN <<Message("message.from", Fail, Len(values))>>
        ELSE <<Message("message.from", IF values[1].start = "group" THEN Warning ELSE Pass, 0)>>

\* ruleSender
RuleSender(fields) ==
    LET values == Named(fields, "Sender")
        from == Named(fields, "From")
        required == FromValid(fields) /\ from[1].start = "two"
        plain == FromValid(fields) /\ from[1].start \notin {"two", "group"}
    IN  IF values = <<>> /\ ~required THEN <<>>
        ELSE IF Len(values) # 1 \/ values[1].start \in {"bad", "two"}
             THEN <<Message("message.sender", Fail, Len(values))>>
        ELSE <<Message("message.sender",
                       IF values[1].start = "group" \/ plain THEN Warning ELSE Pass, 0)>>

\* ruleMessageID
RuleMessageID(fields) ==
    LET values == Named(fields, "Message-ID")
    IN  <<Message("message.message-id",
                  IF values = <<>> THEN Warning
                  ELSE IF Len(values) # 1 \/ values[1].start = "bad" THEN Fail ELSE Pass,
                  Len(values))>>

\* ruleSingletons
RuleSingletons(fields) ==
    LET twice == {name \in {"To", "References"} : Len(Named(fields, name)) > 1}
        found == {i \in 1..Len(fields) : fields[i].k = "field" /\ fields[i].b \in twice}
    IN  <<Message("message.singletons", IF twice = {} THEN Pass ELSE Fail, Cardinality(found))>>

\* ruleAddressField and ruleThreading, of one field each.
RuleOptional(fields, name, id) ==
    LET values == Named(fields, name)
    IN  When(values # <<>>,
             IF Len(values) > 1 \/ values[1].start = "bad" THEN Message(id, Fail, Len(values))
             ELSE Message(id, Pass, 0))

\* ruleInternationalizedHeaders: of every node of the document.
RuleInternationalizedHeaders(d) ==
    LET nodes == Preorder(d.doc.root)
        heads == FlattenSeq([i \in 1..Len(nodes) |-> nodes[i].head])
        found(value) == {i \in 1..Len(heads) : heads[i].start = value}
        id == "message.internationalized-headers"
    IN  IF found("raw8") # {} THEN <<Message(id, Fail, Cardinality(found("raw8")))>>
        ELSE IF found("utf8") # {} THEN <<Message(id, Observed, Cardinality(found("utf8")))>>
        ELSE When(d.whole, Message(id, Pass, 0))

\* runMessageRules
MessageRules(d) ==
    LET root == d.doc.root
        top == HeaderFields(root)
    IN  RuleLineEndings(d) \o RuleHeaderSyntax(d, root, "message", "message.header-syntax")
        \o RuleLineLength(d) \o RuleDate(d, top) \o RuleFrom(top) \o RuleSender(top)
        \o RuleMessageID(top) \o RuleSingletons(top)
        \o RuleOptional(top, "To", "message.address-fields")
        \o RuleOptional(top, "References", "message.threading")
        \o RuleInternationalizedHeaders(d)

\* structuralDefect; an unclosed boundary is a semantic error before it.
StructuralDefect(root) == \E n \in ToSet(Preorder(root)) : n.type \in Multiparts /\ n.b = ""

\* ruleRelated
RuleRelated(n) ==
    LET matches == {i \in 1..Len(n.kids) : n.kids[i].cid = n.start}
    IN  IF n.kids = <<>> \/ (n.start # "" /\ Cardinality(matches) # 1) THEN Fail ELSE Pass

\* ruleAlternative
RuleAlternative(n) ==
    LET of(i) == SelectPresentation(n.kids[i])
        html == {i \in 1..Len(n.kids) : of(i).supported /\ of(i).html # NoNode}
        text == {i \in 1..Len(n.kids) : of(i).supported /\ of(i).html = NoNode /\ of(i).text # NoNode}
    IN  IF html # {} /\ (text = {} \/ Max(text) > Max(html)) THEN Warning ELSE Pass

\* ruleMIMEContentType, ruleMIMETransfer, ruleMIMEContentID, ruleRelated and
\* ruleAlternative of one node.
PartRules(d, n, root) ==
    LET part(id, verdict, ev) == Finding("mime", id, n.path, verdict, ev)
        types == SelectSeq(HeaderFields(n), LAMBDA f : f.k \in TypeKinds)
        codings == SelectSeq(HeaderFields(n), LAMBDA f : f.k = "base64")
        bad == Len(types) > 1 \/ n.malformed \/ (n.type \in Multiparts /\ n.b = "")
        misused == Len(codings) > 1 \/ (n.kids # <<>> /\ codings # <<>>)
    IN  <<part("mime.content-type", IF bad THEN Fail ELSE Pass, IF bad THEN Len(types) ELSE 1)>>
        \o (IF n = root THEN <<>> ELSE RuleHeaderSyntax(d, n, "mime", "mime.header-syntax"))
        \o <<part("mime.transfer-encoding", IF misused THEN Fail ELSE Pass, IF misused THEN Len(codings) ELSE 0)>>
        \o When(n.cid # "", part("mime.content-id", Pass, 0))
        \o When(n.type = "related", part("mime.related", RuleRelated(n), 0))
        \o When(n.type = "alternative", part("mime.alternative", RuleAlternative(n), 0))

\* runMIMERules
MimeRules(d) ==
    LET root == d.doc.root
        top == HeaderFields(root)
        version == Named(top, "MIME-Version")
        triggered == version # <<>> \/ FirstOf(top, TypeKinds \cup {"base64"}, L("", "")).k # ""
        nodes == Preorder(root)
        mime(id, verdict) == Finding("mime", id, NoPath, verdict, 0)
    IN  When(triggered, mime("mime.version", IF Len(version) = 1 /\ version[1].start # "bad" THEN Pass ELSE Fail))
        \o (IF d.doc.err \/ d.doc.truncated THEN <<mime("mime.structure", Observed)>>
            ELSE <<mime("mime.structure", IF StructuralDefect(root) THEN Fail ELSE Pass)>>
                 \o FlattenSeq([i \in 1..Len(nodes) |-> PartRules(d, nodes[i], root)]))

BodyOf(n) == IF n = NoNode THEN <<>> ELSE n.body

\* selectBodies: the selected parts, or the stored bodies in their place.
SelectBodies(a, d, legacy) ==
    LET p == SelectPresentation(d.doc.root)
    IN  IF d.present /\ d.doc.root # NoNode /\ ~d.doc.err /\ ~d.doc.truncated /\ p.supported
        THEN [a |-> a, fallback |-> FALSE, text |-> BodyOf(p.text), html |-> BodyOf(p.html)]
        ELSE [a |-> IF legacy = "over" THEN AddCause(a, "legacy body bytes") ELSE a,
              fallback |-> TRUE, html |-> <<>>, text |-> IF legacy = "none" THEN <<>> ELSE <<L("text", "url")>>]

\* The rules on the bodies (runContentRules).
ContentRules(body) ==
    LET content(id, verdict) == Finding("content", id, NoPath, verdict, 0)
        html == body.html # <<>>
        text == body.text # <<>>
    IN  IF body.fallback
        THEN <<content("content.body", NotEvaluated), content("content.alternative", NotEvaluated)>>
        ELSE <<content("content.body", IF html \/ text THEN Pass ELSE Warning)>>
             \o When(html \/ text, content("content.alternative",
                                           IF ~html THEN Observed ELSE IF text THEN Pass ELSE Warning))

\* analyzeContent and addAttachmentResources.
Resources(d, body) ==
    LET links == SelectSeq(IF body.html # <<>> THEN body.html ELSE body.text,
                           LAMBDA l : l.k = "text" /\ l.b \notin {"", "LF", "long", "over"})
        p == IF d.doc.truncated THEN None ELSE SelectPresentation(d.doc.root)
        attached == IF d.doc.root = NoNode THEN <<>> ELSE IF p.supported THEN p.attachments
                    ELSE p.attachments \o AppendAttachments(d.doc.root)
    IN  [i \in 1..Len(links) |-> [at |-> NoPath, url |-> links[i].b]]
        \o [i \in 1..Len(attached) |-> [at |-> attached[i].path, url |-> ""]]

-----------------------------------------------------------------------------
(* The report: [state, truncated, unavailable, through, headers, findings,  *)
(* resources, tree, meta, compat, summary]; headers, tree, meta and compat   *)
(* are sizes.                                                                *)

\* The verdicts in the order that findingLess ranks them.
Ranks == Places(<<Fail, Warning, NotEvaluated, Observed, Pass>>)

\* findingLess
FindingLess(f, g) ==
    LET rank(x) == Ranks[<<x.out, x.sev>>]
    IN  IF CategoryOrder[f.cat] # CategoryOrder[g.cat] THEN CategoryOrder[f.cat] < CategoryOrder[g.cat]
        ELSE IF rank(f) # rank(g) THEN rank(f) < rank(g)
        ELSE RuleOrder[f.id] < RuleOrder[g.id]

\* sort.SliceStable
Sorted(fs) ==
    FoldLeft(LAMBDA sorted, f : SelectSeq(sorted, LAMBDA g : ~FindingLess(f, g)) \o <<f>>
                                \o SelectSeq(sorted, LAMBDA g : FindingLess(f, g)), <<>>, fs)

\* summarize
Summarize(fs) ==
    [v \in DOMAIN Ranks |-> Cardinality({i \in DOMAIN fs : <<fs[i].out, fs[i].sev>> = v})]

Marker == Finding("analysis", "analysis.truncated", NoPath, Observed, 0)
IsMarker(f) == f.id = Marker.id

\* ensureTruncationFinding
EnsureTruncationFinding(fs) ==
    IF \E i \in DOMAIN fs : IsMarker(fs[i]) THEN fs
    ELSE Append(IF Len(fs) >= MaxFindings THEN Front(fs) ELSE fs, Marker)

Size(r) ==
    Len(r.findings) + SumFunction([i \in DOMAIN r.findings |-> r.findings[i].ev])
    + Len(r.resources) + r.headers + r.tree + r.meta + r.compat
Fits(r) == Size(r) <= MaxReportSize

RECURSIVE HalveHeaders(_), DropFindings(_)
HalveHeaders(r) ==
    IF Fits(r) \/ r.headers = 0 THEN r ELSE HalveHeaders([r EXCEPT !.headers = @ \div 2])

\* The last finding goes first, the marker never.
DropFindings(r) ==
    LET last == Len(r.findings)
    IN  IF Fits(r) \/ last <= 1 THEN r
        ELSE DropFindings([r EXCEPT !.findings =
                RemoveAt(@, IF IsMarker(@[last]) THEN last - 1 ELSE last)])


\* trimReport: each step is taken when the report is still too large.
DropCompatibility(r) == IF Fits(r) THEN r ELSE [r EXCEPT !.compat = 0]
DropResources(r) == IF Fits(r) THEN r ELSE [r EXCEPT !.resources = <<>>]
DropMetadata(r) == IF Fits(r) THEN r ELSE [r EXCEPT !.meta = 0]
DropEvidence(r) == IF Fits(r) THEN r ELSE [r EXCEPT !.findings = [i \in DOMAIN @ |-> [@[i] EXCEPT !.ev = 0]]]
DropTree(r) == IF Fits(r) THEN r ELSE [r EXCEPT !.tree = 0]
Recounted(r) == [r EXCEPT !.summary = Summarize(r.findings)]

TrimReport(r) ==
    Recounted(DropTree(DropFindings(DropEvidence(DropMetadata(
        HalveHeaders(DropResources(DropCompatibility(r))))))))

\* finishReport: one place is kept for the marker,
CapFindings(a) ==
    IF Len(a.findings) >= MaxFindings
    THEN AddCause([a EXCEPT !.findings = SubSeq(@, 1, MaxFindings - 1)], "findings") ELSE a

\* the report is put together,
NewReport(a, d, body, findings, nodes) ==
    LET cut == a.causes # {}
        partial == ~d.present \/ d.doc.err \/ cut
    IN  [state |-> IF partial THEN "partial" ELSE "complete", truncated |-> cut,
         unavailable |-> a.unavailable, through |-> IF partial THEN d.doc.through ELSE NoPath,
         headers |-> IF nodes = <<>> THEN 0 ELSE Len(HeaderFields(d.doc.root)),
         findings |-> findings, resources |-> a.resources, tree |-> Len(nodes),
         meta |-> Cardinality({i \in DOMAIN nodes : nodes[i].filename # "" \/ nodes[i].cid # ""}),
         compat |-> IF body.html = <<>> THEN 0 ELSE 1, summary |-> Summarize(findings)]

\* and trimmed if it is too large.
FitReport(r) ==
    IF Fits(r) THEN r
    ELSE TrimReport(Recounted([r EXCEPT !.findings = Sorted(EnsureTruncationFinding(@)),
                                        !.state = "partial", !.truncated = TRUE]))

MakeReport(a, d, body) ==
    FitReport(NewReport(a, d, body,
        Sorted(IF a.causes # {} THEN EnsureTruncationFinding(a.findings) ELSE a.findings),
        IF d.doc.root = NoNode \/ "raw" \in a.causes THEN <<>> ELSE Preorder(d.doc.root)))

\* finishReport; `warned` says that the compatibility pass hit its limit.
FinishReport(an, d, body, warned) ==
    MakeReport(IF warned /\ body.html # <<>>
               THEN AddUnavailable(AddCause(CapFindings(an), "compatibility warnings"), {"compatibility"})
               ELSE CapFindings(an), d, body)

\* The rules on the raw message, when there is one to apply them to.
RawRules(a, d) ==
    IF d.present /\ d.doc.root # NoNode /\ "raw" \notin a.causes
    THEN AddFindings(IF d.doc.truncated THEN AddUnavailable(a, {"mime"}) ELSE a,
                     MessageRules(d) \o MimeRules(d))
    ELSE a

\* The rules and resources of a document and its bodies; pass is the cause that
\* the HTML passes end with, if any.
AnalyzeBodies(d, body, pass) ==
    [d |-> d, body |-> body,
     an |-> FoldLeft(AddResource,
                AddFindings(AddCause(RawRules(AnalysisRules(body.a, d), d),
                                     IF body.html = <<>> THEN "" ELSE pass),
                            ContentRules(body)),
                Resources(d, body))]

AnalyzeDocument(d, legacy, pass) ==
    AnalyzeBodies(d, SelectBodies([findings |-> <<>>, causes |-> d.doc.budget.causes, unavailable |-> {},
                                   resources |-> <<>>], d, legacy), pass)

Inspected(ls, lim, doc) ==
    [doc |-> doc, present |-> ls # <<>>, whole |-> ls # <<>> /\ ~doc.truncated,
     lines |-> Scan(ls, lim.lines, doc.budget).lines,
     complete |-> ls # <<>> /\ ~doc.truncated /\ ~doc.err]

\* Analyze up to finishReport: [an, d, body].
Findings(ls, lim, legacy, pass) == AnalyzeDocument(Inspected(ls, lim, Parse(ls, lim)), legacy, pass)

\* Analyze: the HTML pass may end early (pass is its cause), and so may the
\* compatibility pass.
Finish(f, warned) == FinishReport(f.an, f.d, f.body, warned)
Analyze(ls, lim, legacy, pass, warned) == Finish(Findings(ls, lim, legacy, pass), warned)

-----------------------------------------------------------------------------
\* Limits that a message does not reach.
Generous(ls) == [Unlimited EXCEPT !.lines = Len(ls) + 100]

\* What a report r holds that is not truncated: all that was found (f).
InFull(f, r, whole) ==
    /\ ToSet(r.findings) = ToSet(f.an.findings)
    /\ \A i \in DOMAIN r.findings : r.findings[i].ev <= MaxEvidence
    /\ ToSet(r.resources) = {x \in ToSet(Resources(f.d, f.body)) : x.url # "big"}
    /\ r.tree = (IF f.d.doc.root = NoNode THEN 0 ELSE Len(Preorder(f.d.doc.root)))
    /\ f.d.doc.err \/ f.d.doc.root = whole.root

HonestAbout(f, r, whole) ==
    /\ Fits(r) /\ Len(r.findings) <= MaxFindings
    /\ Cardinality({i \in DOMAIN r.findings : IsMarker(r.findings[i])}) = (IF r.truncated THEN 1 ELSE 0)
    /\ r.summary = Summarize(r.findings)
    /\ r.truncated => r.state = "partial"
    /\ ~r.truncated => InFull(f, r, whole)

HonestFinish(f, warned, whole) == HonestAbout(f, Finish(f, warned), whole)

\* The report keeps its limits and says what it left out: it is truncated exactly
\* when it holds the marker, once; its summary counts the findings that it holds;
\* a report that is not truncated holds every finding and every resource in full.
ReportHonest(ls, lim, legacy, pass, warned) ==
    HonestFinish(Findings(ls, lim, legacy, pass), warned, Parse(ls, Generous(ls)))

\* Some header fields of the message are not in the parsed tree: the semantic pass
\* failed, or a stand-in has the place of a message whose header block is unreadable.
Unread(doc) == doc.err \/ \E n \in ToSet(Preorder(doc.root)) : n.standin

\* What an analysis says for certain: a defect, a warning, or that there is none.
Claims(f) == {g \in ToSet(f.an.findings) : g.out \in {"fail", "pass"}}

\* A finding of a limited analysis against one of the whole.
Upheld(f, g, unread) ==
    f.id = g.id /\ f.path = g.path =>
        \/ <<f.out, f.sev>> = <<g.out, g.sev>>
        \/ <<f.out, f.sev>> = Warning /\ g.out = "fail"
        \/ f.id = "message.internationalized-headers" /\ f.out = "fail" /\ unread

UpheldBy(found, all) ==
    \A lim \in DOMAIN found : \A f \in Claims(found[lim]) : \A g \in Claims(found[all]) :
        Upheld(f, g, Unread(found[all].d.doc))

\* A limit hides evidence, it never turns it around: what a limited analysis
\* says (a defect, a warning, or that there is none) the analysis of the whole
\* message does not deny; a warning may become a defect.  The code has one
\* exception: a limited report is on the raw index, which has fields that the tree
\* of an unread part lacks; RuleInternationalizedHeaders then fails on the index,
\* and passes on the tree, because it does not ask for a complete parse.
VerdictsStand(ls, limits) ==
    UpheldBy([lim \in limits \cup {Generous(ls)} |-> Findings(ls, lim, "none", "")], Generous(ls))
=============================================================================
