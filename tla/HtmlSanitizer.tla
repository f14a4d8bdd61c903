--------------------------- MODULE HtmlSanitizer ---------------------------
(***************************************************************************)
(* inspect.rewriteEmailURLs with enforceSafety: which tokens of a HTML     *)
(* body are written to the page and which are dropped with an active       *)
(* element (script, form, ...).                                            *)
(*                                                                         *)
(* A token is [t, n]: a "start", "self" (closing), "end" or "text" token   *)
(* and its name.  The tokenizer is external: any sequence of tokens may    *)
(* come.  The rewriting of the attributes of a and img is left out.        *)
(*                                                                         *)
(* state.open is a Go slice: cutting it keeps the array behind it, and     *)
(* open[:openDepth] brings elements back that were cut off below that      *)
(* depth in the meantime.                                                  *)
(***************************************************************************)
EXTENDS Naturals, Sequences, FiniteSets, FiniteSetsExt, SequencesExt

Token(type, name) == [t |-> type, n |-> name]

\* One name for each row of the four tables of names.
IsActiveContent(name) == name \in {"script", "form", "embed"}
IsActiveRecovery(name) == name \in {"div", "hr"}
IsVoid(name) == name \in {"br", "hr", "embed"}

Opens(token) == token.t \in {"start", "self"}

\* activeContentDropState, emittedOpen and the output.
InitialSanitizer ==
    [containers |-> <<>>, open |-> [array |-> <<>>, len |-> 0], malformed |-> FALSE,
     emitted |-> <<>>, out |-> <<>>]

\* state.open[:n], append(state.open, name) and its elements.
Cut(open, n) == [open EXCEPT !.len = n]
Grow(open, name) ==
    [array |-> [i \in 1..Max({Len(open.array), open.len + 1}) |->
                   IF i = open.len + 1 THEN name ELSE open.array[i]],
     len |-> open.len + 1]
Elements(open) == SubSeq(open.array, 1, open.len)

\* lastElementIndex, containerIndex: 0 when there is none.
LastIndex(names, name) ==
    LET at == {i \in 1..Len(names) : names[i] = name} IN IF at = {} THEN 0 ELSE Max(at)

ContainerNames(s) == [i \in 1..Len(s.containers) |-> s.containers[i].name]

Push(s, name) == [s EXCEPT !.containers = Append(@, [name |-> name, depth |-> s.open.len])]
Reset(s) == [s EXCEPT !.containers = <<>>, !.open = Cut(@, 0), !.malformed = FALSE]

\* updateOpenElements
UpdateOpen(open, token) ==
    IF token.t = "start" /\ ~IsVoid(token.n) THEN Append(open, token.n)
    ELSE IF token.t = "end" /\ LastIndex(open, token.n) > 0
         THEN SubSeq(open, 1, LastIndex(open, token.n) - 1)
    ELSE open

Emit(s, token) == [s EXCEPT !.out = Append(@, token), !.emitted = UpdateOpen(@, token)]

\* consume, for a start tag inside a dropped element.
DropStart(s, token) ==
    IF IsActiveContent(token.n)
    THEN LET marked == [s EXCEPT !.malformed = TRUE]
         IN  IF token.t = "start" /\ ~IsVoid(token.n) THEN Push(marked, token.n) ELSE marked
    ELSE IF s.malformed /\ s.open.len = 0 /\ IsActiveRecovery(token.n) THEN Emit(Reset(s), token)
    ELSE IF token.t = "start" /\ ~IsVoid(token.n) THEN [s EXCEPT !.open = Grow(@, token.n)]
    ELSE s

\* consume, for an end tag inside a dropped element.
DropEnd(s, token) ==
    LET inner == LastIndex(Elements(s.open), token.n)
        index == LastIndex(ContainerNames(s), token.n)
    IN  IF inner > 0 THEN [s EXCEPT !.open = Cut(@, inner - 1)]
        ELSE IF index = 1 THEN Reset(s)
        ELSE IF index > 1
             THEN [s EXCEPT !.containers = SubSeq(@, 1, index - 1),
                            !.open = Cut(@, s.containers[index].depth)]
        ELSE IF LastIndex(s.emitted, token.n) > 0 THEN Emit(Reset(s), token)
        ELSE s

\* Mutant: a block element ends the dropping of any active element.
RewriteRecovers(s, token) ==
    IF s.containers = <<>> \/ (Opens(token) /\ IsActiveRecovery(token.n))
    THEN IF Opens(token) /\ IsActiveContent(token.n) THEN Push(s, token.n) ELSE Emit(Reset(s), token)
    ELSE IF Opens(token) THEN DropStart(s, token)
    ELSE IF token.t = "end" THEN DropEnd(s, token)
    ELSE s

\* One turn of the loop of rewriteEmailURLs.
Rewrite(s, token) ==
    IF s.containers = <<>>
    THEN IF Opens(token) /\ IsActiveContent(token.n) THEN Push(s, token.n) ELSE Emit(s, token)
    ELSE IF Opens(token) THEN DropStart(s, token)
    ELSE IF token.t = "end" THEN DropEnd(s, token)
    ELSE s

-----------------------------------------------------------------------------
(* What the tokens say: the elements of a well-nested document. *)

OpeningTags(tokens) == {i \in 1..Len(tokens) : tokens[i].t = "start" /\ ~IsVoid(tokens[i].n)}

Level(tokens, i) ==
    Cardinality({k \in OpeningTags(tokens) : k <= i}) - Cardinality({k \in 1..i : tokens[k].t = "end"})

\* The end tag of the element that starts at i.
Ending(tokens, i) ==
    LET at == {j \in (i + 1)..Len(tokens) : Level(tokens, j) < Level(tokens, i)}
    IN  IF at = {} THEN 0 ELSE Min(at)

ActiveAt(tokens) == {i \in 1..Len(tokens) : Opens(tokens[i]) /\ IsActiveContent(tokens[i].n)}

\* Every element is closed by its own end tag, and an active one is neither
\* empty by its syntax nor inside of another.
WellNested(tokens) ==
    /\ \A i \in OpeningTags(tokens) : Ending(tokens, i) > 0 /\ tokens[Ending(tokens, i)].n = tokens[i].n
    /\ Cardinality(OpeningTags(tokens)) = Cardinality({j \in 1..Len(tokens) : tokens[j].t = "end"})
    /\ \A i \in ActiveAt(tokens) :
         /\ i \in OpeningTags(tokens)
         /\ ActiveAt(tokens) \cap (i + 1)..Ending(tokens, i) = {}

\* The tokens outside of every active element, after each token.
IsOutside(tokens, k) == \A i \in ActiveAt(tokens) : k < i \/ k > Ending(tokens, i)

OutsideUpTo(tokens) ==
    LET o[k \in 0..Len(tokens)] ==
          IF k = 0 THEN <<>>
          ELSE IF IsOutside(tokens, k) THEN Append(o[k - 1], tokens[k]) ELSE o[k - 1]
    IN  o

Outside(tokens) == OutsideUpTo(tokens)[Len(tokens)]

\* No active element reaches the page.
Inert(s) == \A k \in 1..Len(s.out) : ~(Opens(s.out[k]) /\ IsActiveContent(s.out[k].n))

\* What follows the active start tag at i says nothing that ends the dropping: no
\* end tag, and no block element unless there was no other active element.
Dropping(tokens, i) ==
    LET after == {tokens[j] : j \in (i + 1)..Len(tokens)}
    IN  /\ \A token \in after : token.t # "end"
        /\ \/ \A token \in after : ~(Opens(token) /\ IsActiveRecovery(token.n))
           \/ ActiveAt(tokens) = {i}

\* The sanitizer of a message body: no active element reaches the page, a
\* well-nested document loses its active elements and nothing else, and in any
\* document nothing is written after an active start tag until an end tag follows,
\* or a block element and a second active element.
Sanitized(tokens, s) ==
    /\ Inert(s)
    /\ WellNested(tokens) => s.out = Outside(tokens)
    /\ \A i \in ActiveAt(tokens) : Dropping(tokens, i) => Len(s.out) < i
=============================================================================
