------------------------------- MODULE DocTree -------------------------------
(***************************************************************************)
(* convert (internal/docparser/parser.go): the syntax tree of a page of    *)
(* Markdown becomes the tree of tokens that the documentation server       *)
(* sends.  The tree is walked by ast.Walk of goldmark, which calls back    *)
(* when it enters a node and when it leaves it; convert keeps the token    *)
(* under which the next one goes in the variable root.                     *)
(*                                                                         *)
(* A syntax tree is the sequence of its nodes in the order in which they   *)
(* are entered, each with its depth; the Document itself, at depth 0, is   *)
(* left out.  A text is a sequence of words.  The tokens are numbered as   *)
(* they are made, and a token has the number of its parent: 0 is the       *)
(* Document, NoToken its parent.                                           *)
(***************************************************************************)
EXTENDS Integers, Sequences, SequencesExt

NoToken == -1

\* The nodes for which convert has a case; a node of another kind is skipped.
KnownNodes == {"Heading", "Text", "TextBlock", "Paragraph", "CodeSpan",
               "FencedCodeBlock", "Link", "List", "ListItem", "Admonition"}

\* Depths of a syntax tree.
IsTree(nodes) ==
  \A i \in DOMAIN nodes :
    /\ nodes[i].d >= 1
    /\ nodes[i].d <= 1 + (IF i = 1 THEN 0 ELSE nodes[i - 1].d)

\* The nodes below node i.
Below(nodes, i) ==
  {j \in DOMAIN nodes : j > i /\ \A k \in i + 1 .. j : nodes[k].d > nodes[i].d}

\* What goldmark makes of a page.  Texts and the code in fences have no children;
\* a block of text has no words but those of its children, and texts, which are
\* inline, are not among its siblings.
IsPage(nodes) ==
  /\ nodes \in Seq(ToSet(nodes))
  /\ \A i \in DOMAIN nodes : nodes[i].d \in Nat /\ nodes[i].text \in Seq(ToSet(nodes[i].text))
  /\ IsTree(nodes)
  /\ \A i \in DOMAIN nodes : Below(nodes, i) = {} \/ nodes[i].kind \notin {"Text", "FencedCodeBlock"}
  /\ \A i \in DOMAIN nodes : nodes[i].kind = "TextBlock" => nodes[i].text = <<>>
  /\ \A i, j \in DOMAIN nodes :
       (nodes[i].kind = "TextBlock" /\ nodes[j].kind = "Text" /\ nodes[i].d = nodes[j].d)
         => i > j \/ \E k \in i .. j : nodes[k].d < nodes[i].d

-----------------------------------------------------------------------------
(* Tokens. *)

\* The struct of a node: the attributes of its kind are one value.
Token(kind, text, attr, p) ==
  [kind |-> kind, text |-> text, attr |-> attr, parent |-> p]

\* parent() of a token of toks.
ParentOf(toks, t) == IF t = 0 THEN NoToken ELSE toks[t].parent

\* tokens() and lastChild().
Children(toks, t) == {i \in DOMAIN toks : toks[i].parent = t}
LastChild(toks, t) ==
  IF Children(toks, t) = {} THEN NoToken
  ELSE CHOOSE i \in Children(toks, t) : \A j \in Children(toks, t) : j <= i

\* Mutant: the text of a token is not copied.
CopyWithoutText(toks) ==
  [i \in DOMAIN toks |-> Token(toks[i].kind, <<>>, toks[i].attr, toks[i].parent)]

\* copy(), from the Document down: kind, text and attributes of each token,
\* and its place among the others.
CopyTokens(toks) ==
  [i \in DOMAIN toks |->
     Token(toks[i].kind, toks[i].text, toks[i].attr, toks[i].parent)]

-----------------------------------------------------------------------------
(* The walk. *)

TokenKind(kind) ==
  CASE kind = "TextBlock"       -> "Text"
    [] kind = "FencedCodeBlock" -> "CodeBlock"
    [] OTHER                    -> kind

Concat(texts) == FlattenSeq(texts)

\* node.Text(source): of a node that has children it is the text of these.
NodeText(nodes, i) ==
  IF Below(nodes, i) = {} THEN nodes[i].text
  ELSE Concat([k \in 1 .. Len(nodes) |->
                 IF k \in Below(nodes, i) THEN nodes[k].text ELSE <<>>])

\* The kinds whose token is given the text of its node.
WithText == {"Text", "TextBlock", "CodeSpan", "FencedCodeBlock"}

WalkStart == [toks |-> <<>>, root |-> 0, depth |-> 0, skip |-> 0, stopped |-> FALSE]

\* The callback for a node that is left.
Leave(w) ==
  LET up == ParentOf(w.toks, w.root)
  IN  IF w.stopped THEN w
      ELSE [w EXCEPT !.root = up, !.stopped = (up = NoToken)]

\* The callback for a node that is entered.  A text goes into the text before
\* it, if there is one.
Enter(w, nodes, i) ==
  LET n == nodes[i]
      prev == LastChild(w.toks, w.root)
      at == [w EXCEPT !.depth = n.d, !.skip = 0]
      text == IF n.kind \in WithText THEN NodeText(nodes, i) ELSE <<>>
  IN  CASE n.kind \notin KnownNodes -> [at EXCEPT !.skip = n.d]
        [] n.kind = "Text" /\ prev # NoToken /\ w.toks[prev].kind = "Text" ->
             [at EXCEPT !.root = prev, !.toks[prev].text = @ \o text]
        [] OTHER ->
             [at EXCEPT !.toks = Append(@, Token(TokenKind(n.kind), text, n.attr, w.root)),
                        !.root = Len(w.toks) + 1]

\* The callbacks for n nodes that are left, from the innermost one.
LeaveAll(w, n) ==
  LET up[k \in 0 .. n] == IF k = 0 THEN w ELSE Leave(up[k - 1])
  IN  up[n]

\* ast.Walk comes to node i: it leaves the nodes that end before it.  Children
\* of a node that is skipped are not visited; the node itself is left.
Visit(w, nodes, i) ==
  IF w.stopped \/ (w.skip # 0 /\ nodes[i].d > w.skip) THEN w
  ELSE LET left == LeaveAll(w, w.depth + 1 - nodes[i].d)
       IN  IF left.stopped THEN left ELSE Enter(left, nodes, i)

\* fix: a text with tokens below it gives up its own text.
Fix(toks) ==
  [t \in DOMAIN toks |->
     IF toks[t].kind = "Text" /\ Children(toks, t) # {}
     THEN [toks[t] EXCEPT !.text = <<>>] ELSE toks[t]]

Convert(nodes) ==
  LET upTo[i \in 0 .. Len(nodes)] ==
        IF i = 0 THEN WalkStart ELSE Visit(upTo[i - 1], nodes, i)
  IN  Fix(upTo[Len(nodes)].toks)

-----------------------------------------------------------------------------
(* What the tokens should be. *)

\* A node continues the token of the text that is its elder sibling.
Continues(nodes, i) ==
  /\ nodes[i].kind = "Text"
  /\ i > 1
  /\ nodes[i - 1].kind = "Text" /\ nodes[i - 1].d = nodes[i].d

\* The words that a reader sees, in their order.
Words(toks) ==
  Concat([t \in DOMAIN toks |->
            IF toks[t].kind \in {"Text", "CodeBlock"} THEN toks[t].text ELSE <<>>])
NodeWords(nodes) ==
  Concat([i \in DOMAIN nodes |->
            IF nodes[i].kind \in {"Text", "FencedCodeBlock"} THEN nodes[i].text ELSE <<>>])

\* The nearest node over node i.
Over(nodes, i) ==
  CHOOSE j \in 0 .. i - 1 :
    /\ IF j = 0 THEN nodes[i].d = 1 ELSE nodes[j].d = nodes[i].d - 1
    /\ \A k \in j + 1 .. i - 1 : nodes[k].d >= nodes[i].d

\* The nodes that have a token of their own.
Heads(nodes) ==
  LET upTo[i \in 0 .. Len(nodes)] ==
        IF i = 0 THEN <<>>
        ELSE IF Continues(nodes, i) THEN upTo[i - 1] ELSE Append(upTo[i - 1], i)
  IN  upTo[Len(nodes)]

\* What is seen of tokens, and what should be seen of a tree: one token for
\* each node, but for texts in a row, under the token for the node above it,
\* and all the words in order.
Outline(toks) ==
  [tokens |-> [t \in DOMAIN toks |-> <<toks[t].kind, toks[t].attr, toks[t].parent>>],
   words  |-> Words(toks)]
OutlineOf(nodes) ==
  LET heads == Heads(nodes)
      token(j) == IF j = 0 THEN 0 ELSE CHOOSE t \in DOMAIN heads : heads[t] = j
  IN  [tokens |-> [t \in DOMAIN heads |->
         <<TokenKind(nodes[heads[t]].kind), nodes[heads[t]].attr,
           token(Over(nodes, heads[t]))>>],
       words  |-> NodeWords(nodes)]

Renders(toks, nodes) == Outline(toks) = OutlineOf(nodes)
=============================================================================
