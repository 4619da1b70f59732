------------------------------- MODULE MCDocs -------------------------------
(***************************************************************************)
(* Pages for Docs, and all small trees for DocTree.                        *)
(***************************************************************************)
EXTENDS Docs

Node(d, kind, words) == [d |-> d, kind |-> kind, attr |-> kind, text |-> words]

Plain == << Node(1, "Heading", <<>>), Node(2, "Text", <<"a">>),
            Node(1, "Paragraph", <<>>), Node(2, "Text", <<"b">>), Node(2, "Text", <<"c">>),
            Node(2, "CodeSpan", <<>>), Node(3, "Text", <<"d">>), Node(2, "Text", <<"e">>) >>
Listing == << Node(1, "List", <<>>), Node(2, "ListItem", <<>>), Node(3, "TextBlock", <<>>),
              Node(4, "Text", <<"a">>), Node(1, "FencedCodeBlock", <<"b">>) >>
\* Emphasis is not a kind that convert knows.
Strong  == << Node(1, "Paragraph", <<>>), Node(2, "Text", <<"a">>), Node(2, "Emphasis", <<>>),
              Node(3, "Text", <<"b">>), Node(2, "Text", <<"c">>),
              Node(1, "Paragraph", <<>>), Node(2, "Text", <<"d">>) >>

File(id, cat, group, gweight, weight, tree) ==
  [id |-> id, cat |-> cat, group |-> group, gweight |-> gweight, weight |-> weight, tree |-> tree]

MCVersions == {"own", "v1", "v2"}
MCPagesOf ==
  "own" :> << File("o1", "Basic", "Start", -1, 2, Plain), File("o2", "Basic", "Start", -1, 1, Listing),
              File("o3", "Setup", "More", 3, 1, <<>>) >> @@
  "v1"  :> << File("p1", "Basic", "Urls", 2, 1, Listing), File("p2", "Basic", "Start", 1, 1, Plain) >> @@
  "v2"  :> << >>

OnePage == "own" :> << File("o1", "Basic", "Start", 1, 2, Strong) >> @@
           "v1"  :> << File("p1", "Basic", "Start", 2, 1, Plain) >> @@
           "v2"  :> << >>

-----------------------------------------------------------------------------
(* The trees of goldmark with up to MaxNodes nodes, grown node by node. *)

MaxNodes == 5
Under(kind) ==
  CASE kind = "Document"  -> {"Paragraph", "List", "FencedCodeBlock", "Admonition"}
    [] kind \in {"Paragraph", "TextBlock"} -> {"Text", "CodeSpan", "Link"}
    [] kind \in {"CodeSpan", "Link"} -> {"Text"}
    [] kind = "List"      -> {"ListItem"}
    [] kind = "ListItem"  -> {"TextBlock", "List"}
    [] OTHER              -> {}

\* The nodes that may come next: at each depth, what fits under the node that
\* is open there.
Open(tree, d) ==
  IF d = 0 THEN "Document"
  ELSE tree[CHOOSE i \in DOMAIN tree :
              tree[i].d = d /\ \A j \in i + 1 .. Len(tree) : tree[j].d > d].kind
Grown(tree) ==
  LET deepest == IF tree = <<>> THEN 0 ELSE Last(tree).d
  IN  UNION {{Append(tree, Node(d + 1, k, IF k \in {"Text", "FencedCodeBlock"}
                                          THEN <<Len(tree)>> ELSE <<>>)) :
                k \in Under(Open(tree, d))} : d \in 0 .. deepest}
Trees[n \in 0 .. MaxNodes] ==
  IF n = 0 THEN {<<>>} ELSE UNION {Grown(t) : t \in Trees[n - 1]}

\* They are pages, and convert renders each.
ASSUME ConvertRenders ==
  \A n \in 0 .. MaxNodes : \A tree \in Trees[n] : IsPage(tree) /\ Renders(Convert(tree), tree)
=============================================================================
