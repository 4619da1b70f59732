-------------------------------- MODULE Docs --------------------------------
(***************************************************************************)
(* The documentation of a cluster: from an extension, which publishes its  *)
(* pages in its image (cmd/extgen/wasi/publish.go) or serves them          *)
(* (extension/server.go), by way of the extension manager and the loop     *)
(* updateDocs (cmd/suffiks/main.go) to the store of pages                  *)
(* (internal/docparser/controller.go) and to who asks for them.            *)
(*                                                                         *)
(* The pages of an extension change as a whole: a version stands for them. *)
(* Images keep their tag when they are published again.                    *)
(***************************************************************************)
EXTENDS DocTree, FiniteSets, TLC

CONSTANTS
  Grpc,     \* the extensions that are servers
  Wasi,     \* the extensions that are images
  Versions, \* versions of the pages of an extension
  PagesOf,  \* the pages of a version, each a file
  Own,      \* the version of the pages in the operator's binary
  Down,     \* no server, in place of a version
  None,
  MaxEdits, \* releases of extensions, and failures of servers
  MaxChurn  \* Extension objects created and deleted

Ext     == Grpc \cup Wasi
OwnName == "_suffiks"
Names   == Ext \cup {OwnName}
Files   == UNION {ToSet(PagesOf[v]) : v \in Versions}

ASSUME DocsAssumption ==
  /\ IsFiniteSet(Ext)
  /\ Grpc \cap Wasi = {} /\ OwnName \notin Ext
  /\ Own \in Versions /\ Down \notin Versions /\ None \notin Versions
  /\ DOMAIN PagesOf = Versions /\ \A v \in Versions : PagesOf[v] \in Seq(Files)
  /\ \A f \in Files : IsPage(f.tree) /\ f.weight \in Int /\ f.gweight \in Int
  /\ \A f, g \in Files : f.id = g.id => f.tree = g.tree
  /\ MaxEdits \in Nat /\ MaxChurn \in Nat

VARIABLES
  served,     \* the version that the server of an extension has, or Down
  image,      \* the version that the tag of an extension points to
  wanted,     \* the Extension objects
  rec,        \* the worker of the extension reconciler
  registered, \* ExtensionManager.extensions
  module,     \* the version of the module that waruntime.Controller holds
  docs,       \* docparser.Controller.docs
  loop,       \* the goroutine updateDocs
  reply,      \* what a request gets that is answered in this step
  stopped,    \* the context of main is cancelled
  spent

authors == <<served, image>>
manager == <<rec, registered, module>>
vars == <<served, image, wanted, rec, registered, module, docs, loop, reply, stopped, spent>>

-----------------------------------------------------------------------------
(* Parse, Store and GetAll of docparser.Controller. *)

\* parseMD, of a file with front matter and a body.
ParseMD(file) ==
  [id |-> file.id, cat |-> file.cat, group |-> file.group, weight |-> file.weight,
   doc |-> Convert(file.tree)]

\* sort.Sort of a few elements is an insertion sort: it keeps the order of those
\* of one weight.
Insert(s, x) == InsertAt(s, 1 + Max({0} \cup {i \in DOMAIN s : s[i].weight <= x.weight}), x)
ByWeight(s) ==
  LET upTo[i \in 0 .. Len(s)] == IF i = 0 THEN <<>> ELSE Insert(upTo[i - 1], s[i])
  IN  upTo[Len(s)]

SortPages(groups) == [j \in DOMAIN groups |-> [groups[j] EXCEPT !.pages = ByWeight(@)]]

\* The element of s with a name, if there is one.
Find(s, name) == SelectInSeq(s, LAMBDA x : x.name = name)

\* One turn of the loop of Parse.  A group has the weight that its first page
\* gives it in brackets, or -1.
AddPage(cats, file) ==
  LET page == ParseMD(file)
      c == Find(cats, file.cat)
      withCat == IF c # 0 THEN cats ELSE Append(cats, [name |-> file.cat, groups |-> <<>>])
      i == IF c # 0 THEN c ELSE Len(withCat)
      groups == withCat[i].groups
      g == Find(groups, file.group)
      j == IF g # 0 THEN g ELSE Len(groups) + 1
      withGroup == IF g # 0 THEN groups
                   ELSE Append(groups, [name |-> file.group, weight |-> file.gweight,
                                        pages |-> <<>>])
  IN  [withCat EXCEPT ![i].groups = [withGroup EXCEPT ![j].pages = Append(@, page)]]

Parse(files) ==
  LET upTo[i \in 0 .. Len(files)] == IF i = 0 THEN <<>> ELSE AddPage(upTo[i - 1], files[i])
      cats == upTo[Len(files)]
  IN  [i \in DOMAIN cats |-> [cats[i] EXCEPT !.groups = SortPages(@)]]

ParsedOf == [v \in Versions |-> Parse(PagesOf[v])]

\* copy of a Category, down to the tokens of its pages.
CopyCategory(c) ==
  [name |-> c.name,
   groups |-> [j \in DOMAIN c.groups |->
     [name |-> c.groups[j].name, weight |-> c.groups[j].weight,
      pages |-> [k \in DOMAIN c.groups[j].pages |->
        [c.groups[j].pages[k] EXCEPT !.doc = CopyTokens(@)]]]]]

\* Mutant: the groups of the second category of a name are left out.
MergeFirst(cats, c) ==
  IF Find(cats, c.name) = 0 THEN Append(cats, c) ELSE cats

\* The categories of one name become one.
Merge(cats, c) ==
  LET i == Find(cats, c.name)
  IN  IF i = 0 THEN Append(cats, c) ELSE [cats EXCEPT ![i].groups = @ \o c.groups]

Merged(cats) ==
  LET upTo[i \in 0 .. Len(cats)] == IF i = 0 THEN <<>> ELSE Merge(upTo[i - 1], cats[i])
  IN  upTo[Len(cats)]

\* The two sorts at the end of GetAll.
Sorted(cats) ==
  [i \in DOMAIN cats |-> [cats[i] EXCEPT !.groups = SortPages(ByWeight(@))]]

\* The map is ranged over in any order.
Orders == [S \in SUBSET Names |-> SetToSeqs(S)]
Stored == {n \in Names : docs[n] # None}
Unprocessed(order) ==
  FlattenSeq([i \in DOMAIN order |->
    [k \in DOMAIN docs[order[i]] |-> CopyCategory(docs[order[i]][k])]])

\* Mutant: GetAll works on the categories of the store themselves; the groups
\* that are merged stay there.
GetAllInPlace ==
  /\ ~stopped
  /\ \E order \in Orders[Stored] :
       LET all == Sorted(Merged(Unprocessed(order)))
       IN  /\ reply' = all
           /\ docs' = [docs EXCEPT ![order[1]] =
                [k \in DOMAIN @ |-> all[Find(all, @[k].name)]]]
  /\ UNCHANGED <<authors, wanted, manager, loop, stopped, spent>>

\* The handler of a request calls GetAll, under the lock for readers, and
\* encodes what it returns.  After a signal the server takes no requests.
GetAll ==
  /\ ~stopped
  /\ \E order \in Orders[Stored] :
       reply' = Sorted(Merged(Unprocessed(order)))
  /\ UNCHANGED <<authors, wanted, manager, docs, loop, stopped, spent>>

-----------------------------------------------------------------------------
(* Authors and users. *)

Spend(what, limit) ==
  /\ spent[what] < limit
  /\ spent' = [spent EXCEPT ![what] = @ + 1]

\* extgen wasi publish: layers for the module and, if there are any, for the
\* pages; oras.Copy moves the tag when all is there.
Publish(e) ==
  /\ e \in Wasi /\ Spend("edits", MaxEdits)
  /\ \E v \in Versions \ {image[e]} : image' = [image EXCEPT ![e] = v]
  /\ UNCHANGED <<served, wanted, manager, docs, loop, stopped>>

\* A server ends, or Serve reads the files of another release.
Release(e) ==
  /\ e \in Grpc /\ Spend("edits", MaxEdits)
  /\ \E v \in (Versions \cup {Down}) \ {served[e]} : served' = [served EXCEPT ![e] = v]
  /\ UNCHANGED <<image, wanted, manager, docs, loop, stopped>>

\* An Extension object is created or deleted.
Want(e) ==
  /\ Spend("churn", MaxChurn)
  /\ wanted' = IF e \in wanted THEN wanted \ {e} ELSE wanted \cup {e}
  /\ UNCHANGED <<authors, manager, docs, loop, stopped>>

-----------------------------------------------------------------------------
(* The extension manager, as far as pages are concerned. *)

Idle == [pc |-> "idle", e |-> None, files |-> None]
Remote == [pages |-> Down]

\* Add dials, or downloads the image: oci.Get takes the layers of the manifest
\* that the tag names.
Fetch(e) ==
  /\ rec.pc = "idle" /\ e \in wanted
  /\ rec' = [pc |-> "register", e |-> e,
             files |-> IF e \in Wasi THEN image[e] ELSE None]
  /\ UNCHANGED <<authors, wanted, registered, module, docs, loop, stopped, spent>>

\* Add takes both locks.  Load returns early, for it knows the tag; initDocs
\* reads the pages of the image.
Register ==
  /\ rec.pc = "register" /\ loop.pc # "iterating"
  /\ LET e == rec.e
     IN  IF e \in Wasi
         THEN /\ registered' = [registered EXCEPT ![e] = [pages |-> rec.files]]
              /\ module' = [module EXCEPT ![e] = IF @ = None THEN rec.files ELSE @]
         ELSE /\ registered' = [registered EXCEPT ![e] = Remote]
              /\ UNCHANGED module
  /\ rec' = Idle
  /\ UNCHANGED <<authors, wanted, docs, loop, stopped, spent>>

LoopStart == [pc |-> "all", pending |-> [e \in Ext |-> None], e |-> None, pages |-> None]
OwnDocs == [n \in Names |-> IF n = OwnName THEN ParsedOf[Own] ELSE None]
Objects == [e \in Ext |-> CASE e \notin wanted -> None
                            [] e \in wanted \cap Wasi -> [pages |-> image[e]]
                            [] e \in wanted \cap Grpc -> Remote]

\* The process starts again: RefreshCRD adds what is there, and the server of
\* the documentation begins with the operator's own pages.
NewProcess ==
  /\ rec' = Idle /\ registered' = Objects
  /\ module' = [e \in Wasi |-> IF e \in wanted THEN image[e] ELSE None]
  /\ docs' = OwnDocs
  /\ loop' = IF stopped THEN [LoopStart EXCEPT !.pc = "ended"] ELSE LoopStart

\* Remove deletes from the map without the lock that All holds.  If All is
\* under way the runtime may end the process; if it does not, All may have
\* come to the extension or not.
Deregister(e) ==
  /\ rec.pc = "idle" /\ e \notin wanted /\ registered[e] # None
  /\ \/ /\ registered' = [registered EXCEPT ![e] = None]
        /\ \/ UNCHANGED loop
           \/ loop.pc = "iterating" /\ loop' = [loop EXCEPT !.pending[e] = None]
        /\ UNCHANGED <<rec, module, docs>>
     \/ loop.pc = "iterating" /\ NewProcess
  /\ UNCHANGED <<authors, wanted, stopped, spent>>

-----------------------------------------------------------------------------
(* updateDocs. *)

Goto(pc) == loop' = [loop EXCEPT !.pc = pc]

All ==
  /\ loop.pc = "all"
  /\ loop' = [loop EXCEPT !.pc = "iterating", !.pending = registered]
  /\ UNCHANGED <<authors, wanted, manager, docs, stopped, spent>>

AllReturns ==
  /\ loop.pc = "iterating"
  /\ Goto("ask")
  /\ UNCHANGED <<authors, wanted, manager, docs, stopped, spent>>

Pending == {e \in Ext : loop.pending[e] # None}

\* What the extension answers, or Down for an error.
Answered(e) ==
  IF loop.pending[e] # Remote THEN loop.pending[e].pages
  ELSE IF stopped THEN Down ELSE served[e]

\* Mutant: the first error ends the loop.
DocumentationOrEnd ==
  /\ loop.pc = "ask"
  /\ \E e \in Pending :
       loop' = IF Answered(e) = Down THEN [loop EXCEPT !.pc = "ended"]
               ELSE [loop EXCEPT !.pc = "parse", !.pending[e] = None,
                                 !.e = e, !.pages = Answered(e)]
  /\ UNCHANGED <<authors, wanted, manager, docs, stopped, spent>>

\* Documentation of the next extension; after an error the loop continues.
Documentation ==
  /\ loop.pc = "ask"
  /\ \E e \in Pending :
       loop' = IF Answered(e) = Down THEN [loop EXCEPT !.pending[e] = None]
               ELSE [loop EXCEPT !.pc = "parse", !.pending[e] = None,
                                 !.e = e, !.pages = Answered(e)]
  /\ UNCHANGED <<authors, wanted, manager, docs, stopped, spent>>

Store(name, cats) == docs' = [docs EXCEPT ![name] = cats]

ParseAndStore ==
  /\ loop.pc = "parse"
  /\ Store(loop.e, ParsedOf[loop.pages])
  /\ loop' = [loop EXCEPT !.pc = "ask", !.e = None, !.pages = None]
  /\ UNCHANGED <<authors, wanted, manager, stopped, spent>>

\* All are done: select finds the context cancelled, or waits.
Select ==
  /\ loop.pc = "ask" /\ Pending = {}
  /\ Goto(IF stopped THEN "ended" ELSE "sleep")
  /\ UNCHANGED <<authors, wanted, manager, docs, stopped, spent>>

Timer ==
  /\ loop.pc = "sleep"
  /\ Goto("all")
  /\ UNCHANGED <<authors, wanted, manager, docs, stopped, spent>>

CtxDone ==
  /\ loop.pc = "sleep" /\ stopped
  /\ Goto("ended")
  /\ UNCHANGED <<authors, wanted, manager, docs, stopped, spent>>

\* A signal cancels the context.
Stop ==
  /\ ~stopped
  /\ stopped' = TRUE
  /\ UNCHANGED <<authors, wanted, manager, docs, loop, spent>>

-----------------------------------------------------------------------------
Init ==
  /\ served \in [Grpc -> {Own, Down}] /\ image \in [Wasi -> {Own}]
  /\ wanted \in SUBSET Ext
  /\ rec = Idle
  /\ registered = Objects
  /\ module = [e \in Wasi |-> IF e \in wanted THEN image[e] ELSE None]
  /\ docs = OwnDocs
  /\ loop = LoopStart
  /\ reply = None
  /\ stopped = FALSE
  /\ spent = [edits |-> 0, churn |-> 0]

NoReply    == reply' = None
UpdateDocs == NoReply /\ (All \/ AllReturns \/ Documentation \/ ParseAndStore
                            \/ Select \/ Timer \/ CtxDone)
Adds       == NoReply /\ Register
Reconciler == NoReply /\ \E e \in Ext : Fetch(e) \/ Deregister(e)
Users      == NoReply /\ (Stop \/ \E e \in Ext : Publish(e) \/ Release(e) \/ Want(e))

Next == Users \/ Adds \/ Reconciler \/ UpdateDocs \/ GetAll

Spec == Init /\ [][Next]_vars

\* The goroutine runs, and its timer fires.  The worker does not stop in Add.
FairSpec == Spec /\ WF_vars(UpdateDocs) /\ WF_vars(Adds)

-----------------------------------------------------------------------------
(* Properties. *)

\* The pages in a list of categories, each with the category and the group
\* under which it is found.
Listed(cats) ==
  FlattenSeq([i \in DOMAIN cats |->
    FlattenSeq([j \in DOMAIN cats[i].groups |->
      LET g == cats[i].groups[j]
      IN  [k \in DOMAIN g.pages |->
             [page |-> g.pages[k], cat |-> cats[i].name, group |-> g.name]]])])

\* Groups and pages come by weight, those of several extensions among each other.
Weighed(cats) ==
  \A i \in DOMAIN cats :
    LET groups == cats[i].groups
    IN  /\ \A j \in 1 .. Len(groups) - 1 : groups[j].weight <= groups[j + 1].weight
        /\ \A j \in DOMAIN groups : \A k \in 1 .. Len(groups[j].pages) - 1 :
             groups[j].pages[k].weight <= groups[j].pages[k + 1].weight

\* A request gets the pages of all names that are stored, each of them once,
\* under its category and group and in the order of the weights, although GetAll
\* merges the categories of several extensions that have one name.
ServesOnce ==
  LET got == Listed(reply')
      all == [n \in Stored |-> Listed(docs[n])]
  IN  /\ \A x \in ToSet(got) : x.page.cat = x.cat /\ x.page.group = x.group
      /\ {x.page.id : x \in ToSet(got)}
           = UNION {{x.page.id : x \in ToSet(all[n])} : n \in Stored}
      /\ \E order \in Orders[Stored] :
           Len(got) = Len(FlattenSeq([i \in DOMAIN order |-> all[order[i]]]))
      /\ Cardinality({reply'[i].name : i \in DOMAIN reply'}) = Len(reply')
      /\ Weighed(reply')
ServedOnce == [][reply' # None => ServesOnce]_vars

\* What the pages of the files should look like.
FileOf == [id \in {f.id : f \in Files} |-> CHOOSE f \in Files : f.id = id]
Known == [id \in DOMAIN FileOf |->
            \A i \in DOMAIN FileOf[id].tree : FileOf[id].tree[i].kind \in KnownNodes]
Outlines == [id \in DOMAIN FileOf |-> OutlineOf(FileOf[id].tree)]

\* What is served of a page renders its file, if convert knows all the nodes:
\* neither convert, nor the merging of texts, nor the copies lose or misplace
\* anything.
PagesRender ==
  reply # None =>
    \A x \in ToSet(Listed(reply)) :
      Known[x.page.id] => Outline(x.page.doc) = Outlines[x.page.id]

\* The pages stored of an extension are those of one of its releases, never a
\* mixture of two or with those of another: a failing call does not take any of
\* them away, and GetAll, which merges and sorts under the lock for readers,
\* does so with copies.
OneRelease ==
  \A n \in Stored : \E v \in Versions :
    /\ docs[n] = ParsedOf[v]
    /\ Len(Listed(docs[n])) = Len(PagesOf[v])

\* Parse finds a place for every file.
ParseKeepsPages == \A v \in Versions : Len(Listed(ParsedOf[v])) = Len(PagesOf[v])

\* What the extension says of itself at the moment, or Down.
Current(e) ==
  CASE registered[e] = None   -> Down
    [] registered[e] = Remote -> served[e]
    [] OTHER                  -> registered[e].pages

\* Unless the operator stops, the documentation follows the extensions: when
\* they no longer change, the pages of those that answer are stored in the
\* end, in spite of servers that do not answer and of a process that the race
\* on the map has ended.
DocsFollow ==
  <>[](stopped \/ \A e \in Ext :
         Current(e) # Down => docs[e] = ParsedOf[Current(e)])

\* The pages of an extension that is gone are no longer served.
GonePagesGone == <>[](stopped \/ \A e \in Ext \ wanted : docs[e] = None)

\* The pages that are shown describe the module that runs.
DocsOfModule ==
  \A e \in Wasi : registered[e] # None => registered[e].pages = module[e]

\* A page is served with everything that comes after a node that convert does
\* not know.
NothingCutOff ==
  reply # None =>
    \A x \in ToSet(Listed(reply)) :
      LET tree == FileOf[x.page.id].tree
          known == SelectSeq([i \in 1 .. Len(tree) |-> i], LAMBDA i :
                     ~\E j \in 1 .. i : /\ tree[j].kind \notin KnownNodes
                                        /\ i = j \/ i \in Below(tree, j))
      IN  Words(x.page.doc) = NodeWords([k \in DOMAIN known |-> tree[known[k]]])

\* A group is listed once.
GroupsOnce ==
  reply # None =>
    \A i \in DOMAIN reply :
      Cardinality({reply[i].groups[j].name : j \in DOMAIN reply[i].groups})
        = Len(reply[i].groups)
=============================================================================
