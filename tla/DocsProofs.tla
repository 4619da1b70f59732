----------------------------- MODULE DocsProofs -----------------------------
(***************************************************************************)
(* Proofs about Docs: what the store of pages holds and what a request     *)
(* gets, for any extensions, releases and pages.  The loops of Parse and   *)
(* GetAll are recursive functions, about which the lemmas Recursion and    *)
(* Induction reason.                                                       *)
(***************************************************************************)
EXTENDS Docs, SequenceTheorems, FiniteSetTheorems, WellFoundedInduction, TLAPS

\* What the manager may hold of an extension: the version of the pages that an
\* image had, or that it is a server.
Entry(e) == {None} \cup IF e \in Wasi THEN [pages : Versions] ELSE {Remote}

\* Who has pages on their way to the store has them of one release.
PagesInv ==
  /\ served \in [Grpc -> Versions \cup {Down}] /\ image \in [Wasi -> Versions]
  /\ DOMAIN registered = Ext /\ \A e \in Ext : registered[e] \in Entry(e)
  /\ rec.pc = "register" => rec.e \in Ext /\ (rec.e \in Wasi => rec.files \in Versions)
  /\ loop = [pc |-> loop.pc, pending |-> loop.pending, e |-> loop.e, pages |-> loop.pages]
  /\ DOMAIN loop.pending = Ext /\ \A e \in Ext : loop.pending[e] \in Entry(e)
  /\ loop.pc = "parse" => loop.e \in Ext /\ loop.pages \in Versions

\* The store has a release of each extension, or nothing, and the operator's
\* own pages.
StoreInv ==
  /\ DOMAIN docs = Names
  /\ \A e \in Ext : docs[e] = None \/ \E v \in Versions : docs[e] = ParsedOf[v]
  /\ docs[OwnName] = ParsedOf[Own]

\* What the manager begins with is of that kind.
LEMMA ObjectsEntries ==
  ASSUME image \in [Wasi -> Versions]
  PROVE  DOMAIN Objects = Ext /\ \A e \in Ext : Objects[e] \in Entry(e)
<1>1. \A e \in Ext : e \in wanted /\ e \in Wasi => e \notin Grpc
  BY DocsAssumption
<1> QED BY <1>1 DEF Objects, Entry, Ext, Remote

LEMMA DocsInit == Init => PagesInv /\ StoreInv
<1> SUFFICES ASSUME Init PROVE PagesInv /\ StoreInv
  OBVIOUS
<1>1. served \in [Grpc -> Versions \cup {Down}] /\ image \in [Wasi -> Versions]
  BY DocsAssumption DEF Init
<1>2. DOMAIN Objects = Ext /\ \A e \in Ext : Objects[e] \in Entry(e)
  BY <1>1, ObjectsEntries
<1>3. PagesInv
  BY <1>1, <1>2 DEF Init, PagesInv, Idle, LoopStart, Entry
<1>4. StoreInv
  BY DocsAssumption DEF Init, StoreInv, OwnDocs, Names
<1> QED BY <1>3, <1>4
-----------------------------------------------------------------------------
(* One step per action. *)

LEMMA FreshProcess ==
  ASSUME PagesInv, NewProcess, UNCHANGED <<served, image>>
  PROVE  PagesInv' /\ StoreInv'
<1>1. image \in [Wasi -> Versions]
  BY DEF PagesInv
<1>2. DOMAIN Objects = Ext /\ \A e \in Ext : Objects[e] \in Entry(e)
  BY <1>1, ObjectsEntries
<1>3. loop'.pending = [e \in Ext |-> None] /\ loop'.pc # "parse"
  BY DEF NewProcess, LoopStart
<1>4. loop' = [pc |-> loop'.pc, pending |-> loop'.pending, e |-> loop'.e, pages |-> loop'.pages]
  BY DEF NewProcess, LoopStart
<1>5. PagesInv'
  BY <1>2, <1>3, <1>4 DEF PagesInv, NewProcess, Idle, Entry
<1>6. StoreInv'
  BY DocsAssumption DEF NewProcess, StoreInv, OwnDocs, Names
<1> QED BY <1>5, <1>6

\* Who writes and who asks changes neither the manager nor the store.
LEMMA OfUsers ==
  ASSUME PagesInv, StoreInv, Users \/ GetAll
  PROVE  PagesInv' /\ StoreInv'
<1>1. UNCHANGED <<manager, docs, loop>>
  BY DEF Users, Stop, Publish, Release, Want, GetAll, manager
<1>2. served' \in [Grpc -> Versions \cup {Down}] /\ image' \in [Wasi -> Versions]
  <2>1. served \in [Grpc -> Versions \cup {Down}] /\ image \in [Wasi -> Versions]
    BY DEF PagesInv
  <2>2. CASE Users /\ Stop
    BY <2>1, <2>2 DEF Stop, authors
  <2>3. ASSUME NEW e \in Ext, Publish(e)
        PROVE  served' \in [Grpc -> Versions \cup {Down}] /\ image' \in [Wasi -> Versions]
    BY <2>1, <2>3 DEF Publish
  <2>4. ASSUME NEW e \in Ext, Release(e)
        PROVE  served' \in [Grpc -> Versions \cup {Down}] /\ image' \in [Wasi -> Versions]
    BY <2>1, <2>4 DEF Release
  <2>5. ASSUME NEW e \in Ext, Want(e)
        PROVE  served' \in [Grpc -> Versions \cup {Down}] /\ image' \in [Wasi -> Versions]
    BY <2>1, <2>5 DEF Want, authors
  <2>6. CASE GetAll
    BY <2>1, <2>6 DEF GetAll, authors
  <2> QED BY <2>2, <2>3, <2>4, <2>5, <2>6 DEF Users
<1>3. PagesInv'
  BY <1>1, <1>2 DEF PagesInv, manager
<1>4. StoreInv'
  BY <1>1 DEF StoreInv
<1> QED BY <1>3, <1>4

\* An image is fetched in one release, which is what is registered.
LEMMA OfManager ==
  ASSUME PagesInv, StoreInv, Adds \/ Reconciler
  PROVE  PagesInv' /\ StoreInv'
<1>1. CASE Register
  <2> USE <1>1 DEF Register
  <2>1. \A e \in Ext : registered'[e] \in Entry(e)
    BY DEF PagesInv, Entry
  <2>2. DOMAIN registered' = Ext
    BY DEF PagesInv
  <2>3. PagesInv'
    BY <2>1, <2>2 DEF PagesInv, Idle, authors
  <2> QED BY <2>3 DEF StoreInv
<1>2. ASSUME NEW e \in Ext, Fetch(e) PROVE PagesInv' /\ StoreInv'
  <2>1. PagesInv'
    BY <1>2 DEF Fetch, PagesInv, authors
  <2>2. StoreInv'
    BY <1>2 DEF Fetch, StoreInv
  <2> QED BY <2>1, <2>2
<1>3. ASSUME NEW e \in Ext, Deregister(e) PROVE PagesInv' /\ StoreInv'
  <2>1. CASE NewProcess
    BY <1>3, <2>1, FreshProcess DEF Deregister, authors
  <2>2. CASE ~NewProcess
    <3>1. /\ registered' = [registered EXCEPT ![e] = None]
          /\ loop' = loop \/ loop' = [loop EXCEPT !.pending[e] = None]
          /\ UNCHANGED <<rec, docs, served, image>>
      BY <1>3, <2>2 DEF Deregister, authors
    <3>2. \A f \in Ext : registered'[f] \in Entry(f) /\ loop'.pending[f] \in Entry(f)
      BY <3>1 DEF PagesInv, Entry
    <3>3. PagesInv'
      BY <3>1, <3>2 DEF PagesInv
    <3> QED BY <3>1, <3>3 DEF StoreInv
  <2> QED BY <2>1, <2>2
<1> QED BY <1>1, <1>2, <1>3 DEF Adds, Reconciler

\* An answer is the pages of one release, and only those are stored, in the
\* place of the extension that has given them.
LEMMA OfLoop ==
  ASSUME PagesInv, StoreInv, UpdateDocs
  PROVE  PagesInv' /\ StoreInv'
<1>1. CASE All
  BY <1>1 DEF All, PagesInv, StoreInv, manager, authors
<1>2. CASE AllReturns \/ Select \/ Timer \/ CtxDone
  <2>1. /\ loop' = [loop EXCEPT !.pc = loop'.pc] /\ loop'.pc # "parse"
        /\ UNCHANGED <<served, image, manager, docs>>
    BY <1>2 DEF AllReturns, Select, Timer, CtxDone, Goto, authors, PagesInv
  <2> QED BY <2>1 DEF PagesInv, StoreInv, manager
<1>3. CASE Documentation
  <2>1. PICK e \in Pending :
          loop' = IF Answered(e) = Down THEN [loop EXCEPT !.pending[e] = None]
                  ELSE [loop EXCEPT !.pc = "parse", !.pending[e] = None,
                                    !.e = e, !.pages = Answered(e)]
    BY <1>3 DEF Documentation
  <2>2. e \in Ext /\ loop.pending[e] \in Entry(e) /\ loop.pending[e] # None
    BY DEF Pending, PagesInv
  <2>3. Answered(e) # Down => Answered(e) \in Versions
    <3>1. CASE loop.pending[e] = Remote
      <4>1. e \in Grpc
        BY <2>2, <3>1, DocsAssumption DEF Entry, Remote, Ext
      <4> QED BY <3>1, <4>1 DEF Answered, PagesInv
    <3>2. CASE loop.pending[e] # Remote
      BY <2>2, <3>2 DEF Answered, Entry
    <3> QED BY <3>1, <3>2
  <2>4. /\ loop' = [pc |-> loop'.pc, pending |-> loop'.pending, e |-> loop'.e,
                    pages |-> loop'.pages]
        /\ loop'.pending = [loop.pending EXCEPT ![e] = None]
        /\ loop'.pc = "parse" => loop'.e \in Ext /\ loop'.pages \in Versions
    BY <1>3, <2>1, <2>2, <2>3 DEF Documentation, PagesInv
  <2>5. \A f \in Ext : loop'.pending[f] \in Entry(f)
    BY <2>2, <2>4 DEF PagesInv, Entry
  <2> QED BY <1>3, <2>4, <2>5 DEF Documentation, PagesInv, StoreInv, manager, authors
<1>4. CASE ParseAndStore
  <2>1. loop.e \in Ext /\ loop.pages \in Versions
    BY <1>4 DEF ParseAndStore, PagesInv
  <2>2. PagesInv'
    BY <1>4 DEF ParseAndStore, PagesInv, manager, authors
  <2>3. StoreInv'
    BY <1>4, <2>1, DocsAssumption DEF ParseAndStore, Store, StoreInv, Names
  <2> QED BY <2>2, <2>3
<1> QED BY <1>1, <1>2, <1>3, <1>4 DEF UpdateDocs

LEMMA DocsStep == PagesInv /\ StoreInv /\ [Next]_vars => PagesInv' /\ StoreInv'
<1> SUFFICES ASSUME PagesInv, StoreInv, [Next]_vars PROVE PagesInv' /\ StoreInv'
  OBVIOUS
<1>1. CASE UNCHANGED vars
  BY <1>1 DEF vars, PagesInv, StoreInv
<1> QED BY <1>1, OfUsers, OfManager, OfLoop DEF Next

(***************************************************************************)
(* The operator's own pages stay, whatever an extension calls itself, and  *)
(* what is stored of an extension is what Parse makes of one release.      *)
(***************************************************************************)
THEOREM StoreInvariant == Spec => [](PagesInv /\ StoreInv)
BY DocsInit, DocsStep, PTL DEF Spec

-----------------------------------------------------------------------------
(* Induction, for sets of numbers, and functions that are defined by it. *)

Less == {pair \in Nat \X Nat : pair[1] < pair[2]}

LEMMA LeastOfNat ==
  ASSUME NEW T, T \subseteq Nat, T # {}
  PROVE  \E x \in T : \A y \in T : x <= y
<1>1. IsWellFoundedOn(Less, Nat)
  BY NatLessThanWellFounded DEF OpToRel, Less
<1>2. PICK x \in T : \A y \in T : <<y, x>> \notin Less
  BY <1>1, WFMin
<1>3. \A y \in T : x <= y
  <2>1. \A a, b \in Nat : <<a, b>> \notin Less => b <= a
    BY DEF Less
  <2> QED BY <1>2, <2>1
<1> QED BY <1>3

LEMMA Induction ==
  ASSUME NEW S, 0 \in S, \A n \in Nat : n \in S => n + 1 \in S
  PROVE  Nat \subseteq S
<1> DEFINE T == Nat \ S
<1> SUFFICES ASSUME T # {} PROVE FALSE
  OBVIOUS
<1>1. PICK x \in T : \A y \in T : x <= y
  <2>1. T \subseteq Nat
    OBVIOUS
  <2> HIDE DEF T
  <2> QED BY <2>1, LeastOfNat
<1>2. x - 1 \in Nat /\ x - 1 \in S
  BY <1>1
<1> QED BY <1>2

\* g begins with b, and goes on as F says.
Steps(F, S, n)         == F \in [S \X (1 .. n) -> S]
Follows(g, b, F, S, n) ==
  /\ g \in [0 .. n -> S] /\ g[0] = b
  /\ \A i \in 1 .. n : g[i] = F[<<g[i - 1], i>>]

LEMMA Recursion ==
  ASSUME NEW S, NEW b, NEW n, NEW F, b \in S, n \in Nat, Steps(F, S, n)
  PROVE  \E g : Follows(g, b, F, S, n)
<1> USE DEF Steps
<1> DEFINE Upto(m, g) == /\ g \in [0 .. m -> S] /\ g[0] = b
                         /\ \A i \in 1 .. m : g[i] = F[<<g[i - 1], i>>]
           T == {m \in Nat : m <= n => \E g : Upto(m, g)}
<1>1. 0 \in T
  <2> DEFINE g == [i \in 0 .. 0 |-> b]
  <2>1. Upto(0, g)
    OBVIOUS
  <2> HIDE DEF Upto, g
  <2> QED BY <2>1
<1>2. ASSUME NEW m \in Nat, m \in T
      PROVE  m + 1 \in T
  <2> SUFFICES ASSUME m + 1 <= n
               PROVE  \E g : Upto(m + 1, g)
    OBVIOUS
  <2>1. PICK g : Upto(m, g)
    BY <1>2
  <2> DEFINE h == [i \in 0 .. m + 1 |-> IF i = m + 1 THEN F[<<g[m], m + 1>>] ELSE g[i]]
  <2>2. h \in [0 .. m + 1 -> S]
    BY <2>1
  <2>3. \A i \in 0 .. m : h[i] = g[i]
    OBVIOUS
  <2>4. h[m + 1] = F[<<g[m], m + 1>>]
    OBVIOUS
  <2> HIDE DEF h
  <2>5. \A i \in 1 .. m + 1 : h[i] = F[<<h[i - 1], i>>]
    <3>1. \A i \in 1 .. m : i \in 0 .. m /\ i - 1 \in 0 .. m /\ g[i] = F[<<g[i - 1], i>>]
      BY <2>1
    <3>2. \A i \in 1 .. m : h[i] = F[<<h[i - 1], i>>]
      BY <2>3, <3>1
    <3>3. h[m + 1] = F[<<h[m], m + 1>>] /\ (m + 1) - 1 = m
      BY <2>3, <2>4
    <3> QED BY <3>2, <3>3
  <2>6. h[0] = b
    BY <2>1, <2>3
  <2> QED BY <2>2, <2>5, <2>6
<1> HIDE DEF T
<1>3. n \in T
  BY <1>1, <1>2, Induction
<1> QED BY <1>3 DEF T, Follows

LEMMA MaxIs ==
  ASSUME NEW n \in Nat, NEW I, I \subseteq 0 .. n, I # {}
  PROVE  Max(I) \in I /\ \A y \in I : y <= Max(I)
<1> DEFINE T == {n - y : y \in I}
<1>1. T \subseteq Nat
  <2>1. \A y \in I : n - y \in Nat
    OBVIOUS
  <2> QED BY <2>1
<1>2. PICK t \in T : \A u \in T : t <= u
  <2>1. T # {}
    OBVIOUS
  <2> HIDE DEF T
  <2> QED BY <1>1, <2>1, LeastOfNat
<1>3. PICK x \in I : t = n - x
  BY <1>2
<1>4. \A y \in I : x >= y
  <2>1. \A y \in I : n - x <= n - y
    BY <1>2, <1>3
  <2>2. \A y \in I : y \in Int
    OBVIOUS
  <2> QED BY <2>1, <2>2
<1>5. Max(I) \in I /\ \A y \in I : Max(I) >= y
  BY <1>4 DEF Max
<1> QED BY <1>5

LEMMA MinIs ==
  ASSUME NEW I, I \subseteq Nat, I # {}
  PROVE  Min(I) \in I /\ \A y \in I : Min(I) <= y
BY LeastOfNat DEF Min

\* What Find finds.
LEMMA Found ==
  ASSUME NEW s, NEW name, Len(s) \in Nat
  PROVE  \/ Find(s, name) = 0 /\ \A i \in 1 .. Len(s) : s[i].name # name
         \/ Find(s, name) \in 1 .. Len(s) /\ s[Find(s, name)].name = name
<1> DEFINE I == {i \in 1 .. Len(s) : s[i].name = name}
<1>1. Find(s, name) = IF I # {} THEN Min(I) ELSE 0
  BY DEF Find, SelectInSeq
<1>2. I \subseteq Nat /\ (I # {} => Min(I) \in I)
  <2>1. I \subseteq Nat
    OBVIOUS
  <2> HIDE DEF I
  <2> QED BY <2>1, MinIs
<1> QED BY <1>1, <1>2

-----------------------------------------------------------------------------
(* Sorting. *)

LEMMA Inserted ==
  ASSUME NEW X, NEW s \in Seq(X), NEW x \in X, NEW i \in 1 .. Len(s) + 1
  PROVE  /\ InsertAt(s, i, x) \in Seq(X) /\ Len(InsertAt(s, i, x)) = Len(s) + 1
         /\ \A j \in 1 .. i - 1 : InsertAt(s, i, x)[j] = s[j]
         /\ InsertAt(s, i, x)[i] = x
         /\ \A j \in i + 1 .. Len(s) + 1 : InsertAt(s, i, x)[j] = s[j - 1]
<1> DEFINE a == SubSeq(s, 1, i - 1)
           c == SubSeq(s, i, Len(s))
<1>1. Len(s) \in Nat /\ \A j \in 1 .. Len(s) : s[j] \in X
  BY LenProperties, ElementOfSeq
<1>2. a \in Seq(X) /\ Len(a) = i - 1 /\ \A j \in 1 .. i - 1 : a[j] = s[j]
  BY <1>1, SubSeqProperties
<1>3. c \in Seq(X) /\ Len(c) = Len(s) + 1 - i /\ \A j \in 1 .. Len(s) + 1 - i : c[j] = s[i + j - 1]
  BY <1>1, SubSeqProperties
<1>4. <<x>> \in Seq(X) /\ Len(<<x>>) = 1 /\ <<x>>[1] = x
  OBVIOUS
<1> HIDE DEF a, c
<1>5. /\ a \o <<x>> \in Seq(X) /\ Len(a \o <<x>>) = i
      /\ \A j \in 1 .. i : (a \o <<x>>)[j] = IF j <= i - 1 THEN a[j] ELSE <<x>>[j - (i - 1)]
  BY <1>1, <1>2, <1>4, ConcatProperties
<1>6. /\ (a \o <<x>>) \o c \in Seq(X) /\ Len((a \o <<x>>) \o c) = Len(s) + 1
      /\ \A j \in 1 .. Len(s) + 1 :
           ((a \o <<x>>) \o c)[j] = IF j <= i THEN (a \o <<x>>)[j] ELSE c[j - i]
  <2>1. i + (Len(s) + 1 - i) = Len(s) + 1
    BY <1>1
  <2> DEFINE b == a \o <<x>>
  <2>2. b \in Seq(X) /\ Len(b) = i /\ c \in Seq(X) /\ Len(c) = Len(s) + 1 - i
    BY <1>3, <1>5
  <2> HIDE DEF b
  <2>3. /\ b \o c \in Seq(X) /\ Len(b \o c) = Len(b) + Len(c)
        /\ \A j \in 1 .. Len(b) + Len(c) :
             (b \o c)[j] = IF j <= Len(b) THEN b[j] ELSE c[j - Len(b)]
    BY <2>2, ConcatProperties
  <2>4. Len(b) = i /\ Len(b) + Len(c) = Len(s) + 1
    BY <2>1, <2>2
  <2>5. /\ b \o c \in Seq(X) /\ Len(b \o c) = Len(s) + 1
        /\ \A j \in 1 .. Len(s) + 1 : (b \o c)[j] = IF j <= i THEN b[j] ELSE c[j - i]
    BY <2>3, <2>4
  <2> QED BY <2>5 DEF b
<1>7. InsertAt(s, i, x) = (a \o <<x>>) \o c
  BY DEF InsertAt, a, c
<1>8. \A j \in 1 .. i - 1 : j \in 1 .. Len(s) + 1 /\ j <= i /\ j \in 1 .. i
  BY <1>1
<1>9. \A j \in i + 1 .. Len(s) + 1 :
        j \in 1 .. Len(s) + 1 /\ ~(j <= i) /\ j - i \in 1 .. Len(s) + 1 - i /\ i + (j - i) - 1 = j - 1
  BY <1>1
<1> DEFINE r == InsertAt(s, i, x)
<1>10. \A j \in 1 .. i - 1 : r[j] = s[j]
  BY <1>2, <1>5, <1>6, <1>7, <1>8
<1>11. r[i] = x
  <2>1. i \in 1 .. Len(s) + 1 /\ i <= i /\ ~(i <= i - 1) /\ i - (i - 1) = 1 /\ i \in 1 .. i
    BY <1>1
  <2> QED BY <1>4, <1>5, <1>6, <1>7, <2>1
<1>12. \A j \in i + 1 .. Len(s) + 1 : r[j] = s[j - 1]
  BY <1>3, <1>6, <1>7, <1>9
<1> QED BY <1>6, <1>7, <1>10, <1>11, <1>12

\* r is s with x at position i.
Puts(r, s, i, x) ==
  /\ Len(r) = Len(s) + 1
  /\ \A j \in 1 .. i - 1 : r[j] = s[j]
  /\ r[i] = x
  /\ \A j \in i + 1 .. Len(s) + 1 : r[j] = s[j - 1]

InOrder(s) == \A i, j \in 1 .. Len(s) : i <= j => s[i].weight <= s[j].weight

LEMMA InsertPuts ==
  ASSUME NEW X, NEW s \in Seq(X), NEW x \in X, \A y \in X : y.weight \in Int
  PROVE  /\ Insert(s, x) \in Seq(X)
         /\ \E i \in 1 .. Len(s) + 1 : Puts(Insert(s, x), s, i, x)
         /\ InOrder(s) => InOrder(Insert(s, x))
<1> DEFINE I == {0} \cup {i \in DOMAIN s : s[i].weight <= x.weight}
           m == Max(I)
           r == InsertAt(s, 1 + m, x)
<1>1. Len(s) \in Nat /\ DOMAIN s = 1 .. Len(s) /\ \A j \in 1 .. Len(s) : s[j] \in X
  BY LenProperties, ElementOfSeq
<1>2. m \in I /\ \A i \in I : i <= m
  <2>1. I \subseteq 0 .. Len(s) /\ I # {}
    BY <1>1
  <2> HIDE DEF I
  <2> QED BY <1>1, <2>1, MaxIs
<1>3. m \in 0 .. Len(s) /\ (m # 0 => s[m].weight <= x.weight)
      /\ \A i \in m + 1 .. Len(s) : ~(s[i].weight <= x.weight)
  <2>1. m \in 0 .. Len(s) /\ (m # 0 => s[m].weight <= x.weight)
    BY <1>1, <1>2
  <2>2. \A i \in m + 1 .. Len(s) : i \in 1 .. Len(s) /\ ~(i <= m)
    BY <1>1, <2>1
  <2>3. \A i \in m + 1 .. Len(s) : i \notin I
    BY <1>2, <2>2
  <2> QED BY <1>1, <2>1, <2>2, <2>3
<1> HIDE DEF m, I
<1>4. r \in Seq(X) /\ Puts(r, s, 1 + m, x) /\ 1 + m \in 1 .. Len(s) + 1
  <2> DEFINE i == 1 + m
  <2>1. i \in 1 .. Len(s) + 1
    BY <1>1, <1>3
  <2> HIDE DEF i
  <2>2. InsertAt(s, i, x) \in Seq(X) /\ Puts(InsertAt(s, i, x), s, i, x)
    BY <2>1, Inserted DEF Puts
  <2> QED BY <2>1, <2>2 DEF i
<1>5. Insert(s, x) = r
  BY DEF Insert, I, m
<1> HIDE DEF r
<1>6. ASSUME InOrder(s) PROVE InOrder(r)
  <2> SUFFICES ASSUME NEW i \in 1 .. Len(s) + 1, NEW j \in 1 .. Len(s) + 1, i <= j
               PROVE  r[i].weight <= r[j].weight
    BY <1>4 DEF InOrder, Puts
  <2>1. \A k, l \in 1 .. Len(s) : k <= l => s[k].weight <= s[l].weight
    BY <1>6 DEF InOrder
  <2>2. /\ \A k \in 1 .. Len(s) : s[k].weight \in Int
        /\ x.weight \in Int
    BY <1>1
  <2>3. \A k \in 1 .. m : s[k].weight <= x.weight
    BY <1>1, <1>3, <2>1, <2>2
  <2>4. /\ \A k \in 1 .. m : r[k] = s[k]
        /\ r[1 + m] = x
        /\ \A k \in m + 2 .. Len(s) + 1 : r[k] = s[k - 1]
    BY <1>1, <1>3, <1>4 DEF Puts
  <2>5. \A k \in 1 .. Len(s) : k > m => x.weight <= s[k].weight
    BY <1>1, <1>3, <2>2
  <2>6. CASE i <= m /\ j <= m
    BY <1>1, <1>3, <2>1, <2>4, <2>6
  <2>7. CASE i <= m /\ j = 1 + m
    BY <1>1, <1>3, <2>3, <2>4, <2>7
  <2>8. CASE i <= m /\ j > 1 + m
    <3>1. r[i] = s[i] /\ r[j] = s[j - 1] /\ i <= j - 1 /\ i \in 1 .. Len(s) /\ j - 1 \in 1 .. Len(s)
      BY <1>1, <1>3, <2>4, <2>8
    <3> QED BY <2>1, <3>1
  <2>9. CASE i = 1 + m /\ j = 1 + m
    BY <2>2, <2>4, <2>9
  <2>10. CASE i = 1 + m /\ j > 1 + m
    <3>1. r[i] = x /\ r[j] = s[j - 1] /\ j - 1 > m /\ j - 1 \in 1 .. Len(s)
      BY <1>1, <1>3, <2>4, <2>10
    <3> QED BY <2>5, <3>1
  <2>11. CASE i > 1 + m
    <3>1. /\ r[i] = s[i - 1] /\ r[j] = s[j - 1] /\ i - 1 <= j - 1
          /\ i - 1 \in 1 .. Len(s) /\ j - 1 \in 1 .. Len(s)
      BY <1>1, <1>3, <2>4, <2>11
    <3> QED BY <2>1, <3>1
  <2> QED BY <1>1, <1>3, <2>6, <2>7, <2>8, <2>9, <2>10, <2>11
<1> QED BY <1>4, <1>5, <1>6

\* The sort, step by step.
LEMMA Sorting ==
  ASSUME NEW X, NEW s \in Seq(X), \A y \in X : y.weight \in Int
  PROVE  \E f : /\ f[0] = <<>> /\ f[Len(s)] = ByWeight(s)
                /\ \A i \in 0 .. Len(s) : f[i] \in Seq(X) /\ Len(f[i]) = i /\ InOrder(f[i])
                /\ \A i \in 1 .. Len(s) : \E k \in 1 .. i : Puts(f[i], f[i - 1], k, s[i])
<1> DEFINE n == Len(s)
           Rec(f) == f = [i \in 0 .. n |-> IF i = 0 THEN <<>> ELSE Insert(f[i - 1], s[i])]
           f == CHOOSE f : Rec(f)
<1>1. n \in Nat /\ \A i \in 1 .. n : s[i] \in X
  BY LenProperties, ElementOfSeq
<1>2. \E g : Rec(g)
  <2> DEFINE F == [p \in Seq(X) \X (1 .. n) |-> Insert(p[1], s[p[2]])]
  <2>1. F \in [Seq(X) \X (1 .. n) -> Seq(X)]
    <3>1. \A p \in Seq(X) \X (1 .. n) : Insert(p[1], s[p[2]]) \in Seq(X)
      BY <1>1, InsertPuts
    <3> QED BY <3>1
  <2>2. <<>> \in Seq(X)
    BY EmptySeq
  <2>3. \A t \in Seq(X), i \in 1 .. n : F[<<t, i>>] = Insert(t, s[i])
    OBVIOUS
  <2> HIDE DEF F, n
  <2>4. PICK g : Follows(g, <<>>, F, Seq(X), n)
    <3>1. Steps(F, Seq(X), n)
      BY <2>1 DEF Steps
    <3> QED BY <1>1, <2>2, <3>1, Recursion
  <2>5. \A i \in 0 .. n : g[i] = IF i = 0 THEN <<>> ELSE Insert(g[i - 1], s[i])
    <3>1. ASSUME NEW i \in 1 .. n PROVE g[i] = Insert(g[i - 1], s[i])
      <4>1. g[i - 1] \in Seq(X)
        BY <1>1, <2>4 DEF Follows
      <4> QED BY <2>3, <2>4, <4>1 DEF Follows
    <3> QED BY <1>1, <2>4, <3>1 DEF Follows
  <2>6. Rec(g)
    BY <2>4, <2>5 DEF Follows
  <2> QED BY <2>6
<1>3. Rec(f)
  BY <1>2
<1>4. f[Len(s)] = ByWeight(s)
  BY DEF ByWeight
<1> HIDE DEF f
<1>5. f[0] = <<>> /\ \A i \in 1 .. n : f[i] = Insert(f[i - 1], s[i])
  BY <1>1, <1>3
<1> DEFINE Fine(i) == f[i] \in Seq(X) /\ Len(f[i]) = i /\ InOrder(f[i])
           T == {i \in Nat : i <= n => Fine(i)}
<1>6. \A i \in 1 .. n : Fine(i - 1) => Fine(i) /\ \E k \in 1 .. i : Puts(f[i], f[i - 1], k, s[i])
  <2> SUFFICES ASSUME NEW i \in 1 .. n, Fine(i - 1)
               PROVE  Fine(i) /\ \E k \in 1 .. i : Puts(f[i], f[i - 1], k, s[i])
    OBVIOUS
  <2>1. f[i] = Insert(f[i - 1], s[i]) /\ s[i] \in X /\ Len(f[i - 1]) + 1 = i
    BY <1>1, <1>5
  <2>2. f[i] \in Seq(X) /\ InOrder(f[i]) /\ \E k \in 1 .. Len(f[i - 1]) + 1 : Puts(f[i], f[i - 1], k, s[i])
    BY <2>1, InsertPuts
  <2> QED BY <2>1, <2>2 DEF Puts
<1>7. \A i \in 0 .. n : Fine(i)
  <2>1. 0 \in T
    <3>1. <<>> \in Seq(X) /\ Len(<<>>) = 0 /\ InOrder(<<>>)
      BY EmptySeq DEF InOrder
    <3> QED BY <1>5, <3>1
  <2>2. \A i \in Nat : i \in T => i + 1 \in T
    <3> SUFFICES ASSUME NEW i \in Nat, i <= n => Fine(i), i + 1 <= n
                 PROVE  Fine(i + 1)
      OBVIOUS
    <3>1. i + 1 \in 1 .. n /\ (i + 1) - 1 = i /\ Fine(i)
      BY <1>1
    <3> HIDE DEF Fine
    <3> QED BY <1>6, <3>1
  <2> HIDE DEF Fine, T
  <2>3. Nat \subseteq T
    BY <2>1, <2>2, Induction
  <2>4. \A i \in 0 .. n : i \in Nat /\ i <= n
    BY <1>1
  <2> QED BY <2>3, <2>4 DEF T
<1>8. \A i \in 1 .. n : \E k \in 1 .. i : Puts(f[i], f[i - 1], k, s[i])
  <2>1. \A i \in 1 .. n : i - 1 \in 0 .. n
    BY <1>1
  <2> HIDE DEF Fine
  <2> QED BY <1>6, <1>7, <2>1
<1> QED BY <1>4, <1>5, <1>7, <1>8

LEMMA PutsElements ==
  ASSUME NEW X, NEW s \in Seq(X), NEW r \in Seq(X), NEW x, NEW k \in 1 .. Len(s) + 1, Puts(r, s, k, x)
  PROVE  ToSet(r) = ToSet(s) \cup {x}
<1>1. Len(s) \in Nat /\ DOMAIN s = 1 .. Len(s) /\ DOMAIN r = 1 .. Len(s) + 1
  BY LenProperties DEF Puts
<1>2. \A j \in 1 .. Len(s) + 1 : r[j] \in ToSet(s) \cup {x}
  <2>1. \A j \in 1 .. Len(s) + 1 :
          (j \in 1 .. k - 1 /\ j \in 1 .. Len(s)) \/ j = k
            \/ (j \in k + 1 .. Len(s) + 1 /\ j - 1 \in 1 .. Len(s))
    BY <1>1
  <2> QED BY <1>1, <2>1 DEF Puts, ToSet
<1>3. \A j \in 1 .. Len(s) : s[j] \in ToSet(r)
  <2>1. \A j \in 1 .. Len(s) :
          \/ j \in 1 .. k - 1 /\ j \in 1 .. Len(s) + 1
          \/ j + 1 \in k + 1 .. Len(s) + 1 /\ j + 1 \in 1 .. Len(s) + 1 /\ (j + 1) - 1 = j
    BY <1>1
  <2> QED BY <1>1, <2>1 DEF Puts, ToSet
<1>4. x \in ToSet(r)
  BY <1>1 DEF Puts, ToSet
<1> QED BY <1>1, <1>2, <1>3, <1>4 DEF ToSet

\* A sort keeps what there is, in order.
LEMMA ByWeightSorts ==
  ASSUME NEW X, NEW s \in Seq(X), \A y \in X : y.weight \in Int
  PROVE  /\ ByWeight(s) \in Seq(X) /\ Len(ByWeight(s)) = Len(s) /\ InOrder(ByWeight(s))
         /\ ToSet(ByWeight(s)) = ToSet(s)
<1>1. PICK f : /\ f[0] = <<>> /\ f[Len(s)] = ByWeight(s)
               /\ \A i \in 0 .. Len(s) : f[i] \in Seq(X) /\ Len(f[i]) = i /\ InOrder(f[i])
               /\ \A i \in 1 .. Len(s) : \E k \in 1 .. i : Puts(f[i], f[i - 1], k, s[i])
  BY Sorting
<1>2. Len(s) \in Nat /\ DOMAIN s = 1 .. Len(s)
  BY LenProperties
<1> DEFINE T == {n \in Nat : n <= Len(s) => ToSet(f[n]) = {s[j] : j \in 1 .. n}}
<1>3. 0 \in T
  BY <1>1 DEF ToSet
<1>4. ASSUME NEW n \in Nat, n \in T
      PROVE  n + 1 \in T
  <2> SUFFICES ASSUME n + 1 <= Len(s)
               PROVE  ToSet(f[n + 1]) = {s[j] : j \in 1 .. n + 1}
    OBVIOUS
  <2>1. /\ f[n] \in Seq(X) /\ f[n + 1] \in Seq(X) /\ Len(f[n]) = n
        /\ \E k \in 1 .. n + 1 : Puts(f[n + 1], f[n], k, s[n + 1])
    <3>1. n \in 0 .. Len(s) /\ n + 1 \in 0 .. Len(s) /\ n + 1 \in 1 .. Len(s) /\ (n + 1) - 1 = n
      BY <1>2
    <3> QED BY <1>1, <3>1
  <2>2. ToSet(f[n + 1]) = ToSet(f[n]) \cup {s[n + 1]}
    BY <2>1, PutsElements
  <2>3. ToSet(f[n]) = {s[j] : j \in 1 .. n}
    BY <1>2, <1>4
  <2>4. 1 .. n + 1 = (1 .. n) \cup {n + 1}
    OBVIOUS
  <2> QED BY <2>2, <2>3, <2>4
<1> HIDE DEF T
<1>5. Len(s) \in T
  BY <1>2, <1>3, <1>4, Induction
<1>6. ToSet(ByWeight(s)) = ToSet(s)
  <2>1. ToSet(f[Len(s)]) = {s[j] : j \in 1 .. Len(s)}
    BY <1>2, <1>5 DEF T
  <2>2. ToSet(s) = {s[j] : j \in 1 .. Len(s)}
    BY <1>2 DEF ToSet
  <2> QED BY <1>1, <2>1, <2>2
<1>7. Len(s) \in 0 .. Len(s)
  BY <1>2
<1> QED BY <1>1, <1>6, <1>7

-----------------------------------------------------------------------------
(* Sums. *)

\* g has the sums of f up to n.
Sums(g, f, n) == g[0] = 0 /\ \A i \in 1 .. n : g[i] = g[i - 1] + f[i]

Sum(f, n) ==
  LET upTo[i \in 0 .. n] == IF i = 0 THEN 0 ELSE upTo[i - 1] + f[i]
  IN  upTo[n]

LEMMA SumsAre ==
  ASSUME NEW f, NEW n \in Nat, \A i \in 1 .. n : f[i] \in Nat
  PROVE  \E g \in [0 .. n -> Nat] : Sums(g, f, n) /\ Sum(f, n) = g[n]
<1> DEFINE Rec(g) == g = [i \in 0 .. n |-> IF i = 0 THEN 0 ELSE g[i - 1] + f[i]]
           h == CHOOSE g : Rec(g)
<1>1. \E g \in [0 .. n -> Nat] : Sums(g, f, n) /\ Rec(g)
  <2> DEFINE F == [p \in Nat \X (1 .. n) |-> p[1] + f[p[2]]]
  <2>1. Steps(F, Nat, n)
    BY DEF Steps
  <2>2. \A t \in Nat, i \in 1 .. n : F[<<t, i>>] = t + f[i]
    OBVIOUS
  <2> HIDE DEF F
  <2>3. PICK g : Follows(g, 0, F, Nat, n)
    BY <2>1, Recursion
  <2>4. \A i \in 1 .. n : g[i] = g[i - 1] + f[i]
    <3> SUFFICES ASSUME NEW i \in 1 .. n PROVE g[i] = g[i - 1] + f[i]
      OBVIOUS
    <3>1. g[i - 1] \in Nat
      BY <2>3 DEF Follows
    <3> QED BY <2>2, <2>3, <3>1 DEF Follows
  <2>5. g \in [0 .. n -> Nat] /\ Sums(g, f, n)
    BY <2>3, <2>4 DEF Follows, Sums
  <2>6. \A i \in 0 .. n : g[i] = IF i = 0 THEN 0 ELSE g[i - 1] + f[i]
    BY <2>5 DEF Sums
  <2>7. Rec(g)
    BY <2>5, <2>6
  <2> QED BY <2>5, <2>7
<1>2. PICK g \in [0 .. n -> Nat] : Sums(g, f, n) /\ Rec(g)
  BY <1>1
<1>3. Rec(h)
  BY <1>2
<1>4. Sum(f, n) = h[n]
  BY DEF Sum
<1> HIDE DEF h
<1> DEFINE T == {i \in Nat : i <= n => h[i] = g[i]}
<1>5. 0 \in T
  BY <1>2, <1>3
<1>6. ASSUME NEW i \in Nat, i \in T
      PROVE  i + 1 \in T
  <2> SUFFICES ASSUME i + 1 <= n PROVE h[i + 1] = g[i + 1]
    OBVIOUS
  <2>1. h[i] = g[i] /\ i + 1 \in 0 .. n /\ i + 1 # 0 /\ (i + 1) - 1 = i
    BY <1>6
  <2>2. h[i + 1] = h[i] + f[i + 1] /\ g[i + 1] = g[i] + f[i + 1]
    BY <1>2, <1>3, <2>1
  <2> QED BY <2>1, <2>2
<1> HIDE DEF T
<1>7. n \in T
  BY <1>5, <1>6, Induction
<1> QED BY <1>2, <1>4, <1>7 DEF T

LEMMA Plus ==
  \A a, b, c \in Nat : (a + b) + c = a + (b + c) /\ (a + b) + c = (a + c) + b
OBVIOUS

LEMMA SumOfNone == ASSUME NEW f PROVE Sum(f, 0) = 0
<1>1. \A i \in 1 .. 0 : f[i] \in Nat
  OBVIOUS
<1>2. PICK g \in [0 .. 0 -> Nat] : Sums(g, f, 0) /\ Sum(f, 0) = g[0]
  BY <1>1, SumsAre
<1> QED BY <1>2 DEF Sums

\* The sum of as many numbers, of which each is the same.
LEMMA SumSame ==
  ASSUME NEW f, NEW h, NEW n \in Nat, \A i \in 1 .. n : f[i] \in Nat /\ h[i] = f[i]
  PROVE  Sum(h, n) = Sum(f, n) /\ Sum(f, n) \in Nat
<1>1. \A i \in 1 .. n : f[i] \in Nat /\ h[i] \in Nat
  OBVIOUS
<1>2. PICK g \in [0 .. n -> Nat] : Sums(g, f, n) /\ Sum(f, n) = g[n]
  BY <1>1, SumsAre
<1>3. PICK k \in [0 .. n -> Nat] : Sums(k, h, n) /\ Sum(h, n) = k[n]
  BY <1>1, SumsAre
<1> DEFINE T == {i \in Nat : i <= n => k[i] = g[i]}
<1>4. 0 \in T
  BY <1>2, <1>3 DEF Sums
<1>5. ASSUME NEW i \in Nat, i \in T
      PROVE  i + 1 \in T
  <2>1. i + 1 <= n => i + 1 \in 1 .. n /\ (i + 1) - 1 = i /\ k[i] = g[i]
    BY <1>5
  <2> QED BY <1>2, <1>3, <2>1 DEF Sums
<1> HIDE DEF T
<1>6. n \in T
  BY <1>4, <1>5, Induction
<1> QED BY <1>2, <1>3, <1>6 DEF T

\* One number is more.
Raised(h, f, n, k, d) ==
  /\ k \in 1 .. n /\ d \in Nat
  /\ \A i \in 1 .. n : f[i] \in Nat /\ h[i] = IF i = k THEN f[i] + d ELSE f[i]

LEMMA SumChanged ==
  ASSUME NEW f, NEW h, NEW n, NEW k, NEW d, n \in Nat, Raised(h, f, n, k, d)
  PROVE  Sum(h, n) = Sum(f, n) + d
<1> USE DEF Raised
<1>1. \A i \in 1 .. n : f[i] \in Nat /\ h[i] \in Nat
  OBVIOUS
<1>2. PICK g \in [0 .. n -> Nat] : Sums(g, f, n) /\ Sum(f, n) = g[n]
  BY <1>1, SumsAre
<1>3. PICK e \in [0 .. n -> Nat] : Sums(e, h, n) /\ Sum(h, n) = e[n]
  BY <1>1, SumsAre
<1> DEFINE T == {i \in Nat : i <= n => e[i] = IF i < k THEN g[i] ELSE g[i] + d}
<1>4. 0 \in T
  BY <1>2, <1>3 DEF Sums
<1>5. ASSUME NEW i \in Nat, i \in T
      PROVE  i + 1 \in T
  <2> SUFFICES ASSUME i + 1 <= n
               PROVE  e[i + 1] = IF i + 1 < k THEN g[i + 1] ELSE g[i + 1] + d
    OBVIOUS
  <2>1. i + 1 \in 1 .. n /\ (i + 1) - 1 = i /\ e[i] = IF i < k THEN g[i] ELSE g[i] + d
    BY <1>5
  <2>2. e[i + 1] = e[i] + h[i + 1] /\ g[i + 1] = g[i] + f[i + 1]
    BY <1>2, <1>3, <2>1 DEF Sums
  <2>3. g[i] \in Nat /\ f[i + 1] \in Nat /\ h[i + 1] = IF i + 1 = k THEN f[i + 1] + d ELSE f[i + 1]
    <3>1. i \in 0 .. n
      BY <2>1
    <3> QED BY <2>1, <3>1
  <2>4. CASE i + 1 < k
    <3>1. e[i] = g[i] /\ h[i + 1] = f[i + 1]
      BY <2>1, <2>3, <2>4
    <3> QED BY <2>2, <2>4, <3>1
  <2>5. CASE i + 1 = k
    <3>1. e[i] = g[i] /\ h[i + 1] = f[i + 1] + d
      BY <2>1, <2>3, <2>5
    <3>2. g[i] + (f[i + 1] + d) = (g[i] + f[i + 1]) + d
      BY <2>3, Plus
    <3> QED BY <2>2, <2>5, <3>1, <3>2
  <2>6. CASE i + 1 > k
    <3>1. e[i] = g[i] + d /\ h[i + 1] = f[i + 1]
      BY <2>1, <2>3, <2>6
    <3>2. (g[i] + d) + f[i + 1] = (g[i] + f[i + 1]) + d
      BY <2>3, Plus
    <3> QED BY <2>2, <2>6, <3>1, <3>2
  <2> QED BY <2>4, <2>5, <2>6
<1> HIDE DEF T
<1>6. n \in T
  BY <1>4, <1>5, Induction
<1> QED BY <1>2, <1>3, <1>6 DEF T

\* One number more, anywhere.
LEMMA SumInserted ==
  ASSUME NEW f, NEW h, NEW n \in Nat, NEW k \in 1 .. n + 1, NEW x \in Nat,
         \A i \in 1 .. n : f[i] \in Nat,
         \A i \in 1 .. n + 1 : h[i] = IF i < k THEN f[i] ELSE IF i = k THEN x ELSE f[i - 1]
  PROVE  Sum(h, n + 1) = Sum(f, n) + x
<1>1. \A i \in 1 .. n + 1 : h[i] \in Nat
  <2>1. \A i \in 1 .. n + 1 : (i < k => i \in 1 .. n) /\ (i > k => i - 1 \in 1 .. n)
    OBVIOUS
  <2> QED BY <2>1
<1>2. PICK g \in [0 .. n -> Nat] : Sums(g, f, n) /\ Sum(f, n) = g[n]
  BY SumsAre
<1>3. PICK e \in [0 .. n + 1 -> Nat] : Sums(e, h, n + 1) /\ Sum(h, n + 1) = e[n + 1]
  <2>1. n + 1 \in Nat
    OBVIOUS
  <2> QED BY <1>1, <2>1, SumsAre
<1> DEFINE T == {i \in Nat : i <= n + 1 => e[i] = IF i < k THEN g[i] ELSE g[i - 1] + x}
<1>4. 0 \in T
  BY <1>2, <1>3 DEF Sums
<1>5. ASSUME NEW i \in Nat, i \in T
      PROVE  i + 1 \in T
  <2> SUFFICES ASSUME i + 1 <= n + 1
               PROVE  e[i + 1] = IF i + 1 < k THEN g[i + 1] ELSE g[(i + 1) - 1] + x
    OBVIOUS
  <2>1. i + 1 \in 1 .. n + 1 /\ (i + 1) - 1 = i /\ e[i] = IF i < k THEN g[i] ELSE g[i - 1] + x
    BY <1>5
  <2>2. e[i + 1] = e[i] + h[i + 1]
    BY <1>3, <2>1 DEF Sums
  <2>3. CASE i + 1 < k
    <3>1. i + 1 \in 1 .. n /\ g[i + 1] = g[i] + f[i + 1] /\ h[i + 1] = f[i + 1] /\ e[i] = g[i]
      BY <1>2, <2>1, <2>3 DEF Sums
    <3> QED BY <2>2, <2>3, <3>1
  <2>4. CASE i + 1 = k
    <3>1. h[i + 1] = x /\ e[i] = g[i]
      BY <2>1, <2>4
    <3> QED BY <2>1, <2>2, <2>4, <3>1
  <2>5. CASE i + 1 > k
    <3>1. i \in 1 .. n /\ i - 1 \in 0 .. n /\ ~(i < k) /\ ~(i + 1 < k) /\ i + 1 # k
      BY <2>1, <2>5
    <3>2. g[i] = g[i - 1] + f[i] /\ g[i - 1] \in Nat /\ f[i] \in Nat
      BY <1>2, <3>1 DEF Sums
    <3>3. h[i + 1] = f[i] /\ e[i] = g[i - 1] + x
      BY <2>1, <3>1
    <3>4. e[i + 1] = g[i] + x
      <4>1. (g[i - 1] + x) + f[i] = (g[i - 1] + f[i]) + x
        <5> DEFINE p == g[i - 1]
                   q == f[i]
        <5>1. p \in Nat /\ q \in Nat /\ x \in Nat
          BY <3>2
        <5> HIDE DEF p, q
        <5>2. (p + x) + q = (p + q) + x
          BY <5>1, Plus
        <5> QED BY <5>2 DEF p, q
      <4> QED BY <2>2, <3>2, <3>3, <4>1
    <3> QED BY <2>1, <3>1, <3>4
  <2> QED BY <2>3, <2>4, <2>5
<1> HIDE DEF T
<1>6. n + 1 \in T
  BY <1>4, <1>5, Induction
<1> QED BY <1>2, <1>3, <1>6 DEF T

\* The numbers of f, then those of h.
Joined(k, f, n, h, m) ==
  /\ \A i \in 1 .. n : f[i] \in Nat /\ k[i] = f[i]
  /\ \A i \in 1 .. m : h[i] \in Nat /\ k[n + i] = h[i]

LEMMA SumConcat ==
  ASSUME NEW f, NEW h, NEW k, NEW n, NEW m, n \in Nat, m \in Nat, Joined(k, f, n, h, m)
  PROVE  Sum(k, n + m) = Sum(f, n) + Sum(h, m)
<1> USE DEF Joined
<1>1. \A i \in 1 .. n + m : k[i] \in Nat
  <2>1. \A i \in 1 .. n + m : i \in 1 .. n \/ (i - n \in 1 .. m /\ n + (i - n) = i)
    OBVIOUS
  <2> QED BY <2>1
<1>2. PICK a \in [0 .. n -> Nat] : Sums(a, f, n) /\ Sum(f, n) = a[n]
  BY SumsAre
<1>3. PICK b \in [0 .. m -> Nat] : Sums(b, h, m) /\ Sum(h, m) = b[m]
  BY SumsAre
<1>4. PICK c \in [0 .. n + m -> Nat] : Sums(c, k, n + m) /\ Sum(k, n + m) = c[n + m]
  <2>1. n + m \in Nat
    OBVIOUS
  <2> QED BY <1>1, <2>1, SumsAre
<1> DEFINE T == {i \in Nat : i <= n + m => c[i] = IF i <= n THEN a[i] ELSE a[n] + b[i - n]}
<1>5. 0 \in T
  BY <1>2, <1>4 DEF Sums
<1>6. ASSUME NEW i \in Nat, i \in T
      PROVE  i + 1 \in T
  <2> SUFFICES ASSUME i + 1 <= n + m
               PROVE  c[i + 1] = IF i + 1 <= n THEN a[i + 1] ELSE a[n] + b[(i + 1) - n]
    OBVIOUS
  <2>1. i + 1 \in 1 .. n + m /\ (i + 1) - 1 = i /\ c[i] = IF i <= n THEN a[i] ELSE a[n] + b[i - n]
    BY <1>6
  <2>2. c[i + 1] = c[i] + k[i + 1]
    BY <1>4, <2>1 DEF Sums
  <2>3. CASE i + 1 <= n
    <3>1. i + 1 \in 1 .. n /\ a[i + 1] = a[i] + f[i + 1] /\ k[i + 1] = f[i + 1] /\ c[i] = a[i]
      BY <1>2, <2>1, <2>3 DEF Sums
    <3> QED BY <2>2, <2>3, <3>1
  <2>4. CASE ~(i + 1 <= n)
    <3> DEFINE j == i - n
    <3>1. j \in Nat /\ j + 1 \in 1 .. m /\ (j + 1) - 1 = j /\ n + (j + 1) = i + 1 /\ (i + 1) - n = j + 1
      BY <2>4
    <3>2. b[j + 1] = b[j] + h[j + 1] /\ k[i + 1] = h[j + 1]
      BY <1>3, <3>1 DEF Sums
    <3>3. c[i] = a[n] + b[j]
      <4>1. CASE i = n
        <5>1. b[j] = 0 /\ a[n] \in Nat
          BY <1>2, <1>3, <4>1 DEF Sums
        <5> QED BY <2>1, <4>1, <5>1
      <4>2. CASE i # n
        BY <2>1, <2>4, <4>2
      <4> QED BY <4>1, <4>2
    <3>4. a[n] \in Nat /\ b[j] \in Nat /\ h[j + 1] \in Nat
      BY <1>2, <1>3, <3>1
    <3>5. c[i + 1] = a[n] + b[j + 1]
      <4> HIDE DEF j
      <4>1. (a[n] + b[j]) + h[j + 1] = a[n] + (b[j] + h[j + 1])
        BY <3>4, Plus
      <4> QED BY <2>2, <3>2, <3>3, <4>1
    <3> QED BY <2>4, <3>1, <3>5
  <2> QED BY <2>3, <2>4
<1> HIDE DEF T
<1>7. n + m \in T
  <2>1. n + m \in Nat
    OBVIOUS
  <2> QED BY <1>5, <1>6, <2>1, Induction
<1>8. c[n + m] = a[n] + b[m]
  <2>1. CASE m = 0
    <3>1. b[m] = 0 /\ a[n] \in Nat /\ c[n] = a[n]
      BY <1>2, <1>3, <1>7, <2>1 DEF Sums, T
    <3> QED BY <2>1, <3>1
  <2>2. CASE m # 0
    <3>1. ~(n + m <= n) /\ (n + m) - n = m
      BY <2>2
    <3> QED BY <1>7, <3>1 DEF T
  <2> QED BY <2>1, <2>2
<1> QED BY <1>2, <1>3, <1>4, <1>8

-----------------------------------------------------------------------------
(* Sequences of sequences. *)

LEMMA Flattening ==
  ASSUME NEW X, NEW ss \in Seq(Seq(X))
  PROVE  \E g : /\ g[0] = <<>> /\ g[Len(ss)] = FlattenSeq(ss)
                /\ \A i \in 0 .. Len(ss) : g[i] \in Seq(X)
                /\ \A i \in 1 .. Len(ss) : g[i] = g[i - 1] \o ss[i]
<1> DEFINE n == Len(ss)
           Rec(f) == f = [i \in 1 .. n |-> IF i = 1 THEN ss[i] ELSE f[i - 1] \o ss[i]]
           f == CHOOSE f : Rec(f)
           g == [i \in 0 .. n |-> IF i = 0 THEN <<>> ELSE f[i]]
<1>1. n \in Nat /\ (\A i \in 1 .. n : ss[i] \in Seq(X)) /\ <<>> \in Seq(X)
  BY LenProperties, ElementOfSeq, EmptySeq
<1>2. \E h : Rec(h)
  <2> DEFINE F == [p \in Seq(X) \X (1 .. n) |-> p[1] \o ss[p[2]]]
  <2>1. Steps(F, Seq(X), n)
    <3>1. \A p \in Seq(X) \X (1 .. n) : p[1] \o ss[p[2]] \in Seq(X)
      BY <1>1, ConcatProperties
    <3> QED BY <3>1 DEF Steps
  <2>2. \A t \in Seq(X), i \in 1 .. n : F[<<t, i>>] = t \o ss[i]
    OBVIOUS
  <2> HIDE DEF F, n
  <2>3. PICK k : Follows(k, <<>>, F, Seq(X), n)
    BY <1>1, <2>1, Recursion
  <2> DEFINE h == [i \in 1 .. n |-> k[i]]
  <2>4. ASSUME NEW i \in 1 .. n
        PROVE  h[i] = IF i = 1 THEN ss[i] ELSE h[i - 1] \o ss[i]
    <3>1. i - 1 \in 0 .. n /\ k[i - 1] \in Seq(X) /\ k[i] = F[<<k[i - 1], i>>]
      BY <1>1, <2>3 DEF Follows
    <3>2. h[i] = k[i - 1] \o ss[i]
      BY <2>2, <3>1
    <3>3. CASE i = 1
      <4>1. k[i - 1] = <<>> /\ ss[i] \in Seq(X)
        BY <1>1, <2>3, <3>3 DEF Follows
      <4> QED BY <3>2, <3>3, <4>1, ConcatEmptySeq
    <3>4. CASE i # 1
      <4>1. i - 1 \in 1 .. n
        BY <1>1, <3>4
      <4> QED BY <3>2, <3>4, <4>1
    <3> QED BY <3>3, <3>4
  <2>5. Rec(h)
    BY <2>4
  <2> QED BY <2>5
<1>3. Rec(f)
  BY <1>2
<1>4. g[n] = FlattenSeq(ss)
  <2>1. CASE n = 0
    <3>1. ss = <<>>
      BY <2>1, EmptySeq
    <3> QED BY <1>1, <2>1, <3>1 DEF FlattenSeq
  <2>2. CASE n # 0
    <3>1. FlattenSeq(ss) = f[n]
      BY <2>2 DEF FlattenSeq
    <3> QED BY <1>1, <2>2, <3>1
  <2> QED BY <2>1, <2>2
<1> HIDE DEF f
<1>5. g[0] = <<>>
  BY <1>1
<1>6. ASSUME NEW i \in 1 .. n
      PROVE  g[i] = IF i = 1 THEN ss[i] ELSE g[i - 1] \o ss[i]
  <2>1. g[i] = f[i]
    BY <1>1
  <2>2. f[i] = IF i = 1 THEN ss[i] ELSE f[i - 1] \o ss[i]
    <3>1. i \in 1 .. n
      OBVIOUS
    <3> HIDE DEF n, g
    <3> QED BY <1>3, <3>1
  <2>3. i # 1 => g[i - 1] = f[i - 1]
    BY <1>1
  <2> HIDE DEF g, n
  <2> QED BY <2>1, <2>2, <2>3
<1> HIDE DEF g
<1>7. \A i \in 1 .. n : g[i - 1] \in Seq(X) => g[i] \in Seq(X) /\ g[i] = g[i - 1] \o ss[i]
  <2> SUFFICES ASSUME NEW i \in 1 .. n, g[i - 1] \in Seq(X)
               PROVE  g[i] \in Seq(X) /\ g[i] = g[i - 1] \o ss[i]
    OBVIOUS
  <2>1. CASE i = 1
    <3>1. g[i - 1] = <<>> /\ g[i] = ss[i] /\ ss[i] \in Seq(X)
      BY <1>1, <1>5, <1>6, <2>1
    <3> QED BY <3>1, ConcatEmptySeq
  <2>2. CASE i # 1
    <3>1. g[i - 1] \in Seq(X) /\ ss[i] \in Seq(X) /\ g[i] = g[i - 1] \o ss[i]
      BY <1>1, <1>6, <2>2
    <3> QED BY <3>1, ConcatProperties
  <2> QED BY <2>1, <2>2
<1> DEFINE T == {i \in Nat : i <= n => g[i] \in Seq(X)}
<1>8. \A i \in 0 .. n : g[i] \in Seq(X)
  <2>1. 0 \in T
    BY <1>1, <1>5
  <2>2. ASSUME NEW i \in Nat, i \in T PROVE i + 1 \in T
    <3> SUFFICES ASSUME i + 1 <= n PROVE g[i + 1] \in Seq(X)
      OBVIOUS
    <3>1. i + 1 \in 1 .. n /\ (i + 1) - 1 = i /\ g[i] \in Seq(X)
      BY <1>1, <2>2
    <3> QED BY <1>7, <3>1
  <2> HIDE DEF T, n
  <2>3. Nat \subseteq T
    BY <2>1, <2>2, Induction
  <2>4. \A i \in 0 .. n : i \in Nat /\ i <= n
    BY <1>1
  <2> QED BY <2>3, <2>4 DEF T
<1>9. \A i \in 1 .. n : g[i] = g[i - 1] \o ss[i]
  <2>1. \A i \in 1 .. n : i - 1 \in 0 .. n
    BY <1>1
  <2> QED BY <1>7, <1>8, <2>1
<1> QED BY <1>4, <1>5, <1>8, <1>9

LEMMA ConcatElements ==
  ASSUME NEW X, NEW s \in Seq(X), NEW t \in Seq(X)
  PROVE  ToSet(s \o t) = ToSet(s) \cup ToSet(t)
<1>1. Len(s) \in Nat /\ DOMAIN s = 1 .. Len(s) /\ Len(t) \in Nat /\ DOMAIN t = 1 .. Len(t)
  BY LenProperties
<1>2. /\ DOMAIN (s \o t) = 1 .. Len(s) + Len(t)
      /\ \A i \in 1 .. Len(s) + Len(t) :
           (s \o t)[i] = IF i <= Len(s) THEN s[i] ELSE t[i - Len(s)]
  BY ConcatProperties, LenProperties
<1>3. \A i \in 1 .. Len(s) + Len(t) : (s \o t)[i] \in ToSet(s) \cup ToSet(t)
  <2> SUFFICES ASSUME NEW i \in 1 .. Len(s) + Len(t)
               PROVE  (s \o t)[i] \in ToSet(s) \cup ToSet(t)
    OBVIOUS
  <2>1. CASE i <= Len(s)
    <3>1. i \in 1 .. Len(s) /\ (s \o t)[i] = s[i]
      BY <1>1, <1>2, <2>1
    <3> QED BY <1>1, <3>1 DEF ToSet
  <2>2. CASE ~(i <= Len(s))
    <3>1. i - Len(s) \in 1 .. Len(t) /\ (s \o t)[i] = t[i - Len(s)]
      BY <1>1, <1>2, <2>2
    <3> QED BY <1>1, <3>1 DEF ToSet
  <2> QED BY <2>1, <2>2
<1>4. \A i \in 1 .. Len(s) : s[i] \in ToSet(s \o t)
  BY <1>1, <1>2 DEF ToSet
<1>5. \A i \in 1 .. Len(t) : t[i] \in ToSet(s \o t)
  <2>1. \A i \in 1 .. Len(t) : /\ Len(s) + i \in 1 .. Len(s) + Len(t)
                              /\ ~(Len(s) + i <= Len(s)) /\ (Len(s) + i) - Len(s) = i
    BY <1>1
  <2> QED BY <1>1, <1>2, <2>1 DEF ToSet
<1> QED BY <1>1, <1>2, <1>3, <1>4, <1>5 DEF ToSet

LEMMA FlatElements ==
  ASSUME NEW X, NEW ss \in Seq(Seq(X))
  PROVE  /\ FlattenSeq(ss) \in Seq(X)
         /\ ToSet(FlattenSeq(ss)) = UNION {ToSet(ss[i]) : i \in 1 .. Len(ss)}
<1>1. PICK g : /\ g[0] = <<>> /\ g[Len(ss)] = FlattenSeq(ss)
               /\ \A i \in 0 .. Len(ss) : g[i] \in Seq(X)
               /\ \A i \in 1 .. Len(ss) : g[i] = g[i - 1] \o ss[i]
  BY Flattening
<1>2. Len(ss) \in Nat /\ \A i \in 1 .. Len(ss) : ss[i] \in Seq(X)
  BY LenProperties, ElementOfSeq
<1> DEFINE T == {n \in Nat : n <= Len(ss) => ToSet(g[n]) = UNION {ToSet(ss[i]) : i \in 1 .. n}}
<1>3. 0 \in T
  BY <1>1 DEF ToSet
<1>4. ASSUME NEW n \in Nat, n \in T
      PROVE  n + 1 \in T
  <2> SUFFICES ASSUME n + 1 <= Len(ss)
               PROVE  ToSet(g[n + 1]) = UNION {ToSet(ss[i]) : i \in 1 .. n + 1}
    OBVIOUS
  <2>1. n \in 0 .. Len(ss) /\ n + 1 \in 1 .. Len(ss) /\ (n + 1) - 1 = n
    BY <1>2
  <2>2. ToSet(g[n + 1]) = ToSet(g[n]) \cup ToSet(ss[n + 1])
    <3>1. g[n] \in Seq(X) /\ ss[n + 1] \in Seq(X) /\ g[n + 1] = g[n] \o ss[n + 1]
      BY <1>1, <1>2, <2>1
    <3> QED BY <3>1, ConcatElements
  <2>3. ToSet(g[n]) = UNION {ToSet(ss[i]) : i \in 1 .. n}
    BY <1>2, <1>4
  <2>4. 1 .. n + 1 = (1 .. n) \cup {n + 1}
    OBVIOUS
  <2> QED BY <2>2, <2>3, <2>4
<1> HIDE DEF T
<1>5. Len(ss) \in T
  BY <1>2, <1>3, <1>4, Induction
<1>6. Len(ss) \in 0 .. Len(ss) /\ Len(ss) <= Len(ss)
  BY <1>2
<1>7. ToSet(g[Len(ss)]) = UNION {ToSet(ss[i]) : i \in 1 .. Len(ss)}
  BY <1>5, <1>6 DEF T
<1> QED BY <1>1, <1>6, <1>7

-----------------------------------------------------------------------------
(* Pages, groups and categories. *)

\* The pages of the files, and the copies of them that GetAll makes.
Copied(p)  == [p EXCEPT !.doc = CopyTokens(@)]
Originals  == {ParseMD(f) : f \in Files}
Copies     == {Copied(p) : p \in Originals}
CatNames   == {f.cat : f \in Files}
GroupNames == {f.group : f \in Files}

\* Groups and categories with pages of P, each in its place.
PagesIn(P, c, g) == {p \in P : p.cat = c /\ p.group = g}
GroupOf(P, c, g) == [name : {g}, weight : Int, pages : Seq(PagesIn(P, c, g))]
Groups(P, c)     == UNION {GroupOf(P, c, g) : g \in GroupNames}
CatOf(P, c)      == [name : {c}, groups : Seq(Groups(P, c))]
Cats(P)          == UNION {CatOf(P, c) : c \in CatNames}

LEMMA MapSeq ==
  ASSUME NEW X, NEW n \in Nat, NEW f, f \in [1 .. n -> X]
  PROVE  f \in Seq(X) /\ Len(f) = n
BY SeqDef

LEMMA SeqParts ==
  ASSUME NEW X, NEW s \in Seq(X)
  PROVE  /\ Len(s) \in Nat /\ DOMAIN s = 1 .. Len(s) /\ s \in [1 .. Len(s) -> X]
         /\ \A i \in 1 .. Len(s) : s[i] \in X
BY LenProperties, ElementOfSeq

LEMMA PagesAre ==
  ASSUME NEW p \in Originals
  PROVE  /\ p.weight \in Int /\ p.cat \in CatNames /\ p.group \in GroupNames
         /\ Copied(p).id = p.id /\ Copied(p).cat = p.cat /\ Copied(p).group = p.group
         /\ Copied(p).weight = p.weight /\ Copied(p).doc = CopyTokens(p.doc)
<1>1. PICK f \in Files : p = ParseMD(f)
  BY DEF Originals
<1>2. f.weight \in Int
  BY DocsAssumption
<1>3. p.weight \in Int /\ p.cat \in CatNames /\ p.group \in GroupNames
  BY <1>1, <1>2 DEF ParseMD, CatNames, GroupNames
<1>4. /\ Copied(p).id = p.id /\ Copied(p).cat = p.cat /\ Copied(p).group = p.group
      /\ Copied(p).weight = p.weight /\ Copied(p).doc = CopyTokens(p.doc)
  BY <1>1 DEF ParseMD, Copied
<1> QED BY <1>3, <1>4

\* What there is of a page, but for its document.
LEMMA CatParts ==
  ASSUME NEW P, NEW c \in Cats(P)
  PROVE  /\ c = [name |-> c.name, groups |-> c.groups]
         /\ c.name \in CatNames /\ c.groups \in Seq(Groups(P, c.name))
BY DEF Cats, CatOf

LEMMA GroupParts ==
  ASSUME NEW P, NEW c, NEW g \in Groups(P, c)
  PROVE  /\ g = [name |-> g.name, weight |-> g.weight, pages |-> g.pages]
         /\ g.name \in GroupNames /\ g.weight \in Int /\ g.pages \in Seq(PagesIn(P, c, g.name))
BY DEF Groups, GroupOf

LEMMA CatIs ==
  ASSUME NEW P, NEW c \in CatNames, NEW gs \in Seq(Groups(P, c))
  PROVE  [name |-> c, groups |-> gs] \in Cats(P)
BY DEF Cats, CatOf

LEMMA GroupIs ==
  ASSUME NEW P, NEW c, NEW g \in GroupNames, NEW w \in Int, NEW ps \in Seq(PagesIn(P, c, g))
  PROVE  [name |-> g, weight |-> w, pages |-> ps] \in Groups(P, c)
BY DEF Groups, GroupOf

-----------------------------------------------------------------------------
(* What Listed lists. *)

\* The pages of categories, and how many they are.
CatPages(c)    == UNION {ToSet(c.groups[j].pages) : j \in DOMAIN c.groups}
AllPages(cats) == UNION {CatPages(cats[i]) : i \in DOMAIN cats}
CatCount(c)    == Sum([j \in 1 .. Len(c.groups) |-> Len(c.groups[j].pages)], Len(c.groups))
Count(cats)    == Sum([i \in 1 .. Len(cats) |-> CatCount(cats[i])], Len(cats))

LEMMA FlatLen ==
  ASSUME NEW X, NEW ss \in Seq(Seq(X))
  PROVE  Len(FlattenSeq(ss)) = Sum([i \in 1 .. Len(ss) |-> Len(ss[i])], Len(ss))
<1> DEFINE n == Len(ss)
           f == [i \in 1 .. n |-> Len(ss[i])]
<1>1. PICK g : /\ g[0] = <<>> /\ g[n] = FlattenSeq(ss)
               /\ \A i \in 0 .. n : g[i] \in Seq(X)
               /\ \A i \in 1 .. n : g[i] = g[i - 1] \o ss[i]
  BY Flattening
<1>2. n \in Nat /\ \A i \in 1 .. n : ss[i] \in Seq(X) /\ f[i] = Len(ss[i]) /\ f[i] \in Nat
  <2>1. n \in Nat /\ \A i \in 1 .. n : ss[i] \in Seq(X)
    BY SeqParts
  <2>2. \A i \in 1 .. n : Len(ss[i]) \in Nat
    BY <2>1, SeqParts
  <2> QED BY <2>1, <2>2
<1> HIDE DEF f
<1>3. PICK e \in [0 .. n -> Nat] : Sums(e, f, n) /\ Sum(f, n) = e[n]
  <2> HIDE DEF n
  <2> QED BY <1>2, SumsAre
<1> HIDE DEF n
<1> DEFINE T == {i \in Nat : i <= n => Len(g[i]) = e[i]}
<1>4. 0 \in T
  BY <1>1, <1>3 DEF Sums
<1>5. ASSUME NEW i \in Nat, i \in T PROVE i + 1 \in T
  <2> SUFFICES ASSUME i + 1 <= n PROVE Len(g[i + 1]) = e[i + 1]
    OBVIOUS
  <2>1. i \in 0 .. n /\ i + 1 \in 1 .. n /\ (i + 1) - 1 = i /\ Len(g[i]) = e[i]
    BY <1>2, <1>5
  <2>2. g[i + 1] = g[i] \o ss[i + 1] /\ g[i] \in Seq(X) /\ ss[i + 1] \in Seq(X)
    BY <1>1, <1>2, <2>1
  <2>3. Len(g[i + 1]) = Len(g[i]) + Len(ss[i + 1])
    BY <2>2, ConcatProperties
  <2>4. e[i + 1] = e[i] + f[i + 1] /\ f[i + 1] = Len(ss[i + 1])
    BY <1>2, <1>3, <2>1 DEF Sums
  <2> QED BY <2>1, <2>3, <2>4
<1> HIDE DEF T
<1>6. n \in T
  BY <1>2, <1>4, <1>5, Induction
<1>7. Len(g[n]) = e[n]
  BY <1>2, <1>6 DEF T
<1> QED BY <1>1, <1>3, <1>7 DEF f, n

\* What Listed lists, and how much.
LEMMA ListedAre ==
  ASSUME NEW P, NEW cats \in Seq(Cats(P))
  PROVE  /\ Listed(cats) \in Seq([page : P, cat : CatNames, group : GroupNames])
         /\ Len(Listed(cats)) = Count(cats)
         /\ \A x \in ToSet(Listed(cats)) : /\ x.page \in AllPages(cats) /\ x.page \in P
                                           /\ x.page.cat = x.cat /\ x.page.group = x.group
         /\ \A p \in AllPages(cats) : \E x \in ToSet(Listed(cats)) : x.page = p
<1> DEFINE E == [page : P, cat : CatNames, group : GroupNames]
           row(i, j) == [k \in DOMAIN cats[i].groups[j].pages |->
                           [page |-> cats[i].groups[j].pages[k], cat |-> cats[i].name,
                            group |-> cats[i].groups[j].name]]
           rows(i) == [j \in DOMAIN cats[i].groups |-> row(i, j)]
           all == [i \in DOMAIN cats |-> FlattenSeq(rows(i))]
<1>1. Listed(cats) = FlattenSeq(all)
  BY DEF Listed
<1>2. Len(cats) \in Nat /\ DOMAIN cats = 1 .. Len(cats) /\ \A i \in 1 .. Len(cats) : cats[i] \in Cats(P)
  BY SeqParts
<1>3. ASSUME NEW i \in 1 .. Len(cats)
      PROVE  /\ cats[i].name \in CatNames
             /\ Len(cats[i].groups) \in Nat /\ DOMAIN cats[i].groups = 1 .. Len(cats[i].groups)
             /\ \A j \in 1 .. Len(cats[i].groups) : cats[i].groups[j] \in Groups(P, cats[i].name)
  <2>1. cats[i].name \in CatNames /\ cats[i].groups \in Seq(Groups(P, cats[i].name))
    BY <1>2, CatParts
  <2> QED BY <2>1, SeqParts
<1>4. ASSUME NEW i \in 1 .. Len(cats), NEW j \in 1 .. Len(cats[i].groups)
      PROVE  LET g == cats[i].groups[j]
             IN  /\ g.name \in GroupNames /\ Len(g.pages) \in Nat /\ DOMAIN g.pages = 1 .. Len(g.pages)
                 /\ \A k \in 1 .. Len(g.pages) : g.pages[k] \in PagesIn(P, cats[i].name, g.name)
                 /\ row(i, j) \in Seq(E) /\ Len(row(i, j)) = Len(g.pages)
                 /\ ToSet(row(i, j)) = {[page |-> p, cat |-> cats[i].name, group |-> g.name] : p \in ToSet(g.pages)}
  <2> DEFINE g == cats[i].groups[j]
             r == row(i, j)
  <2>1. g.name \in GroupNames /\ g.pages \in Seq(PagesIn(P, cats[i].name, g.name))
    BY <1>3, GroupParts
  <2>2. /\ Len(g.pages) \in Nat /\ DOMAIN g.pages = 1 .. Len(g.pages)
        /\ \A k \in 1 .. Len(g.pages) : g.pages[k] \in PagesIn(P, cats[i].name, g.name)
    BY <2>1, SeqParts
  <2>3. \A k \in 1 .. Len(g.pages) : [page |-> g.pages[k], cat |-> cats[i].name, group |-> g.name] \in E
    BY <1>3, <2>1, <2>2 DEF PagesIn
  <2>4. r \in [1 .. Len(g.pages) -> E]
    BY <2>2, <2>3
  <2>5. r \in Seq(E) /\ Len(r) = Len(g.pages)
    <3> HIDE DEF r, g, E
    <3> QED BY <2>2, <2>4, MapSeq
  <2>6. ToSet(r) = {[page |-> p, cat |-> cats[i].name, group |-> g.name] : p \in ToSet(g.pages)}
    BY <2>2 DEF ToSet
  <2> QED BY <2>1, <2>2, <2>5, <2>6
<1> HIDE DEF row, E
<1>5. ASSUME NEW i \in 1 .. Len(cats)
      PROVE  /\ FlattenSeq(rows(i)) \in Seq(E) /\ Len(FlattenSeq(rows(i))) = CatCount(cats[i])
             /\ ToSet(FlattenSeq(rows(i))) = UNION {ToSet(row(i, j)) : j \in 1 .. Len(cats[i].groups)}
  <2> DEFINE m == Len(cats[i].groups)
             r == rows(i)
  <2>1. r \in [1 .. m -> Seq(E)] /\ \A j \in 1 .. m : r[j] = row(i, j) /\ Len(r[j]) = Len(cats[i].groups[j].pages)
    BY <1>3, <1>4
  <2>2. m \in Nat
    BY <1>3
  <2> HIDE DEF r, m
  <2>3. r \in Seq(Seq(E)) /\ Len(r) = m
    BY <2>1, <2>2, MapSeq
  <2>4. [j \in 1 .. m |-> Len(r[j])] = [j \in 1 .. m |-> Len(cats[i].groups[j].pages)]
    BY <2>1
  <2>5. Len(FlattenSeq(r)) = CatCount(cats[i])
    BY <2>3, <2>4, FlatLen DEF CatCount, m
  <2>6. FlattenSeq(r) \in Seq(E) /\ ToSet(FlattenSeq(r)) = UNION {ToSet(r[j]) : j \in 1 .. m}
    BY <2>3, FlatElements
  <2>7. ToSet(FlattenSeq(r)) = UNION {ToSet(row(i, j)) : j \in 1 .. m}
    BY <2>1, <2>6
  <2> QED BY <2>5, <2>6, <2>7 DEF r, m
<1> HIDE DEF rows
<1>6. /\ FlattenSeq(all) \in Seq(E) /\ Len(FlattenSeq(all)) = Count(cats)
      /\ ToSet(FlattenSeq(all)) = UNION {ToSet(FlattenSeq(rows(i))) : i \in 1 .. Len(cats)}
  <2> DEFINE n == Len(cats)
  <2>1. all \in [1 .. n -> Seq(E)] /\ \A i \in 1 .. n : all[i] = FlattenSeq(rows(i)) /\ Len(all[i]) = CatCount(cats[i])
    BY <1>2, <1>5
  <2> HIDE DEF all, n
  <2>2. all \in Seq(Seq(E)) /\ Len(all) = n
    BY <1>2, <2>1, MapSeq DEF n
  <2>3. [i \in 1 .. n |-> Len(all[i])] = [i \in 1 .. n |-> CatCount(cats[i])]
    BY <2>1
  <2>4. Len(FlattenSeq(all)) = Count(cats)
    BY <2>2, <2>3, FlatLen DEF Count, n
  <2>5. FlattenSeq(all) \in Seq(E) /\ ToSet(FlattenSeq(all)) = UNION {ToSet(all[i]) : i \in 1 .. n}
    BY <2>2, FlatElements
  <2> QED BY <2>1, <2>4, <2>5 DEF n
<1> HIDE DEF all
<1>7. ASSUME NEW x \in ToSet(Listed(cats))
      PROVE  x.page \in AllPages(cats) /\ x.page \in P /\ x.page.cat = x.cat /\ x.page.group = x.group
  <2>1. PICK i \in 1 .. Len(cats) : x \in ToSet(FlattenSeq(rows(i)))
    BY <1>1, <1>6
  <2>2. PICK j \in 1 .. Len(cats[i].groups) : x \in ToSet(row(i, j))
    BY <1>5, <2>1
  <2> DEFINE g == cats[i].groups[j]
  <2>3. PICK p \in ToSet(g.pages) : x = [page |-> p, cat |-> cats[i].name, group |-> g.name]
    BY <1>4, <2>2
  <2>4. p \in PagesIn(P, cats[i].name, g.name)
    <3>1. PICK k \in DOMAIN g.pages : p = g.pages[k]
      BY <2>3 DEF ToSet
    <3> QED BY <1>4, <3>1
  <2>5. p \in AllPages(cats)
    BY <1>2, <1>3, <2>3 DEF AllPages, CatPages
  <2> QED BY <2>3, <2>4, <2>5 DEF PagesIn
<1>8. ASSUME NEW p \in AllPages(cats)
      PROVE  \E x \in ToSet(Listed(cats)) : x.page = p
  <2>1. PICK i \in 1 .. Len(cats) : p \in CatPages(cats[i])
    BY <1>2, <1>8 DEF AllPages
  <2>2. PICK j \in 1 .. Len(cats[i].groups) : p \in ToSet(cats[i].groups[j].pages)
    BY <1>3, <2>1 DEF CatPages
  <2> DEFINE x == [page |-> p, cat |-> cats[i].name, group |-> cats[i].groups[j].name]
  <2>3. x \in ToSet(row(i, j)) /\ x.page = p
    BY <1>4, <2>2
  <2> HIDE DEF x
  <2>4. x \in ToSet(FlattenSeq(rows(i)))
    BY <1>5, <2>3
  <2>5. x \in ToSet(Listed(cats))
    BY <1>1, <1>6, <2>4
  <2> QED BY <2>3, <2>5
<1> QED BY <1>1, <1>6, <1>7, <1>8 DEF E

-----------------------------------------------------------------------------
(* Sums over the elements of a sequence. *)

\* The sum of the weights of the elements of a sequence.
Total(s, w) == Sum([i \in 1 .. Len(s) |-> w[s[i]]], Len(s))

Weighs(w, X) == w \in [X -> Nat]

LEMMA TotalIs ==
  ASSUME NEW X, NEW w, Weighs(w, X), NEW s \in Seq(X), NEW f,
         \A i \in 1 .. Len(s) : f[i] = w[s[i]]
  PROVE  Sum(f, Len(s)) = Total(s, w) /\ Total(s, w) \in Nat
<1> DEFINE h == [i \in 1 .. Len(s) |-> w[s[i]]]
           n == Len(s)
<1>1. n \in Nat /\ \A i \in 1 .. n : h[i] \in Nat /\ f[i] = h[i]
  BY SeqParts DEF Weighs
<1> HIDE DEF h, n
<1>2. Sum(f, n) = Sum(h, n) /\ Sum(h, n) \in Nat
  BY <1>1, SumSame
<1> QED BY <1>2 DEF Total, h, n

LEMMA TotalConcat ==
  ASSUME NEW X, NEW w, Weighs(w, X), NEW s \in Seq(X), NEW t \in Seq(X)
  PROVE  Total(s \o t, w) = Total(s, w) + Total(t, w)
<1> DEFINE f == [i \in 1 .. Len(s) |-> w[s[i]]]
           h == [i \in 1 .. Len(t) |-> w[t[i]]]
           k == [i \in 1 .. Len(s \o t) |-> w[(s \o t)[i]]]
<1>1. /\ Len(s) \in Nat /\ Len(t) \in Nat
      /\ \A i \in 1 .. Len(s) : s[i] \in X
      /\ \A i \in 1 .. Len(t) : t[i] \in X
  BY SeqParts DEF Weighs
<1>2. /\ Len(s \o t) = Len(s) + Len(t)
      /\ \A i \in 1 .. Len(s) + Len(t) : (s \o t)[i] = IF i <= Len(s) THEN s[i] ELSE t[i - Len(s)]
  BY ConcatProperties
<1>3. \A i \in 1 .. Len(s) : i \in 1 .. Len(s) + Len(t) /\ f[i] \in Nat /\ k[i] = f[i]
  BY <1>1, <1>2 DEF Weighs
<1>4. \A i \in 1 .. Len(t) : h[i] \in Nat /\ k[Len(s) + i] = h[i]
  <2>1. \A i \in 1 .. Len(t) : /\ Len(s) + i \in 1 .. Len(s) + Len(t)
                              /\ ~(Len(s) + i <= Len(s)) /\ (Len(s) + i) - Len(s) = i
    BY <1>1
  <2> QED BY <1>1, <1>2, <2>1 DEF Weighs
<1> HIDE DEF f, h, k
<1>5. Sum(k, Len(s) + Len(t)) = Sum(f, Len(s)) + Sum(h, Len(t))
  <2> DEFINE n == Len(s)
             m == Len(t)
  <2>1. n \in Nat /\ m \in Nat
    BY <1>1
  <2>2. \A i \in 1 .. n : f[i] \in Nat /\ k[i] = f[i]
    BY <1>3
  <2>3. \A i \in 1 .. m : h[i] \in Nat /\ k[n + i] = h[i]
    BY <1>4
  <2> HIDE DEF n, m
  <2>4. Joined(k, f, n, h, m)
    BY <2>2, <2>3 DEF Joined
  <2>5. Sum(k, n + m) = Sum(f, n) + Sum(h, m)
    BY <2>1, <2>4, SumConcat
  <2> QED BY <2>5 DEF n, m
<1> QED BY <1>2, <1>5 DEF Total, f, h, k

LEMMA TotalAppend ==
  ASSUME NEW X, NEW w, Weighs(w, X), NEW s \in Seq(X), NEW x \in X
  PROVE  Total(Append(s, x), w) = Total(s, w) + w[x]
<1> DEFINE t == <<x>>
           h == [i \in 1 .. 1 |-> w[t[i]]]
<1>1. t \in Seq(X) /\ Len(t) = 1 /\ t[1] = x /\ Append(s, x) = s \o t
  BY AppendIsConcat
<1>2. h[1] = w[x] /\ w[x] \in Nat /\ \A i \in 1 .. 1 : h[i] \in Nat
  BY <1>1 DEF Weighs
<1>3. Total(t, w) = Sum(h, 1)
  BY <1>1 DEF Total
<1> HIDE DEF t, h
<1>4. Sum(h, 1) = w[x]
  <2>1. 1 \in Nat
    OBVIOUS
  <2>2. PICK g \in [0 .. 1 -> Nat] : Sums(g, h, 1) /\ Sum(h, 1) = g[1]
    BY <1>2, <2>1, SumsAre
  <2> QED BY <1>2, <2>2 DEF Sums
<1> QED BY <1>1, <1>3, <1>4, TotalConcat

\* One element is another, that weighs more.
LEMMA TotalChanged ==
  ASSUME NEW X, NEW w, Weighs(w, X), NEW s \in Seq(X), NEW k \in 1 .. Len(s), NEW x \in X,
         NEW d \in Nat, w[x] = w[s[k]] + d
  PROVE  Total([s EXCEPT ![k] = x], w) = Total(s, w) + d
<1> DEFINE r == [s EXCEPT ![k] = x]
           f == [i \in 1 .. Len(s) |-> w[s[i]]]
           h == [i \in 1 .. Len(r) |-> w[r[i]]]
<1>1. Len(s) \in Nat /\ \A i \in 1 .. Len(s) : s[i] \in X
  BY SeqParts DEF Weighs
<1>2. Len(r) = Len(s) /\ \A i \in 1 .. Len(s) : r[i] = IF i = k THEN x ELSE s[i]
  BY ExceptSeq
<1> HIDE DEF r
<1>3. \A i \in 1 .. Len(s) : f[i] \in Nat /\ h[i] = IF i = k THEN f[i] + d ELSE f[i]
  BY <1>1, <1>2 DEF Weighs
<1> HIDE DEF f, h
<1>4. Sum(h, Len(s)) = Sum(f, Len(s)) + d
  <2> DEFINE n == Len(s)
  <2>1. n \in Nat /\ Raised(h, f, n, k, d)
    BY <1>1, <1>3 DEF Raised
  <2> HIDE DEF n
  <2>2. Sum(h, n) = Sum(f, n) + d
    BY <2>1, SumChanged
  <2> QED BY <2>2 DEF n
<1> QED BY <1>2, <1>4 DEF Total, f, h, r

\* A sort changes no sum.
LEMMA TotalPuts ==
  ASSUME NEW X, NEW w, Weighs(w, X), NEW s \in Seq(X), NEW r \in Seq(X), NEW x \in X,
         NEW k \in 1 .. Len(s) + 1, Puts(r, s, k, x)
  PROVE  Total(r, w) = Total(s, w) + w[x]
<1> DEFINE f == [i \in 1 .. Len(s) |-> w[s[i]]]
           h == [i \in 1 .. Len(r) |-> w[r[i]]]
           n == Len(s)
<1>1. n \in Nat /\ Len(r) = n + 1 /\ w[x] \in Nat /\ \A i \in 1 .. n : s[i] \in X /\ f[i] \in Nat
  BY SeqParts DEF Puts, Weighs
<1>2. ASSUME NEW i \in 1 .. n + 1
      PROVE  h[i] = IF i < k THEN f[i] ELSE IF i = k THEN w[x] ELSE f[i - 1]
  <2>1. CASE i < k
    <3>1. i \in 1 .. k - 1 /\ i \in 1 .. n
      BY <1>1, <2>1
    <3> QED BY <1>1, <2>1, <3>1 DEF Puts
  <2>2. CASE i = k
    BY <1>1, <2>2 DEF Puts
  <2>3. CASE i > k
    <3>1. i \in k + 1 .. Len(s) + 1 /\ i - 1 \in 1 .. n
      BY <1>1, <2>3
    <3> QED BY <1>1, <2>3, <3>1 DEF Puts
  <2> QED BY <1>1, <2>1, <2>2, <2>3
<1> HIDE DEF f, h
<1>3. Sum(h, n + 1) = Sum(f, n) + w[x]
  <2> DEFINE y == w[x]
  <2> HIDE DEF n, y
  <2> SUFFICES Sum(h, n + 1) = Sum(f, n) + y
    BY DEF y
  <2>1. n \in Nat /\ y \in Nat /\ k \in 1 .. n + 1 /\ \A i \in 1 .. n : f[i] \in Nat
    BY <1>1 DEF n, y
  <2>2. \A i \in 1 .. n + 1 : h[i] = IF i < k THEN f[i] ELSE IF i = k THEN y ELSE f[i - 1]
    BY <1>2 DEF y
  <2> QED BY <2>1, <2>2, SumInserted
<1> QED BY <1>1, <1>3 DEF Total, f, h, n

LEMMA TotalByWeight ==
  ASSUME NEW X, NEW w, Weighs(w, X), NEW s \in Seq(X), \A y \in X : y.weight \in Int
  PROVE  Total(ByWeight(s), w) = Total(s, w)
<1>1. PICK f : /\ f[0] = <<>> /\ f[Len(s)] = ByWeight(s)
               /\ \A i \in 0 .. Len(s) : f[i] \in Seq(X) /\ Len(f[i]) = i /\ InOrder(f[i])
               /\ \A i \in 1 .. Len(s) : \E k \in 1 .. i : Puts(f[i], f[i - 1], k, s[i])
  BY Sorting
<1> DEFINE n == Len(s)
           h == [i \in 1 .. n |-> w[s[i]]]
<1>2. n \in Nat /\ \A i \in 1 .. n : s[i] \in X /\ h[i] \in Nat
  BY SeqParts DEF Weighs
<1>3. PICK g \in [0 .. n -> Nat] : Sums(g, h, n) /\ Sum(h, n) = g[n]
  <2> HIDE DEF n, h
  <2> QED BY <1>2, SumsAre
<1> DEFINE T == {i \in Nat : i <= n => Total(f[i], w) = g[i]}
<1>4. 0 \in T
  <2> DEFINE z == [i \in 1 .. 0 |-> w[<<>>[i]]]
  <2>1. Total(<<>>, w) = Sum(z, 0)
    BY DEF Total
  <2> HIDE DEF z
  <2>2. Total(<<>>, w) = 0
    BY <2>1, SumOfNone
  <2> QED BY <1>1, <1>3, <2>2 DEF Sums
<1>5. ASSUME NEW i \in Nat, i \in T PROVE i + 1 \in T
  <2> SUFFICES ASSUME i + 1 <= n PROVE Total(f[i + 1], w) = g[i + 1]
    OBVIOUS
  <2>1. i \in 0 .. n /\ i + 1 \in 0 .. n /\ i + 1 \in 1 .. n /\ (i + 1) - 1 = i /\ Total(f[i], w) = g[i]
    BY <1>2, <1>5
  <2>2. PICK k \in 1 .. i + 1 : Puts(f[i + 1], f[i], k, s[i + 1])
    BY <1>1, <2>1
  <2>3. f[i] \in Seq(X) /\ Len(f[i]) = i /\ f[i + 1] \in Seq(X) /\ s[i + 1] \in X
    BY <1>1, <1>2, <2>1
  <2>4. Total(f[i + 1], w) = Total(f[i], w) + w[s[i + 1]]
    <3> DEFINE a == f[i]
               b == f[i + 1]
               x == s[i + 1]
    <3>1. a \in Seq(X) /\ b \in Seq(X) /\ x \in X /\ k \in 1 .. Len(a) + 1 /\ Puts(b, a, k, x)
      BY <2>2, <2>3
    <3> HIDE DEF a, b, x
    <3>2. Total(b, w) = Total(a, w) + w[x]
      BY <3>1, TotalPuts
    <3> QED BY <3>2 DEF a, b, x
  <2>5. g[i + 1] = g[i] + h[i + 1] /\ h[i + 1] = w[s[i + 1]]
    BY <1>3, <2>1 DEF Sums
  <2> QED BY <2>1, <2>4, <2>5
<1> HIDE DEF T
<1>6. n \in T
  BY <1>2, <1>4, <1>5, Induction
<1>7. Total(f[n], w) = g[n]
  BY <1>2, <1>6 DEF T
<1> QED BY <1>1, <1>3, <1>7 DEF Total

LEMMA TotalFlat ==
  ASSUME NEW X, NEW w, Weighs(w, X), NEW ss \in Seq(Seq(X)), NEW h,
         \A i \in 1 .. Len(ss) : h[i] = Total(ss[i], w)
  PROVE  Total(FlattenSeq(ss), w) = Sum(h, Len(ss))
<1> DEFINE n == Len(ss)
<1>1. PICK f : /\ f[0] = <<>> /\ f[n] = FlattenSeq(ss)
               /\ \A i \in 0 .. n : f[i] \in Seq(X)
               /\ \A i \in 1 .. n : f[i] = f[i - 1] \o ss[i]
  BY Flattening
<1>2. n \in Nat /\ \A i \in 1 .. n : ss[i] \in Seq(X) /\ h[i] \in Nat
  <2>1. n \in Nat /\ \A i \in 1 .. n : ss[i] \in Seq(X)
    BY SeqParts DEF Weighs
  <2>2. \A i \in 1 .. n : Total(ss[i], w) \in Nat
    <3> SUFFICES ASSUME NEW i \in 1 .. n PROVE Total(ss[i], w) \in Nat
      OBVIOUS
    <3> DEFINE k == [j \in 1 .. Len(ss[i]) |-> w[ss[i][j]]]
    <3>1. ss[i] \in Seq(X) /\ \A j \in 1 .. Len(ss[i]) : k[j] = w[ss[i][j]]
      BY <2>1
    <3> HIDE DEF k, n
    <3> QED BY <3>1, TotalIs
  <2> QED BY <2>1, <2>2
<1> HIDE DEF n
<1>3. PICK g \in [0 .. n -> Nat] : Sums(g, h, n) /\ Sum(h, n) = g[n]
  BY <1>2, SumsAre
<1> DEFINE T == {i \in Nat : i <= n => Total(f[i], w) = g[i]}
<1>4. 0 \in T
  <2> DEFINE z == [i \in 1 .. 0 |-> w[<<>>[i]]]
  <2>1. Total(<<>>, w) = Sum(z, 0)
    BY DEF Total
  <2> HIDE DEF z
  <2>2. Total(<<>>, w) = 0
    BY <2>1, SumOfNone
  <2> QED BY <1>1, <1>3, <2>2 DEF Sums
<1>5. ASSUME NEW i \in Nat, i \in T PROVE i + 1 \in T
  <2> SUFFICES ASSUME i + 1 <= n PROVE Total(f[i + 1], w) = g[i + 1]
    OBVIOUS
  <2>1. i \in 0 .. n /\ i + 1 \in 1 .. n /\ (i + 1) - 1 = i /\ Total(f[i], w) = g[i]
    <3>1. i <= n /\ i \in 0 .. n /\ i + 1 \in 1 .. n /\ (i + 1) - 1 = i
      BY <1>2
    <3> QED BY <1>5, <3>1
  <2>2. f[i] \in Seq(X) /\ ss[i + 1] \in Seq(X) /\ f[i + 1] = f[i] \o ss[i + 1]
    BY <1>1, <1>2, <2>1
  <2>3. Total(f[i + 1], w) = Total(f[i], w) + Total(ss[i + 1], w)
    BY <2>2, TotalConcat
  <2>4. g[i + 1] = g[i] + h[i + 1] /\ h[i + 1] = Total(ss[i + 1], w)
    BY <1>3, <2>1 DEF Sums, n
  <2> QED BY <2>1, <2>3, <2>4
<1> HIDE DEF T
<1>6. n \in T
  BY <1>2, <1>4, <1>5, Induction
<1>7. Total(f[n], w) = g[n]
  BY <1>2, <1>6 DEF T
<1> QED BY <1>1, <1>3, <1>7 DEF n

-----------------------------------------------------------------------------
(* Parse. *)

GroupSize(P, c) == [g \in Groups(P, c) |-> Len(g.pages)]
CatSize(P)      == [c \in Cats(P) |-> CatCount(c)]

LEMMA CatCounts ==
  ASSUME NEW P, NEW c \in Cats(P)
  PROVE  /\ Weighs(GroupSize(P, c.name), Groups(P, c.name))
         /\ CatCount(c) = Total(c.groups, GroupSize(P, c.name)) /\ CatCount(c) \in Nat
<1> DEFINE X == Groups(P, c.name)
           w == GroupSize(P, c.name)
           gs == c.groups
           f == [j \in 1 .. Len(gs) |-> Len(gs[j].pages)]
<1>1. Weighs(w, X)
  <2>1. \A g \in X : Len(g.pages) \in Nat
    BY GroupParts, SeqParts
  <2> QED BY <2>1 DEF Weighs, GroupSize
<1>2. gs \in Seq(X) /\ \A j \in 1 .. Len(gs) : gs[j] \in X
  BY CatParts, SeqParts
<1>3. \A j \in 1 .. Len(gs) : f[j] = w[gs[j]]
  BY <1>2 DEF GroupSize
<1>4. CatCount(c) = Sum(f, Len(gs))
  BY DEF CatCount
<1> HIDE DEF X, w, gs, f
<1>5. CatCount(c) = Total(gs, w) /\ CatCount(c) \in Nat
  BY <1>1, <1>2, <1>3, <1>4, TotalIs
<1> QED BY <1>1, <1>5 DEF X, w, gs

LEMMA Counts ==
  ASSUME NEW P
  PROVE  /\ Weighs(CatSize(P), Cats(P))
         /\ \A cats \in Seq(Cats(P)) : Count(cats) = Total(cats, CatSize(P)) /\ Count(cats) \in Nat
<1>1. Weighs(CatSize(P), Cats(P))
  BY CatCounts DEF Weighs, CatSize
<1>2. ASSUME NEW cats \in Seq(Cats(P))
      PROVE  Count(cats) = Total(cats, CatSize(P)) /\ Count(cats) \in Nat
  <2> DEFINE X == Cats(P)
             w == CatSize(P)
             f == [i \in 1 .. Len(cats) |-> CatCount(cats[i])]
  <2>1. \A i \in 1 .. Len(cats) : f[i] = w[cats[i]]
    BY SeqParts DEF CatSize
  <2>2. Count(cats) = Sum(f, Len(cats))
    BY DEF Count
  <2>3. Weighs(w, X) /\ cats \in Seq(X)
    BY <1>1
  <2> HIDE DEF X, w, f
  <2>4. Count(cats) = Total(cats, w) /\ Count(cats) \in Nat
    BY <2>1, <2>2, <2>3, TotalIs
  <2> QED BY <2>4 DEF w
<1> QED BY <1>1, <1>2

LEMMA ParsedPage ==
  ASSUME NEW f \in Files
  PROVE  /\ ParseMD(f) \in Originals
         /\ ParseMD(f) \in PagesIn(Originals, f.cat, f.group)
         /\ f.cat \in CatNames /\ f.group \in GroupNames /\ f.gweight \in Int
<1>1. ParseMD(f).cat = f.cat /\ ParseMD(f).group = f.group /\ ParseMD(f) \in Originals
  BY DEF ParseMD, Originals
<1>2. f.gweight \in Int
  BY DocsAssumption
<1> QED BY <1>1, <1>2 DEF PagesIn, CatNames, GroupNames

\* A page goes to the end of its group.
LEMMA PageAdded ==
  ASSUME NEW cats \in Seq(Cats(Originals)), NEW f \in Files
  PROVE  AddPage(cats, f) \in Seq(Cats(Originals)) /\ Count(AddPage(cats, f)) = Count(cats) + 1
<1> DEFINE O == Originals
           page == ParseMD(f)
           c == Find(cats, f.cat)
           withCat == IF c # 0 THEN cats ELSE Append(cats, [name |-> f.cat, groups |-> <<>>])
           i == IF c # 0 THEN c ELSE Len(withCat)
           groups == withCat[i].groups
           g == Find(groups, f.group)
           j == IF g # 0 THEN g ELSE Len(groups) + 1
           withGroup == IF g # 0 THEN groups
                        ELSE Append(groups, [name |-> f.group, weight |-> f.gweight, pages |-> <<>>])
           gr == [withGroup[j] EXCEPT !.pages = Append(@, page)]
           gs == [withGroup EXCEPT ![j] = gr]
           cat == [withCat[i] EXCEPT !.groups = gs]
           w == CatSize(O)
           v == GroupSize(O, f.cat)
<1>1. AddPage(cats, f) = [withCat EXCEPT ![i] = cat]
  BY DEF AddPage
<1>2. /\ page \in PagesIn(O, f.cat, f.group)
      /\ f.cat \in CatNames /\ f.group \in GroupNames /\ f.gweight \in Int
  BY ParsedPage
<1>3. Weighs(w, Cats(O)) /\ Count(cats) = Total(cats, w) /\ Total(cats, w) \in Nat
  BY Counts
<1>4. /\ withCat \in Seq(Cats(O)) /\ i \in 1 .. Len(withCat) /\ withCat[i].name = f.cat
      /\ Total(withCat, w) = Total(cats, w)
  <2>1. Len(cats) \in Nat
    BY SeqParts
  <2>2. CASE c # 0
    <3>1. c \in 1 .. Len(cats) /\ cats[c].name = f.cat
      BY <2>1, <2>2, Found
    <3> QED BY <2>2, <3>1
  <2>3. CASE c = 0
    <3> DEFINE new == [name |-> f.cat, groups |-> <<>>]
    <3>1. new \in Cats(O)
      BY <1>2, EmptySeq, CatIs
    <3>2. w[new] = 0
      <4> DEFINE z == [k \in 1 .. 0 |-> Len(<<>>[k].pages)]
      <4>1. CatCount(new) = Sum(z, 0)
        BY DEF CatCount
      <4>2. w[new] = CatCount(new)
        BY <3>1 DEF CatSize
      <4> HIDE DEF z
      <4> QED BY <4>1, <4>2, SumOfNone
    <3> HIDE DEF w
    <3>3. withCat = Append(cats, new) /\ i = Len(withCat) /\ new.name = f.cat
      BY <2>3
    <3> HIDE DEF new, withCat, i
    <3>4. Append(cats, new) \in Seq(Cats(O)) /\ Len(Append(cats, new)) = Len(cats) + 1
          /\ Append(cats, new)[Len(cats) + 1] = new
      BY <3>1, AppendProperties
    <3>5. Total(Append(cats, new), w) = Total(cats, w) + w[new]
      BY <1>3, <3>1, TotalAppend
    <3> QED BY <1>3, <2>1, <3>2, <3>3, <3>4, <3>5
  <2> QED BY <2>2, <2>3
<1> HIDE DEF withCat, i
<1>5. /\ withCat[i] \in Cats(O)
      /\ withCat[i] = [name |-> f.cat, groups |-> groups] /\ groups \in Seq(Groups(O, f.cat))
      /\ Len(groups) \in Nat
      /\ CatCount(withCat[i]) = Total(groups, v) /\ Weighs(v, Groups(O, f.cat)) /\ Total(groups, v) \in Nat
  <2>1. withCat[i] \in Cats(O)
    BY <1>4, SeqParts
  <2>2. withCat[i] = [name |-> f.cat, groups |-> groups] /\ groups \in Seq(Groups(O, f.cat))
    BY <1>4, <2>1, CatParts
  <2>3. CatCount(withCat[i]) = Total(groups, v) /\ Weighs(v, Groups(O, f.cat)) /\ CatCount(withCat[i]) \in Nat
    BY <1>4, <2>1, CatCounts
  <2>4. Len(groups) \in Nat
    BY <2>2, SeqParts
  <2> QED BY <2>1, <2>2, <2>3, <2>4
<1> HIDE DEF groups
<1>6. /\ withGroup \in Seq(Groups(O, f.cat)) /\ j \in 1 .. Len(withGroup)
      /\ withGroup[j].name = f.group /\ Total(withGroup, v) = Total(groups, v)
  <2>1. CASE g # 0
    <3>1. g \in 1 .. Len(groups) /\ groups[g].name = f.group
      BY <1>5, <2>1, Found
    <3> QED BY <1>5, <2>1, <3>1
  <2>2. CASE g = 0
    <3> DEFINE new == [name |-> f.group, weight |-> f.gweight, pages |-> <<>>]
    <3>1. new \in Groups(O, f.cat)
      BY <1>2, EmptySeq, GroupIs
    <3>2. v[new] = 0
      BY <3>1 DEF GroupSize
    <3> HIDE DEF v
    <3>3. withGroup = Append(groups, new) /\ j = Len(groups) + 1 /\ new.name = f.group
      BY <2>2
    <3> HIDE DEF new, withGroup, j
    <3>4. Append(groups, new) \in Seq(Groups(O, f.cat)) /\ Len(Append(groups, new)) = Len(groups) + 1
          /\ Append(groups, new)[Len(groups) + 1] = new
      BY <1>5, <3>1, AppendProperties
    <3>5. Total(Append(groups, new), v) = Total(groups, v) + v[new]
      BY <1>5, <3>1, TotalAppend
    <3> QED BY <1>5, <3>2, <3>3, <3>4, <3>5
  <2> QED BY <2>1, <2>2
<1> HIDE DEF withGroup, j
<1>7. /\ gr \in Groups(O, f.cat) /\ withGroup[j] \in Groups(O, f.cat)
      /\ v[gr] = v[withGroup[j]] + 1 /\ v[withGroup[j]] \in Nat
  <2> DEFINE old == withGroup[j]
  <2>1. old \in Groups(O, f.cat) /\ old.name = f.group
    BY <1>6, SeqParts
  <2>2. /\ old = [name |-> f.group, weight |-> old.weight, pages |-> old.pages]
        /\ old.weight \in Int /\ old.pages \in Seq(PagesIn(O, f.cat, f.group))
    BY <2>1, GroupParts
  <2> HIDE DEF old, page
  <2>3. /\ Append(old.pages, page) \in Seq(PagesIn(O, f.cat, f.group))
        /\ Len(Append(old.pages, page)) = Len(old.pages) + 1 /\ Len(old.pages) \in Nat
    BY <1>2, <2>2, AppendProperties, SeqParts
  <2> DEFINE ps == Append(old.pages, page)
  <2>4. gr = [name |-> f.group, weight |-> old.weight, pages |-> ps]
    <3>1. \A n, u, p, q : [[name |-> n, weight |-> u, pages |-> p] EXCEPT !.pages = q]
                            = [name |-> n, weight |-> u, pages |-> q]
      OBVIOUS
    <3>2. gr = [old EXCEPT !.pages = ps]
      BY DEF old
    <3> HIDE DEF ps, gr
    <3> QED BY <2>2, <3>1, <3>2
  <2>5. ps \in Seq(PagesIn(O, f.cat, f.group))
    BY <2>3
  <2> HIDE DEF ps, gr
  <2>6. gr \in Groups(O, f.cat) /\ gr.pages = ps
    BY <1>2, <2>2, <2>4, <2>5, GroupIs
  <2>7. v[gr] = Len(ps) /\ v[old] = Len(old.pages)
    BY <2>1, <2>6 DEF GroupSize
  <2> HIDE DEF v
  <2> QED BY <2>1, <2>3, <2>6, <2>7 DEF old, ps
<1> HIDE DEF gr, v
<1>8. gs \in Seq(Groups(O, f.cat)) /\ Total(gs, v) = Total(groups, v) + 1
  <2>1. gs \in Seq(Groups(O, f.cat))
    BY <1>6, <1>7, ExceptSeq
  <2>2. Total(gs, v) = Total(withGroup, v) + 1
    <3> DEFINE X == Groups(O, f.cat)
    <3>1. /\ Weighs(v, X) /\ withGroup \in Seq(X) /\ j \in 1 .. Len(withGroup) /\ gr \in X
          /\ 1 \in Nat /\ v[gr] = v[withGroup[j]] + 1
      BY <1>5, <1>6, <1>7
    <3> HIDE DEF X
    <3> QED BY <3>1, TotalChanged
  <2> QED BY <1>6, <2>1, <2>2
<1> HIDE DEF gs
<1>9. cat \in Cats(O) /\ CatCount(cat) = CatCount(withCat[i]) + 1
  <2>1. cat = [name |-> f.cat, groups |-> gs]
    BY <1>5
  <2>2. cat \in Cats(O)
    BY <1>2, <1>8, <2>1, CatIs
  <2>3. CatCount(cat) = Total(gs, v)
    BY <2>1, <2>2, CatCounts DEF v
  <2> QED BY <1>5, <1>8, <2>2, <2>3
<1> HIDE DEF cat
<1>10. w[cat] = w[withCat[i]] + 1
  BY <1>5, <1>9 DEF CatSize
<1> HIDE DEF w
<1>11. [withCat EXCEPT ![i] = cat] \in Seq(Cats(O)) /\ Total([withCat EXCEPT ![i] = cat], w) = Total(withCat, w) + 1
  <2>1. [withCat EXCEPT ![i] = cat] \in Seq(Cats(O))
    BY <1>4, <1>9, ExceptSeq
  <2>2. Total([withCat EXCEPT ![i] = cat], w) = Total(withCat, w) + 1
    <3> DEFINE X == Cats(O)
    <3>1. /\ Weighs(w, X) /\ withCat \in Seq(X) /\ i \in 1 .. Len(withCat) /\ cat \in X
          /\ 1 \in Nat /\ w[cat] = w[withCat[i]] + 1
      BY <1>3, <1>4, <1>9, <1>10
    <3> HIDE DEF X
    <3> QED BY <3>1, TotalChanged
  <2> QED BY <2>1, <2>2
<1>12. Count([withCat EXCEPT ![i] = cat]) = Total([withCat EXCEPT ![i] = cat], w)
  BY <1>11, Counts DEF w
<1> QED BY <1>1, <1>3, <1>4, <1>11, <1>12

-----------------------------------------------------------------------------
(* The sorts of groups and pages. *)

LEMMA CountSame ==
  ASSUME NEW P, NEW Q, NEW cats \in Seq(Cats(P)), NEW ds \in Seq(Cats(Q)), Len(ds) = Len(cats),
         \A i \in 1 .. Len(cats) : CatCount(ds[i]) = CatCount(cats[i])
  PROVE  Count(ds) = Count(cats)
<1>1. [i \in 1 .. Len(ds) |-> CatCount(ds[i])] = [i \in 1 .. Len(cats) |-> CatCount(cats[i])]
  OBVIOUS
<1> QED BY <1>1 DEF Count

\* Sorting the pages of groups.
LEMMA PagesSorted ==
  ASSUME NEW P, \A p \in P : p.weight \in Int, NEW c, NEW gs \in Seq(Groups(P, c))
  PROVE  /\ SortPages(gs) \in Seq(Groups(P, c)) /\ Len(SortPages(gs)) = Len(gs)
         /\ \A j \in 1 .. Len(gs) :
              /\ SortPages(gs)[j].name = gs[j].name /\ SortPages(gs)[j].weight = gs[j].weight
              /\ Len(SortPages(gs)[j].pages) = Len(gs[j].pages)
              /\ ToSet(SortPages(gs)[j].pages) = ToSet(gs[j].pages)
              /\ InOrder(SortPages(gs)[j].pages)
<1> DEFINE hs == SortPages(gs)
           G == Groups(P, c)
<1>1. Len(gs) \in Nat /\ DOMAIN gs = 1 .. Len(gs) /\ \A j \in 1 .. Len(gs) : gs[j] \in G
  BY SeqParts
<1>2. ASSUME NEW j \in 1 .. Len(gs)
      PROVE  /\ hs[j] \in G
             /\ hs[j].name = gs[j].name /\ hs[j].weight = gs[j].weight
             /\ Len(hs[j].pages) = Len(gs[j].pages)
             /\ ToSet(hs[j].pages) = ToSet(gs[j].pages)
             /\ InOrder(hs[j].pages)
  <2> DEFINE g == gs[j]
             X == PagesIn(P, c, g.name)
             n == g.name
             u == g.weight
             ps == g.pages
             qs == ByWeight(ps)
  <2>1. g = [name |-> n, weight |-> u, pages |-> ps] /\ n \in GroupNames /\ u \in Int /\ ps \in Seq(X)
    BY <1>1, GroupParts
  <2>2. hs[j] = [g EXCEPT !.pages = qs]
    BY <1>1 DEF SortPages
  <2> HIDE DEF g, n, u, ps, hs
  <2>3. \A y \in X : y.weight \in Int
    BY DEF PagesIn
  <2> HIDE DEF X
  <2>4. qs \in Seq(X) /\ Len(qs) = Len(ps) /\ InOrder(qs) /\ ToSet(qs) = ToSet(ps)
    BY <2>1, <2>3, ByWeightSorts
  <2> HIDE DEF qs
  <2>5. hs[j] = [name |-> n, weight |-> u, pages |-> qs]
    <3>1. \A a, b, p, q : [[name |-> a, weight |-> b, pages |-> p] EXCEPT !.pages = q]
                            = [name |-> a, weight |-> b, pages |-> q]
      OBVIOUS
    <3> QED BY <2>1, <2>2, <3>1
  <2>6. hs[j] \in G
    BY <2>1, <2>4, <2>5, GroupIs DEF X, n
  <2>7. hs[j].name = n /\ hs[j].weight = u /\ hs[j].pages = qs
    BY <2>5
  <2> QED BY <2>4, <2>6, <2>7 DEF g, n, u, ps
<1>3. hs \in [1 .. Len(gs) -> G]
  <2>1. DOMAIN hs = 1 .. Len(gs) /\ hs = [j \in 1 .. Len(gs) |-> hs[j]]
    BY <1>1 DEF SortPages
  <2> HIDE DEF hs, G
  <2> QED BY <1>2, <2>1
<1> HIDE DEF hs, G
<1>4. hs \in Seq(G) /\ Len(hs) = Len(gs)
  BY <1>1, <1>3, MapSeq
<1> QED BY <1>2, <1>4 DEF hs, G

LEMMA TotalSortPages ==
  ASSUME NEW P, \A p \in P : p.weight \in Int, NEW c, NEW gs \in Seq(Groups(P, c))
  PROVE  Total(SortPages(gs), GroupSize(P, c)) = Total(gs, GroupSize(P, c))
<1> DEFINE hs == SortPages(gs)
           w == GroupSize(P, c)
<1>1. hs \in Seq(Groups(P, c)) /\ Len(hs) = Len(gs) /\ \A j \in 1 .. Len(gs) : Len(hs[j].pages) = Len(gs[j].pages)
  BY PagesSorted
<1>2. /\ \A j \in 1 .. Len(gs) : hs[j] \in Groups(P, c)
      /\ \A j \in 1 .. Len(gs) : gs[j] \in Groups(P, c)
  BY <1>1, SeqParts
<1> HIDE DEF hs
<1>3. \A j \in 1 .. Len(gs) : w[hs[j]] = w[gs[j]]
  BY <1>1, <1>2 DEF GroupSize
<1> HIDE DEF w
<1>4. [j \in 1 .. Len(hs) |-> w[hs[j]]] = [j \in 1 .. Len(gs) |-> w[gs[j]]]
  BY <1>1, <1>3
<1>5. Total(hs, w) = Total(gs, w)
  BY <1>1, <1>4 DEF Total
<1> QED BY <1>5 DEF hs, w

\* The groups of a category, with the same pages in another order.
WithGroups(cat, gs) == [cat EXCEPT !.groups = gs]

Regroups(P, cat, hs) ==
  /\ cat \in Cats(P) /\ hs \in Seq(Groups(P, cat.name))
  /\ Total(hs, GroupSize(P, cat.name)) = Total(cat.groups, GroupSize(P, cat.name))

LEMMA Regrouped ==
  ASSUME NEW P, NEW cat, NEW hs, Regroups(P, cat, hs), NEW d, d = WithGroups(cat, hs)
  PROVE  d \in Cats(P) /\ d.name = cat.name /\ d.groups = hs /\ CatCount(d) = CatCount(cat)
<1> USE DEF Regroups, WithGroups
<1> DEFINE n == cat.name
           gs == cat.groups
<1>1. cat = [name |-> n, groups |-> gs] /\ n \in CatNames
  BY CatParts
<1>2. d = [name |-> n, groups |-> hs]
  <2>1. \A a, b, c : [[name |-> a, groups |-> b] EXCEPT !.groups = c] = [name |-> a, groups |-> c]
    OBVIOUS
  <2> HIDE DEF n, gs
  <2> QED BY <1>1, <2>1
<1>3. d \in Cats(P)
  BY <1>1, <1>2, CatIs
<1>4. d.name = cat.name /\ d.groups = hs
  BY <1>2
<1>5. CatCount(d) = CatCount(cat)
  BY <1>3, <1>4, CatCounts
<1> QED BY <1>3, <1>4, <1>5

\* The sort of Parse.
LEMMA ParseSorted ==
  ASSUME NEW P, \A p \in P : p.weight \in Int, NEW cat \in Cats(P),
         NEW d, d = WithGroups(cat, SortPages(cat.groups))
  PROVE  d \in Cats(P) /\ CatCount(d) = CatCount(cat)
<1> DEFINE gs == cat.groups
           hs == SortPages(gs)
<1>1. gs \in Seq(Groups(P, cat.name))
  BY CatParts
<1>2. hs \in Seq(Groups(P, cat.name))
  BY <1>1, PagesSorted
<1>3. Total(hs, GroupSize(P, cat.name)) = Total(gs, GroupSize(P, cat.name))
  BY <1>1, TotalSortPages
<1> HIDE DEF hs
<1>4. d = WithGroups(cat, hs)
  BY DEF hs
<1>5. Regroups(P, cat, hs)
  BY <1>2, <1>3 DEF Regroups
<1> QED BY <1>4, <1>5, Regrouped

\* The sorts of GetAll.
LEMMA GroupsSorted ==
  ASSUME NEW P, \A p \in P : p.weight \in Int, NEW cat \in Cats(P),
         NEW d, d = WithGroups(cat, SortPages(ByWeight(cat.groups)))
  PROVE  /\ d \in Cats(P) /\ d.name = cat.name
         /\ CatCount(d) = CatCount(cat) /\ CatPages(d) = CatPages(cat)
         /\ InOrder(d.groups) /\ \A j \in 1 .. Len(d.groups) : InOrder(d.groups[j].pages)
<1> DEFINE n == cat.name
           X == Groups(P, n)
           w == GroupSize(P, n)
           gs == cat.groups
           bs == ByWeight(gs)
           hs == SortPages(bs)
<1>1. gs \in Seq(X) /\ \A g \in X : g.weight \in Int
  BY CatParts, GroupParts
<1>2. bs \in Seq(X) /\ Len(bs) = Len(gs) /\ InOrder(bs) /\ ToSet(bs) = ToSet(gs)
  <2> HIDE DEF X, gs
  <2> QED BY <1>1, ByWeightSorts
<1>3. Total(bs, w) = Total(gs, w)
  <2>1. Weighs(w, X)
    BY CatCounts
  <2> HIDE DEF X, gs, w
  <2> QED BY <1>1, <2>1, TotalByWeight
<1> HIDE DEF bs
<1>4. /\ hs \in Seq(X) /\ Len(hs) = Len(bs)
      /\ \A j \in 1 .. Len(bs) : /\ hs[j].weight = bs[j].weight
                                 /\ ToSet(hs[j].pages) = ToSet(bs[j].pages) /\ InOrder(hs[j].pages)
  <2>1. /\ SortPages(bs) \in Seq(Groups(P, n)) /\ Len(SortPages(bs)) = Len(bs)
        /\ \A j \in 1 .. Len(bs) :
             /\ SortPages(bs)[j].name = bs[j].name /\ SortPages(bs)[j].weight = bs[j].weight
             /\ Len(SortPages(bs)[j].pages) = Len(bs[j].pages)
             /\ ToSet(SortPages(bs)[j].pages) = ToSet(bs[j].pages)
             /\ InOrder(SortPages(bs)[j].pages)
    BY <1>2, PagesSorted
  <2> HIDE DEF X, n
  <2> QED BY <2>1 DEF X
<1>5. Total(hs, w) = Total(bs, w)
  BY <1>2, TotalSortPages
<1> HIDE DEF hs
<1>6. d = WithGroups(cat, hs)
  BY DEF hs, bs
<1>7. d \in Cats(P) /\ d.name = n /\ d.groups = hs /\ CatCount(d) = CatCount(cat)
  <2>1. hs \in Seq(Groups(P, cat.name)) /\ Total(hs, GroupSize(P, cat.name)) = Total(cat.groups, GroupSize(P, cat.name))
    BY <1>3, <1>4, <1>5
  <2>2. Regroups(P, cat, hs)
    BY <2>1 DEF Regroups
  <2> HIDE DEF X, w, gs, n
  <2>3. d \in Cats(P) /\ d.name = cat.name /\ d.groups = hs /\ CatCount(d) = CatCount(cat)
    BY <1>6, <2>2, Regrouped
  <2> QED BY <2>3 DEF n
<1>8. InOrder(hs)
  BY <1>2, <1>4 DEF InOrder
<1>9. CatPages(d) = CatPages(cat)
  <2>1. DOMAIN hs = 1 .. Len(bs) /\ DOMAIN bs = 1 .. Len(bs) /\ DOMAIN gs = 1 .. Len(gs)
    BY <1>1, <1>2, <1>4, SeqParts
  <2>2. CatPages(d) = UNION {ToSet(g.pages) : g \in ToSet(bs)}
    <3>1. CatPages(d) = UNION {ToSet(hs[j].pages) : j \in 1 .. Len(bs)}
      BY <1>7, <2>1 DEF CatPages
    <3>2. CatPages(d) = UNION {ToSet(bs[j].pages) : j \in 1 .. Len(bs)}
      BY <1>4, <3>1
    <3>3. ToSet(bs) = {bs[j] : j \in 1 .. Len(bs)}
      BY <2>1 DEF ToSet
    <3> QED BY <3>2, <3>3
  <2>3. CatPages(cat) = UNION {ToSet(g.pages) : g \in ToSet(gs)}
    <3>1. ToSet(gs) = {gs[j] : j \in 1 .. Len(gs)}
      BY <2>1 DEF ToSet
    <3> QED BY <2>1, <3>1 DEF CatPages
  <2> QED BY <1>2, <2>2, <2>3
<1> QED BY <1>4, <1>7, <1>8, <1>9

\* The loop of Parse, and its sort.
LEMMA AllParsed ==
  ASSUME NEW files \in Seq(Files)
  PROVE  Parse(files) \in Seq(Cats(Originals)) /\ Count(Parse(files)) = Len(files)
<1> DEFINE C == Cats(Originals)
           n == Len(files)
           Rec(f) == f = [i \in 0 .. n |-> IF i = 0 THEN <<>> ELSE AddPage(f[i - 1], files[i])]
           f == CHOOSE f : Rec(f)
           cats == f[n]
           sorted == [i \in DOMAIN cats |-> [cats[i] EXCEPT !.groups = SortPages(@)]]
<1>1. n \in Nat /\ \A i \in 1 .. n : files[i] \in Files
  BY SeqParts
<1>2. \E g : Rec(g)
  <2> DEFINE F == [p \in Seq(C) \X (1 .. n) |-> AddPage(p[1], files[p[2]])]
  <2>1. F \in [Seq(C) \X (1 .. n) -> Seq(C)]
    <3>1. \A p \in Seq(C) \X (1 .. n) : AddPage(p[1], files[p[2]]) \in Seq(C)
      BY <1>1, PageAdded
    <3> QED BY <3>1
  <2>2. <<>> \in Seq(C)
    BY EmptySeq
  <2>3. \A t \in Seq(C), i \in 1 .. n : F[<<t, i>>] = AddPage(t, files[i])
    OBVIOUS
  <2> HIDE DEF F, n, C
  <2>4. PICK g : Follows(g, <<>>, F, Seq(C), n)
    <3>1. Steps(F, Seq(C), n)
      BY <2>1 DEF Steps
    <3> QED BY <1>1, <2>2, <3>1, Recursion
  <2>5. \A i \in 0 .. n : g[i] = IF i = 0 THEN <<>> ELSE AddPage(g[i - 1], files[i])
    <3>1. ASSUME NEW i \in 1 .. n PROVE g[i] = AddPage(g[i - 1], files[i])
      <4>1. g[i - 1] \in Seq(C)
        <5>1. i - 1 \in 0 .. n
          BY <1>1
        <5> QED BY <2>4, <5>1 DEF Follows
      <4> QED BY <2>3, <2>4, <4>1 DEF Follows
    <3> QED BY <1>1, <2>4, <3>1 DEF Follows
  <2>6. Rec(g)
    BY <2>4, <2>5 DEF Follows
  <2> QED BY <2>6
<1>3. Rec(f)
  BY <1>2
<1>4. Parse(files) = sorted
  BY DEF Parse
<1> HIDE DEF f
<1>5. f[0] = <<>> /\ \A i \in 1 .. n : f[i] = AddPage(f[i - 1], files[i])
  BY <1>1, <1>3
<1> HIDE DEF n, C
<1> DEFINE T == {i \in Nat : i <= n => f[i] \in Seq(C) /\ Count(f[i]) = i}
<1>6. 0 \in T
  <2> DEFINE z == [i \in 1 .. 0 |-> CatCount(<<>>[i])]
  <2>1. Count(<<>>) = Sum(z, 0)
    BY DEF Count
  <2> HIDE DEF z
  <2>2. Count(<<>>) = 0 /\ <<>> \in Seq(C)
    BY <2>1, SumOfNone, EmptySeq
  <2> QED BY <1>5, <2>2
<1>7. ASSUME NEW i \in Nat, i \in T PROVE i + 1 \in T
  <2> SUFFICES ASSUME i + 1 <= n PROVE f[i + 1] \in Seq(C) /\ Count(f[i + 1]) = i + 1
    OBVIOUS
  <2>1. i + 1 \in 1 .. n /\ (i + 1) - 1 = i /\ f[i] \in Seq(C) /\ Count(f[i]) = i
    BY <1>1, <1>7
  <2>2. f[i + 1] = AddPage(f[i], files[i + 1]) /\ files[i + 1] \in Files
    BY <1>1, <1>5, <2>1
  <2>3. AddPage(f[i], files[i + 1]) \in Seq(C) /\ Count(AddPage(f[i], files[i + 1])) = Count(f[i]) + 1
    BY <2>1, <2>2, PageAdded DEF C
  <2> QED BY <2>1, <2>2, <2>3
<1> HIDE DEF T
<1>8. n \in T
  BY <1>1, <1>6, <1>7, Induction
<1>9. cats \in Seq(C) /\ Count(cats) = n
  BY <1>1, <1>8 DEF T
<1> HIDE DEF cats
<1>10. Len(cats) \in Nat /\ DOMAIN cats = 1 .. Len(cats) /\ \A i \in 1 .. Len(cats) : cats[i] \in C
  BY <1>9, SeqParts
<1>11. \A i \in 1 .. Len(cats) : sorted[i] \in C /\ CatCount(sorted[i]) = CatCount(cats[i])
  <2> SUFFICES ASSUME NEW i \in 1 .. Len(cats)
               PROVE  sorted[i] \in C /\ CatCount(sorted[i]) = CatCount(cats[i])
    OBVIOUS
  <2> DEFINE c == cats[i]
             d == sorted[i]
  <2>1. d = WithGroups(c, SortPages(c.groups))
    BY <1>10 DEF WithGroups
  <2>2. c \in Cats(Originals) /\ \A p \in Originals : p.weight \in Int
    BY <1>10, PagesAre DEF C
  <2> HIDE DEF c, d
  <2>3. d \in Cats(Originals) /\ CatCount(d) = CatCount(c)
    BY <2>1, <2>2, ParseSorted
  <2> QED BY <2>3 DEF c, d, C
<1>12. sorted \in [1 .. Len(cats) -> C]
  BY <1>10, <1>11
<1> HIDE DEF sorted
<1>13. sorted \in Seq(C) /\ Len(sorted) = Len(cats)
  BY <1>10, <1>12, MapSeq
<1>14. Count(sorted) = Count(cats)
  BY <1>9, <1>11, <1>13, CountSame DEF C
<1> QED BY <1>4, <1>9, <1>13, <1>14 DEF n, C

(***************************************************************************)
(* Every file of a release finds a place among the categories.             *)
(***************************************************************************)
THEOREM PagesKept == ParseKeepsPages
<1> SUFFICES ASSUME NEW v \in Versions PROVE Len(Listed(ParsedOf[v])) = Len(PagesOf[v])
  BY DEF ParseKeepsPages
<1>1. PagesOf[v] \in Seq(Files)
  BY DocsAssumption
<1>2. ParsedOf[v] = Parse(PagesOf[v])
  BY DEF ParsedOf
<1>3. ParsedOf[v] \in Seq(Cats(Originals)) /\ Count(ParsedOf[v]) = Len(PagesOf[v])
  BY <1>1, <1>2, AllParsed
<1>4. Len(Listed(ParsedOf[v])) = Count(ParsedOf[v])
  BY <1>3, ListedAre
<1> QED BY <1>3, <1>4

(***************************************************************************)
(* What is stored of a name is one release of it, whole, while releases,   *)
(* registrations, failing servers, requests and the end of the process     *)
(* come at any time.                                                       *)
(***************************************************************************)
THEOREM StoredIsOneRelease == Spec => []OneRelease
<1>1. StoreInv => OneRelease
  <2> SUFFICES ASSUME StoreInv, NEW n \in Stored
               PROVE  \E v \in Versions : /\ docs[n] = ParsedOf[v]
                                          /\ Len(Listed(docs[n])) = Len(PagesOf[v])
    BY DEF OneRelease
  <2>1. PICK v \in Versions : docs[n] = ParsedOf[v]
    BY DocsAssumption DEF Stored, StoreInv, Names
  <2> QED BY <2>1, PagesKept DEF ParseKeepsPages
<1> QED BY <1>1, StoreInvariant, PTL

\* What GetAll takes of a category.
LEMMA CategoryCopied ==
  ASSUME NEW c \in Cats(Originals)
  PROVE  /\ CopyCategory(c) \in Cats(Copies) /\ CopyCategory(c).name = c.name
         /\ CatCount(CopyCategory(c)) = CatCount(c)
         /\ CatPages(CopyCategory(c)) = {Copied(p) : p \in CatPages(c)}
<1> DEFINE d == CopyCategory(c)
           gs == c.groups
           hs == d.groups
           n == c.name
           m == Len(gs)
<1>1. n \in CatNames /\ gs \in Seq(Groups(Originals, n))
  BY CatParts
<1>2. m \in Nat /\ DOMAIN gs = 1 .. m /\ \A j \in 1 .. m : gs[j] \in Groups(Originals, n)
  BY <1>1, SeqParts
<1>3. /\ d = [name |-> n, groups |-> hs]
      /\ hs = [j \in 1 .. m |-> [name |-> gs[j].name, weight |-> gs[j].weight,
                pages |-> [k \in DOMAIN gs[j].pages |-> Copied(gs[j].pages[k])]]]
  BY <1>2 DEF CopyCategory, Copied
<1>4. d.name = n
  BY <1>3
<1> HIDE DEF d, gs, hs, n, m
<1>5. ASSUME NEW j \in 1 .. m
      PROVE  /\ hs[j] \in Groups(Copies, n) /\ Len(hs[j].pages) = Len(gs[j].pages)
             /\ ToSet(hs[j].pages) = {Copied(p) : p \in ToSet(gs[j].pages)}
  <2> DEFINE g == gs[j].name
             u == gs[j].weight
             ps == gs[j].pages
             qs == [k \in DOMAIN ps |-> Copied(ps[k])]
             X == PagesIn(Originals, n, g)
             Y == PagesIn(Copies, n, g)
             l == Len(ps)
  <2>1. g \in GroupNames /\ u \in Int /\ ps \in Seq(X)
    BY <1>2, GroupParts
  <2>2. hs[j] = [name |-> g, weight |-> u, pages |-> qs]
    BY <1>3
  <2>3. \A p \in X : Copied(p) \in Y
    BY PagesAre DEF PagesIn, Copies
  <2> HIDE DEF g, u, ps, X, Y
  <2>4. l \in Nat /\ DOMAIN ps = 1 .. l /\ \A k \in 1 .. l : ps[k] \in X
    BY <2>1, SeqParts
  <2> HIDE DEF l
  <2>5. qs \in [1 .. l -> Y]
    BY <2>3, <2>4
  <2>6. ToSet(qs) = {Copied(p) : p \in ToSet(ps)}
    BY <2>4 DEF ToSet
  <2> HIDE DEF qs
  <2>7. qs \in Seq(Y) /\ Len(qs) = l
    BY <2>4, <2>5, MapSeq
  <2>8. hs[j] \in Groups(Copies, n) /\ hs[j].pages = qs
    BY <2>1, <2>2, <2>7, GroupIs DEF Y
  <2> QED BY <2>6, <2>7, <2>8 DEF l, ps
<1>6. hs \in [1 .. m -> Groups(Copies, n)]
  BY <1>3, <1>5
<1>7. hs \in Seq(Groups(Copies, n)) /\ Len(hs) = m
  BY <1>2, <1>6, MapSeq
<1>8. d \in Cats(Copies)
  BY <1>1, <1>3, <1>7, CatIs
<1>9. CatCount(d) = CatCount(c)
  <2>1. [j \in 1 .. m |-> Len(hs[j].pages)] = [j \in 1 .. m |-> Len(gs[j].pages)]
    BY <1>5
  <2>2. CatCount(d) = Sum([j \in 1 .. m |-> Len(hs[j].pages)], m)
    BY <1>7 DEF CatCount, hs
  <2>3. CatCount(c) = Sum([j \in 1 .. m |-> Len(gs[j].pages)], m)
    BY DEF CatCount, gs, m
  <2> QED BY <2>1, <2>2, <2>3
<1>10. CatPages(d) = {Copied(p) : p \in CatPages(c)}
  <2>1. CatPages(d) = UNION {ToSet(hs[j].pages) : j \in 1 .. m}
    BY <1>6 DEF CatPages, hs
  <2>2. CatPages(c) = UNION {ToSet(gs[j].pages) : j \in 1 .. m}
    BY <1>2 DEF CatPages, gs
  <2>3. ASSUME NEW x \in CatPages(d)
        PROVE  \E p \in CatPages(c) : x = Copied(p)
    <3>1. PICK j \in 1 .. m : x \in ToSet(hs[j].pages)
      BY <2>1
    <3>2. PICK p \in ToSet(gs[j].pages) : x = Copied(p)
      BY <1>5, <3>1
    <3> QED BY <2>2, <3>2
  <2>4. ASSUME NEW p \in CatPages(c)
        PROVE  Copied(p) \in CatPages(d)
    <3>1. PICK j \in 1 .. m : p \in ToSet(gs[j].pages)
      BY <2>2
    <3>2. Copied(p) \in ToSet(hs[j].pages)
      BY <1>5, <3>1
    <3> QED BY <2>1, <3>2
  <2> QED BY <2>3, <2>4
<1> QED BY <1>4, <1>8, <1>9, <1>10 DEF d, n

-----------------------------------------------------------------------------
(* The categories of one name become one. *)

Distinct(cats) == \A i, j \in 1 .. Len(cats) : cats[i].name = cats[j].name => i = j

\* A category goes into the one of its name, or to the end.
LEMMA MergedOne ==
  ASSUME NEW P, NEW cats \in Seq(Cats(P)), NEW c \in Cats(P), Distinct(cats)
  PROVE  /\ Merge(cats, c) \in Seq(Cats(P)) /\ Distinct(Merge(cats, c))
         /\ Count(Merge(cats, c)) = Count(cats) + CatCount(c)
         /\ AllPages(Merge(cats, c)) = AllPages(cats) \cup CatPages(c)
<1> DEFINE i == Find(cats, c.name)
           C == Cats(P)
           w == CatSize(P)
           r == Merge(cats, c)
<1>1. Len(cats) \in Nat /\ DOMAIN cats = 1 .. Len(cats) /\ \A k \in 1 .. Len(cats) : cats[k] \in C
  BY SeqParts
<1>2. Weighs(w, C) /\ \A ds \in Seq(C) : Count(ds) = Total(ds, w)
  BY Counts
<1>3. w[c] = CatCount(c) /\ \A k \in 1 .. Len(cats) : w[cats[k]] = CatCount(cats[k])
  BY <1>1 DEF CatSize
<1> HIDE DEF w
<1>4. CASE i = 0
  <2>1. r = Append(cats, c) /\ \A k \in 1 .. Len(cats) : cats[k].name # c.name
    BY <1>1, <1>4, Found DEF Merge
  <2> HIDE DEF r, C
  <2>2. /\ r \in Seq(C) /\ Len(r) = Len(cats) + 1 /\ r[Len(cats) + 1] = c
        /\ \A k \in 1 .. Len(cats) : r[k] = cats[k]
    BY <2>1, AppendProperties DEF C
  <2>3. Distinct(r)
    BY <1>1, <2>1, <2>2 DEF Distinct
  <2>4. Count(r) = Count(cats) + CatCount(c)
    <3>1. Total(r, w) = Total(cats, w) + w[c]
      BY <1>2, <2>1, TotalAppend DEF C
    <3> QED BY <1>2, <1>3, <2>2, <3>1 DEF C
  <2>5. AllPages(r) = AllPages(cats) \cup CatPages(c)
    <3>1. DOMAIN r = 1 .. Len(cats) + 1 /\ 1 .. Len(cats) + 1 = (1 .. Len(cats)) \cup {Len(cats) + 1}
      BY <1>1, <2>2, SeqParts
    <3> QED BY <1>1, <2>2, <3>1 DEF AllPages
  <2> QED BY <2>2, <2>3, <2>4, <2>5 DEF r, C
<1>5. CASE i # 0
  <2> DEFINE old == cats[i]
             gs == old.groups
             cs == c.groups
             hs == gs \o cs
             n == c.name
             X == Groups(P, n)
             new == WithGroups(old, hs)
             v == GroupSize(P, n)
  <2>1. i \in 1 .. Len(cats) /\ old.name = n /\ old \in C
    BY <1>1, <1>5, Found
  <2>2. r = [cats EXCEPT ![i] = new]
    BY <1>5 DEF Merge, WithGroups
  <2>3. gs \in Seq(X) /\ cs \in Seq(X) /\ n \in CatNames /\ old = [name |-> n, groups |-> gs]
    BY <2>1, CatParts
  <2>4. hs \in Seq(X) /\ Total(hs, v) = Total(gs, v) + Total(cs, v)
    <3>1. Weighs(v, X)
      BY CatCounts
    <3> HIDE DEF gs, cs, X, v
    <3> QED BY <2>3, <3>1, ConcatProperties, TotalConcat
  <2>5. new = [name |-> n, groups |-> hs]
    <3>1. \A a, b, d : [[name |-> a, groups |-> b] EXCEPT !.groups = d] = [name |-> a, groups |-> d]
      OBVIOUS
    <3> HIDE DEF n, gs, hs, old
    <3> QED BY <2>3, <3>1 DEF WithGroups
  <2>6. new \in C /\ new.name = n /\ new.groups = hs
    <3> HIDE DEF new, hs
    <3> QED BY <2>3, <2>4, <2>5, CatIs
  <2>7. CatCount(new) = CatCount(old) + CatCount(c)
    <3>1. CatCount(old) = Total(gs, v)
      BY <2>1, CatCounts
    <3>2. CatCount(c) = Total(cs, v)
      BY CatCounts
    <3>3. CatCount(new) = Total(hs, v)
      <4> HIDE DEF new, hs
      <4> QED BY <2>6, CatCounts
    <3> QED BY <2>4, <3>1, <3>2, <3>3
  <2>8. CatPages(new) = CatPages(old) \cup CatPages(c)
    <3>1. /\ Len(gs) \in Nat /\ DOMAIN gs = 1 .. Len(gs) /\ Len(cs) \in Nat /\ DOMAIN cs = 1 .. Len(cs)
          /\ DOMAIN hs = 1 .. Len(hs) /\ Len(hs) = Len(gs) + Len(cs)
          /\ \A j \in 1 .. Len(gs) + Len(cs) : hs[j] = IF j <= Len(gs) THEN gs[j] ELSE cs[j - Len(gs)]
      BY <2>3, <2>4, SeqParts, ConcatProperties
    <3> DEFINE A == UNION {ToSet(hs[j].pages) : j \in 1 .. Len(gs) + Len(cs)}
               B == UNION {ToSet(gs[j].pages) : j \in 1 .. Len(gs)}
               D == UNION {ToSet(cs[j].pages) : j \in 1 .. Len(cs)}
    <3>2. CatPages(new) = A
      BY <2>6, <3>1 DEF CatPages
    <3> HIDE DEF gs, cs, hs, new, old
    <3>3. CatPages(old) = B
      BY <3>1 DEF CatPages, gs
    <3>4. CatPages(c) = D
      BY <3>1 DEF CatPages, cs
    <3>5. \A x \in A : x \in B \/ x \in D
      <4>1. ASSUME NEW j \in 1 .. Len(gs) + Len(cs), NEW x \in ToSet(hs[j].pages)
            PROVE  x \in B \/ x \in D
        <5>1. CASE j <= Len(gs)
          BY <3>1, <4>1, <5>1
        <5>2. CASE ~(j <= Len(gs))
          <6>1. j - Len(gs) \in 1 .. Len(cs)
            BY <3>1, <5>2
          <6> QED BY <3>1, <4>1, <5>2, <6>1
        <5> QED BY <5>1, <5>2
      <4> QED BY <4>1
    <3>6. \A x \in B : x \in A
      <4>1. \A j \in 1 .. Len(gs) : j \in 1 .. Len(gs) + Len(cs) /\ hs[j] = gs[j]
        BY <3>1
      <4> QED BY <4>1
    <3>7. \A x \in D : x \in A
      <4>1. \A j \in 1 .. Len(cs) : Len(gs) + j \in 1 .. Len(gs) + Len(cs) /\ hs[Len(gs) + j] = cs[j]
        <5>1. \A j \in 1 .. Len(cs) : /\ Len(gs) + j \in 1 .. Len(gs) + Len(cs)
                                      /\ ~(Len(gs) + j <= Len(gs)) /\ (Len(gs) + j) - Len(gs) = j
          BY <3>1
        <5> QED BY <3>1, <5>1
      <4> QED BY <4>1
    <3> HIDE DEF A, B, D
    <3> QED BY <3>2, <3>3, <3>4, <3>5, <3>6, <3>7
  <2> HIDE DEF r, new, old, gs, cs, hs
  <2>9. /\ r \in Seq(C) /\ Len(r) = Len(cats)
        /\ \A k \in 1 .. Len(cats) : r[k] = IF k = i THEN new ELSE cats[k]
    <3> HIDE DEF C, i
    <3> QED BY <2>1, <2>2, <2>6, ExceptSeq DEF C
  <2>10. Distinct(r)
    BY <2>1, <2>6, <2>9 DEF Distinct, old
  <2>11. Count(r) = Count(cats) + CatCount(c)
    <3>1. w[new] = w[cats[i]] + CatCount(c)
      BY <1>3, <2>1, <2>6, <2>7 DEF CatSize, w, old
    <3>2. CatCount(c) \in Nat
      BY CatCounts
    <3> DEFINE d == CatCount(c)
    <3> HIDE DEF C, i, d
    <3>3. Total([cats EXCEPT ![i] = new], w) = Total(cats, w) + d
      BY <1>2, <2>1, <2>6, <3>1, <3>2, TotalChanged DEF C, d
    <3> QED BY <1>2, <2>2, <2>9, <3>3 DEF C, d
  <2>12. AllPages(r) = AllPages(cats) \cup CatPages(c)
    <3>1. DOMAIN r = 1 .. Len(cats)
      BY <2>9, SeqParts
    <3>2. AllPages(r) = UNION {CatPages(r[k]) : k \in 1 .. Len(cats)}
      BY <3>1 DEF AllPages
    <3>3. AllPages(cats) = UNION {CatPages(cats[k]) : k \in 1 .. Len(cats)}
      BY <1>1 DEF AllPages
    <3>4. /\ CatPages(r[i]) = CatPages(cats[i]) \cup CatPages(c)
          /\ \A k \in 1 .. Len(cats) : k # i => CatPages(r[k]) = CatPages(cats[k])
      BY <2>1, <2>8, <2>9 DEF old
    <3> HIDE DEF i, C
    <3> QED BY <2>1, <3>2, <3>3, <3>4
  <2> QED BY <2>9, <2>10, <2>11, <2>12 DEF r, C
<1> QED BY <1>4, <1>5

LEMMA NothingIn ==
  ASSUME NEW P
  PROVE  /\ <<>> \in Seq(Cats(P)) /\ Distinct(<<>>) /\ Count(<<>>) = 0 /\ AllPages(<<>>) = {}
<1> DEFINE z == [i \in 1 .. 0 |-> CatCount(<<>>[i])]
<1>1. Count(<<>>) = Sum(z, 0)
  BY DEF Count
<1> HIDE DEF z
<1>2. Count(<<>>) = 0
  BY <1>1, SumOfNone
<1>3. <<>> \in Seq(Cats(P)) /\ Distinct(<<>>) /\ AllPages(<<>>) = {}
  BY EmptySeq DEF Distinct, AllPages
<1> QED BY <1>2, <1>3

\* The categories of one name have become one, and no page is lost.
LEMMA AllMerged ==
  ASSUME NEW P, NEW cats \in Seq(Cats(P))
  PROVE  /\ Merged(cats) \in Seq(Cats(P)) /\ Distinct(Merged(cats))
         /\ Count(Merged(cats)) = Count(cats) /\ AllPages(Merged(cats)) = AllPages(cats)
<1> DEFINE C == Cats(P)
           S == {cs \in Seq(C) : Distinct(cs)}
           n == Len(cats)
           w == CatSize(P)
           Rec(f) == f = [i \in 0 .. n |-> IF i = 0 THEN <<>> ELSE Merge(f[i - 1], cats[i])]
           f == CHOOSE f : Rec(f)
           h == [i \in 1 .. n |-> CatCount(cats[i])]
<1>1. n \in Nat /\ DOMAIN cats = 1 .. n /\ \A i \in 1 .. n : cats[i] \in C
  BY SeqParts
<1>2. \E g : Rec(g)
  <2> DEFINE F == [p \in S \X (1 .. n) |-> Merge(p[1], cats[p[2]])]
  <2>1. F \in [S \X (1 .. n) -> S]
    <3>1. \A p \in S \X (1 .. n) : Merge(p[1], cats[p[2]]) \in S
      BY <1>1, MergedOne
    <3> QED BY <3>1
  <2>2. <<>> \in S
    BY NothingIn
  <2>3. \A t \in S, i \in 1 .. n : F[<<t, i>>] = Merge(t, cats[i])
    OBVIOUS
  <2> HIDE DEF F, n, S
  <2>4. PICK g : Follows(g, <<>>, F, S, n)
    <3>1. Steps(F, S, n)
      BY <2>1 DEF Steps
    <3> QED BY <1>1, <2>2, <3>1, Recursion
  <2>5. \A i \in 0 .. n : g[i] = IF i = 0 THEN <<>> ELSE Merge(g[i - 1], cats[i])
    <3>1. ASSUME NEW i \in 1 .. n PROVE g[i] = Merge(g[i - 1], cats[i])
      <4>1. g[i - 1] \in S
        <5>1. i - 1 \in 0 .. n
          BY <1>1
        <5> QED BY <2>4, <5>1 DEF Follows
      <4> QED BY <2>3, <2>4, <4>1 DEF Follows
    <3> QED BY <1>1, <2>4, <3>1 DEF Follows
  <2>6. Rec(g)
    BY <2>4, <2>5 DEF Follows
  <2> QED BY <2>6
<1>3. Rec(f)
  BY <1>2
<1>4. Merged(cats) = f[n]
  BY DEF Merged
<1> HIDE DEF f
<1>5. f[0] = <<>> /\ \A i \in 1 .. n : f[i] = Merge(f[i - 1], cats[i])
  BY <1>1, <1>3
<1>6. \A i \in 1 .. n : h[i] = CatCount(cats[i]) /\ h[i] \in Nat
  BY <1>1, CatCounts
<1>7. Count(cats) = Sum(h, n)
  BY DEF Count
<1> HIDE DEF n, h
<1>8. PICK g \in [0 .. n -> Nat] : Sums(g, h, n) /\ Sum(h, n) = g[n]
  BY <1>1, <1>6, SumsAre
<1> DEFINE Fine(i) == /\ f[i] \in Seq(C) /\ Distinct(f[i]) /\ Count(f[i]) = g[i]
                      /\ AllPages(f[i]) = UNION {CatPages(cats[k]) : k \in 1 .. i}
           T == {i \in Nat : i <= n => Fine(i)}
<1>9. 0 \in T
  <2>1. f[0] \in Seq(C) /\ Distinct(f[0]) /\ Count(f[0]) = 0 /\ AllPages(f[0]) = {}
    BY <1>5, NothingIn
  <2>2. g[0] = 0
    BY <1>8 DEF Sums
  <2>3. UNION {CatPages(cats[k]) : k \in 1 .. 0} = {}
    OBVIOUS
  <2> QED BY <2>1, <2>2, <2>3
<1>10. ASSUME NEW i \in Nat, i \in T PROVE i + 1 \in T
  <2> SUFFICES ASSUME i + 1 <= n PROVE Fine(i + 1)
    OBVIOUS
  <2>1. i + 1 \in 1 .. n /\ (i + 1) - 1 = i /\ Fine(i)
    BY <1>1, <1>10
  <2> DEFINE a == f[i]
             c == cats[i + 1]
             r == Merge(a, c)
  <2>2. f[i + 1] = r /\ a \in Seq(C) /\ c \in C /\ Distinct(a)
    BY <1>1, <1>5, <2>1
  <2>3. r \in Seq(C) /\ Distinct(r) /\ Count(r) = Count(a) + CatCount(c) /\ AllPages(r) = AllPages(a) \cup CatPages(c)
    <3> HIDE DEF a, c, r
    <3> QED BY <2>2, MergedOne DEF r
  <2>4. g[i + 1] = g[i] + h[i + 1] /\ h[i + 1] = CatCount(c)
    BY <1>6, <1>8, <2>1 DEF Sums
  <2>5. 1 .. i + 1 = (1 .. i) \cup {i + 1}
    OBVIOUS
  <2>6. AllPages(r) = UNION {CatPages(cats[k]) : k \in 1 .. i + 1}
    BY <2>1, <2>3, <2>5
  <2>7. Count(r) = g[i + 1]
    BY <2>1, <2>3, <2>4
  <2> HIDE DEF r
  <2> QED BY <2>2, <2>3, <2>6, <2>7
<1> HIDE DEF T
<1>11. n \in T
  BY <1>1, <1>9, <1>10, Induction
<1>12. Fine(n)
  BY <1>1, <1>11 DEF T
<1>13. AllPages(cats) = UNION {CatPages(cats[k]) : k \in 1 .. n}
  BY <1>1 DEF AllPages
<1> QED BY <1>4, <1>7, <1>8, <1>12, <1>13

LEMMA AllSorted ==
  ASSUME NEW P, \A p \in P : p.weight \in Int, NEW cats \in Seq(Cats(P)), Distinct(cats)
  PROVE  /\ Sorted(cats) \in Seq(Cats(P)) /\ Distinct(Sorted(cats)) /\ Weighed(Sorted(cats))
         /\ Count(Sorted(cats)) = Count(cats) /\ AllPages(Sorted(cats)) = AllPages(cats)
<1> DEFINE C == Cats(P)
           r == Sorted(cats)
           n == Len(cats)
<1>1. n \in Nat /\ DOMAIN cats = 1 .. n /\ \A i \in 1 .. n : cats[i] \in C
  BY SeqParts
<1>2. ASSUME NEW i \in 1 .. n
      PROVE  /\ r[i] \in C /\ r[i].name = cats[i].name
             /\ CatCount(r[i]) = CatCount(cats[i]) /\ CatPages(r[i]) = CatPages(cats[i])
             /\ InOrder(r[i].groups) /\ \A j \in 1 .. Len(r[i].groups) : InOrder(r[i].groups[j].pages)
  <2> DEFINE c == cats[i]
             d == r[i]
  <2>1. d = WithGroups(c, SortPages(ByWeight(c.groups)))
    BY <1>1 DEF Sorted, WithGroups
  <2>2. c \in Cats(P)
    BY <1>1
  <2> HIDE DEF c, d
  <2>3. /\ d \in Cats(P) /\ d.name = c.name
        /\ CatCount(d) = CatCount(c) /\ CatPages(d) = CatPages(c)
        /\ InOrder(d.groups) /\ \A j \in 1 .. Len(d.groups) : InOrder(d.groups[j].pages)
    BY <2>1, <2>2, GroupsSorted
  <2> QED BY <2>3 DEF c, d
<1>3. r \in [1 .. n -> C]
  <2>1. r = [i \in 1 .. n |-> r[i]]
    BY <1>1 DEF Sorted
  <2> HIDE DEF r, C, n
  <2> QED BY <1>2, <2>1
<1> HIDE DEF r, n
<1>4. r \in Seq(C) /\ Len(r) = n /\ DOMAIN r = 1 .. n
  BY <1>1, <1>3, MapSeq
<1>5. Distinct(r)
  BY <1>2, <1>4 DEF Distinct, n
<1>6. Weighed(r)
  <2> SUFFICES ASSUME NEW i \in 1 .. n
               PROVE  LET groups == r[i].groups
                      IN  /\ \A j \in 1 .. Len(groups) - 1 : groups[j].weight <= groups[j + 1].weight
                          /\ \A j \in DOMAIN groups : \A k \in 1 .. Len(groups[j].pages) - 1 :
                               groups[j].pages[k].weight <= groups[j].pages[k + 1].weight
    BY <1>4 DEF Weighed
  <2> DEFINE gs == r[i].groups
             X == Groups(P, r[i].name)
  <2>1. gs \in Seq(X)
    BY <1>2, CatParts
  <2>2. Len(gs) \in Nat /\ DOMAIN gs = 1 .. Len(gs) /\ \A j \in 1 .. Len(gs) : gs[j] \in X
    BY <2>1, SeqParts
  <2>3. \A j \in 1 .. Len(gs) : Len(gs[j].pages) \in Nat
    BY <2>2, GroupParts, SeqParts
  <2>4. InOrder(gs) /\ \A j \in 1 .. Len(gs) : InOrder(gs[j].pages)
    BY <1>2
  <2> HIDE DEF gs
  <2>5. \A m \in Nat : \A j \in 1 .. m - 1 : j \in 1 .. m /\ j + 1 \in 1 .. m /\ j <= j + 1
    OBVIOUS
  <2>6. \A j \in 1 .. Len(gs) - 1 : gs[j].weight <= gs[j + 1].weight
    BY <2>2, <2>4, <2>5 DEF InOrder
  <2>7. ASSUME NEW j \in 1 .. Len(gs)
        PROVE  \A k \in 1 .. Len(gs[j].pages) - 1 : gs[j].pages[k].weight <= gs[j].pages[k + 1].weight
    <3> DEFINE ps == gs[j].pages
    <3>1. InOrder(ps) /\ Len(ps) \in Nat
      BY <2>3, <2>4
    <3> HIDE DEF ps
    <3>2. \A k \in 1 .. Len(ps) - 1 : ps[k].weight <= ps[k + 1].weight
      BY <2>5, <3>1 DEF InOrder
    <3> QED BY <3>2 DEF ps
  <2> QED BY <2>2, <2>6, <2>7 DEF gs
<1>7. Count(r) = Count(cats)
  BY <1>2, <1>4, CountSame DEF n
<1>8. AllPages(r) = AllPages(cats)
  BY <1>1, <1>2, <1>4 DEF AllPages
<1> QED BY <1>4, <1>5, <1>6, <1>7, <1>8 DEF r

-----------------------------------------------------------------------------
(* What GetAll takes and makes of the store. *)

\* All the categories of a release, copied.
LEMMA AllCopied ==
  ASSUME NEW cats \in Seq(Cats(Originals)),
         NEW cs, cs = [k \in DOMAIN cats |-> CopyCategory(cats[k])]
  PROVE  /\ cs \in Seq(Cats(Copies)) /\ Count(cs) = Count(cats)
         /\ AllPages(cs) = {Copied(p) : p \in AllPages(cats)}
<1> DEFINE n == Len(cats)
           C == Cats(Copies)
<1>1. n \in Nat /\ DOMAIN cats = 1 .. n /\ \A k \in 1 .. n : cats[k] \in Cats(Originals)
  BY SeqParts
<1>2. \A k \in 1 .. n : /\ cs[k] \in C /\ CatCount(cs[k]) = CatCount(cats[k])
                        /\ CatPages(cs[k]) = {Copied(p) : p \in CatPages(cats[k])}
  BY <1>1, CategoryCopied
<1>3. cs \in [1 .. n -> C]
  BY <1>1, <1>2
<1> HIDE DEF n, C
<1>4. cs \in Seq(C) /\ Len(cs) = n
  BY <1>1, <1>3, MapSeq
<1>5. Count(cs) = Count(cats)
  <2>1. /\ cs \in Seq(Cats(Copies)) /\ Len(cs) = Len(cats)
        /\ \A i \in 1 .. Len(cats) : CatCount(cs[i]) = CatCount(cats[i])
    BY <1>2, <1>4 DEF C, n
  <2>2. [i \in 1 .. Len(cs) |-> CatCount(cs[i])] = [i \in 1 .. Len(cats) |-> CatCount(cats[i])]
    BY <2>1
  <2> QED BY <2>1, <2>2 DEF Count
<1>6. DOMAIN cs = 1 .. n
  BY <1>3
<1>7. AllPages(cs) = UNION {CatPages(cs[k]) : k \in 1 .. n}
  BY <1>6 DEF AllPages
<1>8. AllPages(cats) = UNION {CatPages(cats[k]) : k \in 1 .. n}
  BY <1>1 DEF AllPages
<1>9. ASSUME NEW x \in AllPages(cs) PROVE \E p \in AllPages(cats) : x = Copied(p)
  <2>1. PICK k \in 1 .. n : x \in CatPages(cs[k])
    BY <1>7
  <2>2. PICK p \in CatPages(cats[k]) : x = Copied(p)
    BY <1>2, <2>1
  <2> QED BY <1>8, <2>2
<1>10. ASSUME NEW p \in AllPages(cats) PROVE Copied(p) \in AllPages(cs)
  <2>1. PICK k \in 1 .. n : p \in CatPages(cats[k])
    BY <1>8
  <2>2. Copied(p) \in CatPages(cs[k])
    BY <1>2, <2>1
  <2> QED BY <1>7, <2>2
<1>11. AllPages(cs) = {Copied(p) : p \in AllPages(cats)}
  BY <1>9, <1>10
<1> QED BY <1>4, <1>5, <1>11 DEF C

\* What GetAll takes of the store.
LEMMA Gathered ==
  ASSUME NEW N, \A n \in N : docs[n] \in Seq(Cats(Originals)), NEW order \in Seq(N)
  PROVE  /\ Unprocessed(order) \in Seq(Cats(Copies))
         /\ Count(Unprocessed(order)) = Sum([i \in 1 .. Len(order) |-> Count(docs[order[i]])], Len(order))
         /\ \A x : x \in AllPages(Unprocessed(order))
                     <=> \E i \in 1 .. Len(order) : \E p \in AllPages(docs[order[i]]) : x = Copied(p)
<1> DEFINE m == Len(order)
           C == Cats(Copies)
           w == CatSize(Copies)
           ss == [i \in DOMAIN order |-> [k \in DOMAIN docs[order[i]] |-> CopyCategory(docs[order[i]][k])]]
           h == [i \in 1 .. m |-> Count(docs[order[i]])]
           all == Unprocessed(order)
<1>1. m \in Nat /\ DOMAIN order = 1 .. m /\ \A i \in 1 .. m : docs[order[i]] \in Seq(Cats(Originals))
  BY SeqParts
<1>2. all = FlattenSeq(ss)
  BY DEF Unprocessed
<1>3. ASSUME NEW i \in 1 .. m
      PROVE  /\ ss[i] \in Seq(C) /\ Count(ss[i]) = Count(docs[order[i]])
             /\ AllPages(ss[i]) = {Copied(p) : p \in AllPages(docs[order[i]])}
  <2> DEFINE cats == docs[order[i]]
             cs == ss[i]
  <2>1. cs = [k \in DOMAIN cats |-> CopyCategory(cats[k])] /\ cats \in Seq(Cats(Originals))
    BY <1>1
  <2> HIDE DEF cats, cs
  <2>2. cs \in Seq(C) /\ Count(cs) = Count(cats) /\ AllPages(cs) = {Copied(p) : p \in AllPages(cats)}
    BY <2>1, AllCopied
  <2> QED BY <2>2 DEF cats, cs
<1>4. ss \in [1 .. m -> Seq(C)]
  <2>1. ss = [i \in 1 .. m |-> ss[i]]
    BY <1>1
  <2> HIDE DEF ss, C, m
  <2> QED BY <1>3, <2>1
<1> HIDE DEF ss, all, m
<1>5. ss \in Seq(Seq(C)) /\ Len(ss) = m
  BY <1>1, <1>4, MapSeq
<1>6. all \in Seq(C) /\ ToSet(all) = UNION {ToSet(ss[i]) : i \in 1 .. m}
  BY <1>2, <1>5, FlatElements
<1>7. Count(all) = Sum(h, m)
  <2>1. Weighs(w, C) /\ \A cats \in Seq(C) : Count(cats) = Total(cats, w)
    BY Counts
  <2>2. \A i \in 1 .. Len(ss) : h[i] = Total(ss[i], w)
    BY <1>3, <1>5, <2>1
  <2> HIDE DEF h, w, C
  <2>3. Total(FlattenSeq(ss), w) = Sum(h, Len(ss))
    BY <1>5, <2>1, <2>2, TotalFlat
  <2> QED BY <1>2, <1>5, <1>6, <2>1, <2>3
<1>8. \A cats \in Seq(C) : AllPages(cats) = UNION {CatPages(c) : c \in ToSet(cats)}
  <2> SUFFICES ASSUME NEW cats \in Seq(C) PROVE AllPages(cats) = UNION {CatPages(c) : c \in ToSet(cats)}
    OBVIOUS
  <2>1. ToSet(cats) = {cats[k] : k \in DOMAIN cats}
    BY DEF ToSet
  <2> QED BY <2>1 DEF AllPages
<1> HIDE DEF C
<1>9. ASSUME NEW x
      PROVE  x \in AllPages(all) <=> \E i \in 1 .. m : \E p \in AllPages(docs[order[i]]) : x = Copied(p)
  <2>1. x \in AllPages(all) <=> \E c \in ToSet(all) : x \in CatPages(c)
    BY <1>6, <1>8
  <2>2. x \in AllPages(all) <=> \E i \in 1 .. m : \E c \in ToSet(ss[i]) : x \in CatPages(c)
    BY <1>6, <2>1
  <2>3. \A i \in 1 .. m : x \in AllPages(ss[i]) <=> \E c \in ToSet(ss[i]) : x \in CatPages(c)
    BY <1>3, <1>8
  <2>4. \A i \in 1 .. m : x \in AllPages(ss[i]) <=> \E p \in AllPages(docs[order[i]]) : x = Copied(p)
    BY <1>3
  <2> QED BY <2>2, <2>3, <2>4
<1> QED BY <1>6, <1>7, <1>9 DEF all, C, m, h

\* What is stored are categories of pages of files.
LEMMA StoredTyped ==
  ASSUME StoreInv, NEW n \in Stored
  PROVE  docs[n] \in Seq(Cats(Originals))
<1>1. PICK v \in Versions : docs[n] = ParsedOf[v]
  BY DocsAssumption DEF Stored, StoreInv, Names
<1>2. PagesOf[v] \in Seq(Files) /\ ParsedOf[v] = Parse(PagesOf[v])
  BY DocsAssumption DEF ParsedOf
<1> QED BY <1>1, <1>2, AllParsed

\* An order of the names comes to each of them.
LEMMA OrderOfAll ==
  ASSUME NEW order \in Orders[Stored]
  PROVE  /\ order \in Seq(Stored)
         /\ \A n \in Stored : \E i \in 1 .. Len(order) : order[i] = n
<1> DEFINE m == Cardinality(Stored)
<1>1. Stored \subseteq Names
  BY DEF Stored
<1>2. IsFiniteSet(Stored) /\ m \in Nat
  <2>1. IsFiniteSet(Names)
    <3>1. IsFiniteSet({OwnName})
      BY FS_Singleton
    <3> QED BY <3>1, DocsAssumption, FS_Union DEF Names
  <2>2. IsFiniteSet(Stored)
    BY <1>1, <2>1, FS_Subset
  <2> QED BY <2>2, FS_CardinalityType
<1>3. Orders[Stored] = SetToSeqs(Stored)
  BY <1>1 DEF Orders
<1>4. order \in [1 .. m -> Stored] /\ \A i, j \in 1 .. m : i # j => order[i] # order[j]
  BY <1>3 DEF SetToSeqs
<1>5. order \in Seq(Stored) /\ Len(order) = m
  <2> HIDE DEF m
  <2> QED BY <1>2, <1>4, MapSeq
<1>6. order \in Injection(1 .. m, Stored)
  BY <1>4 DEF Injection, IsInjective
<1>7. IsFiniteSet(1 .. m) /\ Cardinality(1 .. m) = m
  <2> HIDE DEF m
  <2>1. 1 \in Int /\ m \in Int
    BY <1>2
  <2>2. IsFiniteSet(1 .. m) /\ Cardinality(1 .. m) = IF 1 > m THEN 0 ELSE m - 1 + 1
    BY <2>1, FS_Interval
  <2> QED BY <1>2, <2>2
<1>8. order \in Surjection(1 .. m, Stored)
  BY <1>2, <1>6, <1>7, FS_Injection
<1>9. \A n \in Stored : \E i \in 1 .. m : order[i] = n
  BY <1>8 DEF Surjection
<1> QED BY <1>5, <1>9

\* A name is in the answer once.
LEMMA NamesOnce ==
  ASSUME NEW P, NEW cats \in Seq(Cats(P)), Distinct(cats)
  PROVE  Cardinality({cats[i].name : i \in DOMAIN cats}) = Len(cats)
<1> DEFINE n == Len(cats)
           S == {cats[i].name : i \in DOMAIN cats}
           f == [i \in 1 .. n |-> cats[i].name]
<1>1. n \in Nat /\ DOMAIN cats = 1 .. n
  BY SeqParts
<1>2. f \in Bijection(1 .. n, S)
  BY <1>1 DEF Distinct, Bijection, Injection, Surjection, IsInjective
<1> HIDE DEF n, S, f
<1>3. ExistsBijection(1 .. n, S)
  BY <1>2 DEF ExistsBijection
<1>4. Cardinality(S) = n
  BY <1>1, <1>3, FS_CountingElements
<1> QED BY <1>4 DEF n, S

\* The answer to a request has all pages of the store, each once and where it
\* belongs.
LEMMA Answer ==
  ASSUME StoreInv, NEW order \in Orders[Stored], NEW r, r = Sorted(Merged(Unprocessed(order)))
  PROVE  /\ r \in Seq(Cats(Copies)) /\ Distinct(r) /\ Weighed(r)
         /\ Count(r) = Sum([i \in 1 .. Len(order) |-> Count(docs[order[i]])], Len(order))
         /\ \A x : x \in AllPages(r) <=> \E n \in Stored : \E p \in AllPages(docs[n]) : x = Copied(p)
<1>1. order \in Seq(Stored) /\ \A n \in Stored : \E i \in 1 .. Len(order) : order[i] = n
  BY OrderOfAll
<1>2. \A n \in Stored : docs[n] \in Seq(Cats(Originals))
  BY StoredTyped
<1> DEFINE u == Unprocessed(order)
           m == Merged(u)
           C == Cats(Copies)
<1>3. /\ u \in Seq(C)
      /\ Count(u) = Sum([i \in 1 .. Len(order) |-> Count(docs[order[i]])], Len(order))
      /\ \A x : x \in AllPages(u) <=> \E i \in 1 .. Len(order) : \E p \in AllPages(docs[order[i]]) : x = Copied(p)
  BY <1>1, <1>2, Gathered
<1> HIDE DEF u
<1>4. m \in Seq(C) /\ Distinct(m) /\ Count(m) = Count(u) /\ AllPages(m) = AllPages(u)
  BY <1>3, AllMerged
<1> HIDE DEF m
<1>5. \A p \in Copies : p.weight \in Int
  BY PagesAre DEF Copies
<1>6. /\ Sorted(m) \in Seq(C) /\ Distinct(Sorted(m)) /\ Weighed(Sorted(m))
      /\ Count(Sorted(m)) = Count(m) /\ AllPages(Sorted(m)) = AllPages(m)
  BY <1>4, <1>5, AllSorted
<1>7. r = Sorted(m)
  BY DEF m, u
<1>8. \A i \in 1 .. Len(order) : order[i] \in Stored
  BY <1>1, SeqParts
<1>9. \A x : x \in AllPages(r) <=> \E n \in Stored : \E p \in AllPages(docs[n]) : x = Copied(p)
  BY <1>1, <1>3, <1>4, <1>6, <1>7, <1>8
<1> QED BY <1>3, <1>4, <1>6, <1>7, <1>9

-----------------------------------------------------------------------------
(* What a request gets. *)

LEMMA ServedOnceStep ==
  ASSUME StoreInv, GetAll
  PROVE  ServesOnce
<1> DEFINE r == reply'
           got == Listed(r)
           all == [n \in Stored |-> Listed(docs[n])]
           E == [page : Originals, cat : CatNames, group : GroupNames]
<1>1. PICK order \in Orders[Stored] : r = Sorted(Merged(Unprocessed(order)))
  BY DEF GetAll
<1>2. /\ r \in Seq(Cats(Copies)) /\ Distinct(r) /\ Weighed(r)
      /\ Count(r) = Sum([i \in 1 .. Len(order) |-> Count(docs[order[i]])], Len(order))
      /\ \A x : x \in AllPages(r) <=> \E n \in Stored : \E p \in AllPages(docs[n]) : x = Copied(p)
  BY <1>1, Answer
<1> HIDE DEF r
<1>3. /\ Len(got) = Count(r)
      /\ \A x \in ToSet(got) : x.page \in AllPages(r) /\ x.page.cat = x.cat /\ x.page.group = x.group
      /\ \A p \in AllPages(r) : \E x \in ToSet(got) : x.page = p
  BY <1>2, ListedAre
<1>4. \A n \in Stored :
        /\ all[n] \in Seq(E) /\ Len(all[n]) = Count(docs[n])
        /\ \A x \in ToSet(all[n]) : x.page \in AllPages(docs[n]) /\ x.page \in Originals
        /\ \A p \in AllPages(docs[n]) : \E x \in ToSet(all[n]) : x.page = p
  BY StoredTyped, ListedAre
<1> HIDE DEF got, all, E
<1>5. ASSUME NEW x \in ToSet(got)
      PROVE  \E n \in Stored : \E y \in ToSet(all[n]) : y.page.id = x.page.id
  <2>1. PICK n \in Stored : \E p \in AllPages(docs[n]) : x.page = Copied(p)
    BY <1>2, <1>3
  <2>2. PICK p \in AllPages(docs[n]) : x.page = Copied(p)
    BY <2>1
  <2>3. PICK y \in ToSet(all[n]) : y.page = p
    BY <1>4, <2>2
  <2>4. p \in Originals
    BY <1>4, <2>3
  <2> QED BY <2>2, <2>3, <2>4, PagesAre
<1>6. ASSUME NEW n \in Stored, NEW y \in ToSet(all[n])
      PROVE  \E x \in ToSet(got) : x.page.id = y.page.id
  <2>1. y.page \in AllPages(docs[n]) /\ y.page \in Originals
    BY <1>4
  <2>2. Copied(y.page) \in AllPages(r)
    BY <1>2, <2>1
  <2>3. PICK x \in ToSet(got) : x.page = Copied(y.page)
    BY <1>3, <2>2
  <2> QED BY <2>1, <2>3, PagesAre
<1>7. {x.page.id : x \in ToSet(got)} = UNION {{x.page.id : x \in ToSet(all[n])} : n \in Stored}
  BY <1>5, <1>6
<1>8. Len(got) = Len(FlattenSeq([i \in DOMAIN order |-> all[order[i]]]))
  <2> DEFINE m == Len(order)
             ss == [i \in DOMAIN order |-> all[order[i]]]
  <2>1. m \in Nat /\ DOMAIN order = 1 .. m /\ \A i \in 1 .. m : order[i] \in Stored
    BY OrderOfAll, SeqParts
  <2>2. ss \in [1 .. m -> Seq(E)] /\ \A i \in 1 .. m : Len(ss[i]) = Count(docs[order[i]])
    BY <1>4, <2>1
  <2> HIDE DEF ss, m
  <2>3. ss \in Seq(Seq(E)) /\ Len(ss) = m
    BY <2>1, <2>2, MapSeq
  <2>4. [i \in 1 .. m |-> Len(ss[i])] = [i \in 1 .. m |-> Count(docs[order[i]])]
    BY <2>2
  <2>5. Len(FlattenSeq(ss)) = Sum([i \in 1 .. m |-> Len(ss[i])], m)
    BY <2>3, FlatLen
  <2> QED BY <1>2, <1>3, <2>4, <2>5 DEF ss, m
<1>9. Cardinality({r[i].name : i \in DOMAIN r}) = Len(r)
  BY <1>2, NamesOnce
<1> QED BY <1>2, <1>3, <1>7, <1>8, <1>9 DEF got, all, r, ServesOnce

(***************************************************************************)
(* A request gets the pages of all names that are stored, each of them     *)
(* once, under its category and group and in the order of the weights,     *)
(* whatever categories the pages of the extensions share.                  *)
(***************************************************************************)
THEOREM PagesServedOnce == Spec => ServedOnce
<1>1. StoreInv /\ [Next]_vars => [reply' # None => ServesOnce]_vars
  <2> SUFFICES ASSUME StoreInv, Next, reply' # None PROVE ServesOnce
    OBVIOUS
  <2>1. GetAll
    BY DEF Next, NoReply, Users, Adds, Reconciler, UpdateDocs
  <2> QED BY <2>1, ServedOnceStep
<1> QED BY <1>1, StoreInvariant, PTL DEF Spec, ServedOnce

-----------------------------------------------------------------------------
(* The loops of convert. *)

\* g has the states of a walk that leaves n nodes.
Leaving(g, w, n) ==
  g[0] = w /\ g[n] = LeaveAll(w, n) /\ \A k \in 1 .. n : g[k] = Leave(g[k - 1])

LEMMA Leaves ==
  ASSUME NEW w, NEW n \in Nat
  PROVE  \E g : Leaving(g, w, n)
<1> DEFINE Rec(f) == f = [k \in 0 .. n |-> IF k = 0 THEN w ELSE Leave(f[k - 1])]
           Upto(m, g) == g[0] = w /\ \A k \in 1 .. m : g[k] = Leave(g[k - 1])
           T == {m \in Nat : \E g : Upto(m, g)}
<1>1. 0 \in T
  <2>1. Upto(0, [k \in {0} |-> w])
    OBVIOUS
  <2> QED BY <2>1
<1>2. ASSUME NEW m \in Nat, m \in T PROVE m + 1 \in T
  <2>1. PICK g : Upto(m, g)
    BY <1>2
  <2> DEFINE h == [k \in 0 .. m + 1 |-> IF k = m + 1 THEN Leave(g[m]) ELSE g[k]]
  <2>2. h[m + 1] = Leave(g[m]) /\ \A k \in 0 .. m : h[k] = g[k]
    OBVIOUS
  <2> HIDE DEF h
  <2>3. \A k \in 1 .. m + 1 : k - 1 \in 0 .. m /\ (k \in 1 .. m \/ (k = m + 1 /\ k - 1 = m))
    OBVIOUS
  <2>4. \A k \in 1 .. m : k \in 0 .. m
    OBVIOUS
  <2>5. Upto(m + 1, h)
    BY <2>1, <2>2, <2>3, <2>4
  <2> QED BY <2>5
<1>3. n \in T
  <2> HIDE DEF T
  <2> QED BY <1>1, <1>2, Induction
<1>4. PICK g : Upto(n, g)
  BY <1>3
<1>5. Rec([k \in 0 .. n |-> g[k]])
  <2> DEFINE f == [k \in 0 .. n |-> g[k]]
  <2>1. \A k \in 0 .. n : f[k] = IF k = 0 THEN w ELSE Leave(f[k - 1])
    <3>1. \A k \in 0 .. n : k = 0 \/ (k \in 1 .. n /\ k - 1 \in 0 .. n /\ k # 0)
      OBVIOUS
    <3> QED BY <1>4, <3>1
  <2> QED BY <2>1
<1> DEFINE f == CHOOSE f : Rec(f)
<1>6. Rec(f)
  BY <1>5
<1>7. f[n] = LeaveAll(w, n)
  BY DEF LeaveAll
<1>8. \A k \in 1 .. n : k \in 0 .. n /\ k # 0
  OBVIOUS
<1> HIDE DEF f
<1>9. f[0] = w /\ \A k \in 1 .. n : f[k] = Leave(f[k - 1])
  BY <1>6, <1>8
<1> QED BY <1>7, <1>9 DEF Leaving

LEMMA Visits ==
  ASSUME NEW nodes, Len(nodes) \in Nat
  PROVE  \E g : /\ g[0] = WalkStart /\ Convert(nodes) = Fix(g[Len(nodes)].toks)
                /\ \A i \in 1 .. Len(nodes) : g[i] = Visit(g[i - 1], nodes, i)
<1> DEFINE n == Len(nodes)
           Rec(f) == f = [i \in 0 .. n |-> IF i = 0 THEN WalkStart ELSE Visit(f[i - 1], nodes, i)]
           Upto(m, g) == g[0] = WalkStart /\ \A i \in 1 .. m : g[i] = Visit(g[i - 1], nodes, i)
           T == {m \in Nat : \E g : Upto(m, g)}
<1>1. 0 \in T
  <2>1. Upto(0, [i \in {0} |-> WalkStart])
    OBVIOUS
  <2> QED BY <2>1
<1>2. ASSUME NEW m \in Nat, m \in T PROVE m + 1 \in T
  <2>1. PICK g : Upto(m, g)
    BY <1>2
  <2> DEFINE h == [i \in 0 .. m + 1 |-> IF i = m + 1 THEN Visit(g[m], nodes, m + 1) ELSE g[i]]
  <2>2. h[m + 1] = Visit(g[m], nodes, m + 1) /\ \A i \in 0 .. m : h[i] = g[i]
    OBVIOUS
  <2> HIDE DEF h
  <2>3. \A i \in 1 .. m + 1 : i - 1 \in 0 .. m /\ (i \in 1 .. m \/ (i = m + 1 /\ i - 1 = m))
    OBVIOUS
  <2>4. \A i \in 1 .. m : i \in 0 .. m
    OBVIOUS
  <2>5. Upto(m + 1, h)
    BY <2>1, <2>2, <2>3, <2>4
  <2> QED BY <2>5
<1>3. n \in T
  <2> HIDE DEF T
  <2> QED BY <1>1, <1>2, Induction
<1>4. PICK g : Upto(n, g)
  BY <1>3
<1>5. Rec([i \in 0 .. n |-> g[i]])
  <2> DEFINE f == [i \in 0 .. n |-> g[i]]
  <2>1. \A i \in 0 .. n : f[i] = IF i = 0 THEN WalkStart ELSE Visit(f[i - 1], nodes, i)
    <3>1. \A i \in 0 .. n : i = 0 \/ (i \in 1 .. n /\ i - 1 \in 0 .. n /\ i # 0)
      OBVIOUS
    <3> QED BY <1>4, <3>1
  <2> QED BY <2>1
<1> DEFINE f == CHOOSE f : Rec(f)
<1>6. Rec(f)
  BY <1>5
<1>7. Convert(nodes) = Fix(f[n].toks)
  BY DEF Convert
<1>8. \A i \in 1 .. n : i \in 0 .. n /\ i # 0
  OBVIOUS
<1> HIDE DEF f
<1>9. f[0] = WalkStart /\ \A i \in 1 .. n : f[i] = Visit(f[i - 1], nodes, i)
  BY <1>6, <1>8
<1> QED BY <1>7, <1>9

LEMMA HeadsAre ==
  ASSUME NEW nodes, Len(nodes) \in Nat
  PROVE  \E g : /\ g[0] = <<>> /\ g[Len(nodes)] = Heads(nodes)
                /\ \A i \in 1 .. Len(nodes) :
                     g[i] = IF Continues(nodes, i) THEN g[i - 1] ELSE Append(g[i - 1], i)
<1> DEFINE n == Len(nodes)
           Rec(f) == f = [i \in 0 .. n |->
                            IF i = 0 THEN <<>>
                            ELSE IF Continues(nodes, i) THEN f[i - 1] ELSE Append(f[i - 1], i)]
           F == [p \in Seq(Nat) \X (1 .. n) |->
                   IF Continues(nodes, p[2]) THEN p[1] ELSE Append(p[1], p[2])]
<1>1. Steps(F, Seq(Nat), n)
  <2>1. \A p \in Seq(Nat) \X (1 .. n) :
          (IF Continues(nodes, p[2]) THEN p[1] ELSE Append(p[1], p[2])) \in Seq(Nat)
    BY AppendProperties
  <2> QED BY <2>1 DEF Steps
<1>2. <<>> \in Seq(Nat)
  BY EmptySeq
<1>3. PICK g : Follows(g, <<>>, F, Seq(Nat), n)
  <2> HIDE DEF F
  <2> QED BY <1>1, <1>2, Recursion
<1>4. Rec(g)
  <2>1. g \in [0 .. n -> Seq(Nat)] /\ g[0] = <<>> /\ \A i \in 1 .. n : g[i] = F[<<g[i - 1], i>>]
    BY <1>3 DEF Follows
  <2>2. \A i \in 1 .. n : <<g[i - 1], i>> \in Seq(Nat) \X (1 .. n)
    <3>1. \A i \in 1 .. n : i - 1 \in 0 .. n
      OBVIOUS
    <3> QED BY <2>1, <3>1
  <2>3. \A i \in 1 .. n : g[i] = IF Continues(nodes, i) THEN g[i - 1] ELSE Append(g[i - 1], i)
    BY <2>1, <2>2
  <2>4. \A i \in 0 .. n : i = 0 \/ (i \in 1 .. n /\ i # 0)
    OBVIOUS
  <2>5. \A i \in 0 .. n : g[i] = IF i = 0 THEN <<>>
                                 ELSE IF Continues(nodes, i) THEN g[i - 1] ELSE Append(g[i - 1], i)
    BY <2>1, <2>3, <2>4
  <2>6. g = [i \in 0 .. n |-> g[i]]
    BY <2>1
  <2> QED BY <2>5, <2>6
<1> DEFINE f == CHOOSE f : Rec(f)
<1>5. Rec(f)
  BY <1>4
<1>6. f[n] = Heads(nodes)
  BY DEF Heads
<1>7. \A i \in 1 .. n : i \in 0 .. n /\ i # 0
  OBVIOUS
<1> HIDE DEF f
<1>8. f[0] = <<>> /\ \A i \in 1 .. n : f[i] = IF Continues(nodes, i) THEN f[i - 1] ELSE Append(f[i - 1], i)
  <2>1. f[0] = <<>>
    <3>1. 0 \in 0 .. n
      OBVIOUS
    <3> QED BY <1>5, <3>1
  <2>2. \A i \in 1 .. n : f[i] = IF Continues(nodes, i) THEN f[i - 1] ELSE Append(f[i - 1], i)
    BY <1>5, <1>7
  <2> QED BY <2>1, <2>2
<1> QED BY <1>6, <1>8

\* The texts up to the last one, and the last one.
LEMMA FlatLast ==
  ASSUME NEW X, NEW m \in Nat, NEW f, \A t \in 1 .. m + 1 : f[t] \in Seq(X)
  PROVE  /\ FlattenSeq([t \in 1 .. m |-> f[t]]) \in Seq(X)
         /\ FlattenSeq([t \in 1 .. m + 1 |-> f[t]]) = FlattenSeq([t \in 1 .. m |-> f[t]]) \o f[m + 1]
<1> DEFINE a == [t \in 1 .. m |-> f[t]]
           b == [t \in 1 .. m + 1 |-> f[t]]
<1>1. a \in [1 .. m -> Seq(X)] /\ b \in [1 .. m + 1 -> Seq(X)]
  OBVIOUS
<1>2. \A t \in 1 .. m : a[t] = b[t]
  OBVIOUS
<1>3. b[m + 1] = f[m + 1]
  OBVIOUS
<1> HIDE DEF a, b
<1>4. a \in Seq(Seq(X)) /\ Len(a) = m
  BY <1>1, MapSeq
<1>5. b \in Seq(Seq(X)) /\ Len(b) = m + 1
  <2>1. m + 1 \in Nat
    OBVIOUS
  <2> QED BY <1>1, <2>1, MapSeq
<1>6. PICK g : /\ g[0] = <<>> /\ g[m] = FlattenSeq(a)
               /\ \A i \in 0 .. m : g[i] \in Seq(X)
               /\ \A i \in 1 .. m : g[i] = g[i - 1] \o a[i]
  <2>1. \E g : /\ g[0] = <<>> /\ g[Len(a)] = FlattenSeq(a)
               /\ \A i \in 0 .. Len(a) : g[i] \in Seq(X)
               /\ \A i \in 1 .. Len(a) : g[i] = g[i - 1] \o a[i]
    BY <1>4, Flattening
  <2> QED BY <1>4, <2>1
<1>7. PICK h : /\ h[0] = <<>> /\ h[m + 1] = FlattenSeq(b)
               /\ \A i \in 1 .. m + 1 : h[i] = h[i - 1] \o b[i]
  <2>1. \E f2 : /\ f2[0] = <<>> /\ f2[Len(b)] = FlattenSeq(b)
                /\ \A i \in 0 .. Len(b) : f2[i] \in Seq(X)
                /\ \A i \in 1 .. Len(b) : f2[i] = f2[i - 1] \o b[i]
    BY <1>5, Flattening
  <2> QED BY <1>5, <2>1
<1> DEFINE T == {i \in Nat : i <= m => g[i] = h[i]}
<1>8. 0 \in T
  BY <1>6, <1>7
<1>9. ASSUME NEW i \in Nat, i \in T PROVE i + 1 \in T
  <2> SUFFICES ASSUME i + 1 <= m PROVE g[i + 1] = h[i + 1]
    OBVIOUS
  <2>1. i + 1 \in 1 .. m /\ i + 1 \in 1 .. m + 1 /\ (i + 1) - 1 = i /\ g[i] = h[i]
    BY <1>9
  <2> QED BY <1>2, <1>6, <1>7, <2>1
<1> HIDE DEF T
<1>10. m \in T
  BY <1>8, <1>9, Induction
<1>11. m + 1 \in 1 .. m + 1 /\ (m + 1) - 1 = m /\ m \in 0 .. m
  OBVIOUS
<1>12. FlattenSeq(b) = FlattenSeq(a) \o f[m + 1] /\ FlattenSeq(a) \in Seq(X)
  <2>1. h[m + 1] = h[m] \o b[m + 1]
    BY <1>7, <1>11
  <2>2. g[m] = h[m] /\ g[m] \in Seq(X)
    BY <1>6, <1>10, <1>11 DEF T
  <2> QED BY <1>3, <1>6, <1>7, <2>1, <2>2
<1> QED BY <1>12 DEF a, b

-----------------------------------------------------------------------------
(* The walk of convert, for any tree that goldmark makes. *)

DepthOf(nodes, i) == IF i = 0 THEN 0 ELSE nodes[i].d

\* What is used of a page.
Shape(nodes) ==
  /\ Len(nodes) \in Nat /\ DOMAIN nodes = 1 .. Len(nodes)
  /\ \A i \in 1 .. Len(nodes) : nodes[i].d \in Nat /\ nodes[i].d >= 1
  /\ \A i \in 1 .. Len(nodes) : nodes[i].d <= 1 + DepthOf(nodes, i - 1)
Leafs(nodes) ==
  \A i \in 1 .. Len(nodes) - 1 :
    nodes[i].kind \in {"Text", "FencedCodeBlock"} => nodes[i + 1].d <= nodes[i].d

\* Node a is the one over node i.
Above(nodes, a, i) ==
  /\ a \in 0 .. i - 1 /\ DepthOf(nodes, a) = nodes[i].d - 1
  /\ \A j \in a + 1 .. i - 1 : nodes[j].d >= nodes[i].d

LEMMA AboveOnce ==
  ASSUME NEW nodes, Shape(nodes), NEW i \in 1 .. Len(nodes),
         NEW a, NEW b, Above(nodes, a, i), Above(nodes, b, i)
  PROVE  a = b
<1>1. \A x, y : Above(nodes, x, i) /\ Above(nodes, y, i) => ~(x < y)
  <2> SUFFICES ASSUME NEW x, NEW y, Above(nodes, x, i), Above(nodes, y, i), x < y
               PROVE  FALSE
    OBVIOUS
  <2>1. x \in 0 .. i - 1 /\ y \in 0 .. i - 1 /\ i \in Nat
    BY DEF Above, Shape
  <2>2. y \in x + 1 .. i - 1 /\ y # 0
    BY <2>1
  <2>3. nodes[y].d >= nodes[i].d /\ nodes[y].d = nodes[i].d - 1
    BY <2>2 DEF Above, DepthOf
  <2>4. nodes[i].d \in Nat
    BY DEF Shape
  <2> QED BY <2>3, <2>4
<1>2. a \in Int /\ b \in Int
  BY DEF Above
<1>3. ~(a < b) /\ ~(b < a)
  BY <1>1
<1> QED BY <1>2, <1>3

LEMMA OverIs ==
  ASSUME NEW nodes, Shape(nodes), NEW i \in 1 .. Len(nodes), NEW a, Above(nodes, a, i)
  PROVE  Over(nodes, i) = a
<1> DEFINE P(j) == /\ IF j = 0 THEN nodes[i].d = 1 ELSE nodes[j].d = nodes[i].d - 1
                   /\ \A k \in j + 1 .. i - 1 : nodes[k].d >= nodes[i].d
<1>1. nodes[i].d \in Nat
  BY DEF Shape
<1>2. \A j \in 0 .. i - 1 : P(j) <=> Above(nodes, j, i)
  BY <1>1 DEF Above, DepthOf
<1>3. Over(nodes, i) = CHOOSE j \in 0 .. i - 1 : P(j)
  BY DEF Over
<1>4. a \in 0 .. i - 1
  BY DEF Above
<1> HIDE DEF P
<1>5. Over(nodes, i) \in 0 .. i - 1 /\ P(Over(nodes, i))
  BY <1>2, <1>3, <1>4
<1> QED BY <1>2, <1>5, AboveOnce

\* The heads among the first i nodes: the node with the token t, and the last
\* node whose text is in it.
At(h, t)        == IF t = 0 THEN 0 ELSE h[t]
RunEnd(h, i, t) == IF t = Len(h) THEN i ELSE h[t + 1] - 1
HeadsTo(nodes, i, h) ==
  /\ h \in Seq(Nat)
  /\ \A t \in 1 .. Len(h) : h[t] \in 1 .. i
  /\ \A t, u \in 1 .. Len(h) : t < u => h[t] < h[u]
  /\ \A j \in 1 .. i : Continues(nodes, j) \/ \E t \in 1 .. Len(h) : h[t] = j
  /\ \A t \in 1 .. Len(h) : \A j \in h[t] .. RunEnd(h, i, t) :
       nodes[j].d = nodes[h[t]].d /\ nodes[j].kind = nodes[h[t]].kind

LEMMA HeadStep ==
  ASSUME NEW nodes, Shape(nodes), NEW i \in Nat, i < Len(nodes), NEW h, HeadsTo(nodes, i, h)
  PROVE  HeadsTo(nodes, i + 1, IF Continues(nodes, i + 1) THEN h ELSE Append(h, i + 1))
<1>1. h \in Seq(Nat) /\ Len(h) \in Nat /\ i + 1 \in Nat /\ i + 1 \in 1 .. Len(nodes)
  <2>1. h \in Seq(Nat)
    BY DEF HeadsTo
  <2>2. Len(h) \in Nat
    BY <2>1, SeqParts
  <2> QED BY <2>1, <2>2 DEF Shape
<1>2. /\ \A t \in 1 .. Len(h) : h[t] \in 1 .. i
      /\ \A t, u \in 1 .. Len(h) : t < u => h[t] < h[u]
      /\ \A j \in 1 .. i : Continues(nodes, j) \/ \E t \in 1 .. Len(h) : h[t] = j
      /\ \A t \in 1 .. Len(h) : \A j \in h[t] .. RunEnd(h, i, t) :
           nodes[j].d = nodes[h[t]].d /\ nodes[j].kind = nodes[h[t]].kind
  BY DEF HeadsTo
<1>3. \A j \in 1 .. i + 1 : j \in 1 .. i \/ j = i + 1
  BY <1>1
<1>4. ASSUME Continues(nodes, i + 1) PROVE HeadsTo(nodes, i + 1, h)
  <2>1. i \in 1 .. i /\ nodes[i + 1].kind = "Text" /\ nodes[i].kind = "Text" /\ nodes[i].d = nodes[i + 1].d
    BY <1>1, <1>4 DEF Continues
  <2>2. ASSUME NEW t \in 1 .. Len(h), NEW j \in h[t] .. RunEnd(h, i + 1, t)
        PROVE  nodes[j].d = nodes[h[t]].d /\ nodes[j].kind = nodes[h[t]].kind
    <3>1. CASE j \in h[t] .. RunEnd(h, i, t)
      BY <1>2, <3>1
    <3>2. CASE j \notin h[t] .. RunEnd(h, i, t)
      <4>1. h[t] \in 1 .. i
        BY <1>2
      <4>2. t = Len(h) /\ j = i + 1
        BY <3>2, <4>1 DEF RunEnd
      <4>3. i \in h[t] .. RunEnd(h, i, t)
        BY <4>1, <4>2 DEF RunEnd
      <4>4. nodes[i].d = nodes[h[t]].d /\ nodes[i].kind = nodes[h[t]].kind
        BY <1>2, <4>3
      <4> QED BY <2>1, <4>2, <4>4
    <3> QED BY <3>1, <3>2
  <2>3. \A t \in 1 .. Len(h) : h[t] \in 1 .. i + 1
    BY <1>2
  <2> QED BY <1>1, <1>2, <1>3, <1>4, <2>2, <2>3 DEF HeadsTo
<1>5. HeadsTo(nodes, i + 1, Append(h, i + 1))
  <2> DEFINE m == Len(h)
             e == Append(h, i + 1)
  <2>1. /\ e \in Seq(Nat) /\ Len(e) = m + 1
        /\ (\A t \in 1 .. m : e[t] = h[t]) /\ e[m + 1] = i + 1
    BY <1>1, AppendProperties
  <2> HIDE DEF e
  <2>2. \A t \in 1 .. m + 1 : t \in 1 .. m \/ t = m + 1
    BY <1>1
  <2>3. \A t \in 1 .. m + 1 : e[t] \in 1 .. i + 1
    <3>1. \A t \in 1 .. m : h[t] \in 1 .. i + 1
      BY <1>1, <1>2
    <3>2. i + 1 \in 1 .. i + 1
      BY <1>1
    <3> QED BY <2>1, <2>2, <3>1, <3>2
  <2>4. \A t, u \in 1 .. m + 1 : t < u => e[t] < e[u]
    <3> SUFFICES ASSUME NEW t \in 1 .. m + 1, NEW u \in 1 .. m + 1, t < u
                 PROVE  e[t] < e[u]
      OBVIOUS
    <3>1. t \in 1 .. m /\ e[t] = h[t] /\ h[t] \in 1 .. i
      BY <1>1, <1>2, <2>1
    <3>2. CASE u \in 1 .. m
      BY <1>2, <2>1, <3>1, <3>2
    <3>3. CASE u = m + 1
      BY <2>1, <3>1, <3>3
    <3> QED BY <2>2, <3>2, <3>3
  <2>5. \A j \in 1 .. i + 1 : Continues(nodes, j) \/ \E t \in 1 .. m + 1 : e[t] = j
    <3>1. \A t \in 1 .. m : t \in 1 .. m + 1
      BY <1>1
    <3>2. m + 1 \in 1 .. m + 1
      BY <1>1
    <3> QED BY <1>2, <1>3, <2>1, <3>1, <3>2
  <2>6. ASSUME NEW t \in 1 .. m + 1, NEW j \in e[t] .. RunEnd(e, i + 1, t)
        PROVE  nodes[j].d = nodes[e[t]].d /\ nodes[j].kind = nodes[e[t]].kind
    <3>1. CASE t = m + 1
      <4>1. j = i + 1
        BY <1>1, <2>1, <3>1 DEF RunEnd
      <4> QED BY <2>1, <3>1, <4>1
    <3>2. CASE t \in 1 .. m
      <4>1. t # Len(e) /\ RunEnd(e, i + 1, t) = e[t + 1] - 1
        BY <1>1, <2>1, <3>2 DEF RunEnd
      <4>2. CASE t = m
        <5>1. RunEnd(e, i + 1, t) = i /\ RunEnd(h, i, t) = i
          BY <1>1, <2>1, <4>1, <4>2 DEF RunEnd
        <5>2. e[t] = h[t] /\ j \in h[t] .. RunEnd(h, i, t)
          BY <2>1, <3>2, <5>1
        <5> QED BY <1>2, <3>2, <5>2
      <4>3. CASE t # m
        <5>1. t + 1 \in 1 .. m
          BY <1>1, <3>2, <4>3
        <5>2. RunEnd(e, i + 1, t) = RunEnd(h, i, t)
          BY <2>1, <4>1, <4>3, <5>1 DEF RunEnd
        <5>3. e[t] = h[t] /\ j \in h[t] .. RunEnd(h, i, t)
          BY <2>1, <3>2, <5>2
        <5> QED BY <1>2, <3>2, <5>3
      <4> QED BY <4>2, <4>3
    <3> QED BY <2>2, <3>1, <3>2
  <2>7. HeadsTo(nodes, i + 1, e)
    BY <2>1, <2>3, <2>4, <2>5, <2>6 DEF HeadsTo
  <2> QED BY <2>7 DEF e
<1> QED BY <1>4, <1>5

\* The tokens of the heads, each under the token of the node above.
Toks(nodes, X) ==
  [kind : {TokenKind(nodes[i].kind) : i \in 1 .. Len(nodes)}, text : Seq(X),
   attr : {nodes[i].attr : i \in 1 .. Len(nodes)}, parent : Nat]
TokensTo(nodes, X, toks, h) ==
  /\ toks \in Seq(Toks(nodes, X)) /\ Len(toks) = Len(h)
  /\ \A t \in 1 .. Len(h) :
       toks[t].kind = TokenKind(nodes[h[t]].kind) /\ toks[t].attr = nodes[h[t]].attr
  /\ \A t \in 1 .. Len(h) :
       toks[t].parent \in 0 .. t - 1 /\ Above(nodes, At(h, toks[t].parent), h[t])

Walk(toks, root, depth) ==
  [toks |-> toks, root |-> root, depth |-> depth, skip |-> 0, stopped |-> FALSE]

LEMMA Up ==
  ASSUME NEW toks, NEW r, NEW p, NEW d, ParentOf(toks, r) = p, p # NoToken
  PROVE  Leave(Walk(toks, r, d)) = Walk(toks, p, d)
<1> DEFINE k == 0
           f == FALSE
           w == [toks |-> toks, root |-> r, depth |-> d, skip |-> k, stopped |-> f]
           v == [toks |-> toks, root |-> p, depth |-> d, skip |-> k, stopped |-> f]
<1>1. Walk(toks, r, d) = w /\ Walk(toks, p, d) = v /\ f = FALSE
  BY DEF Walk
<1> HIDE DEF k, f
<1>2. [w EXCEPT !.root = p] = v
  OBVIOUS
<1>3. [v EXCEPT !.stopped = f] = v
  OBVIOUS
<1>4. [w EXCEPT !.root = p, !.stopped = f] = [[w EXCEPT !.root = p] EXCEPT !.stopped = f]
  OBVIOUS
<1>5. w.toks = toks /\ w.root = r /\ w.stopped = f
  OBVIOUS
<1> HIDE DEF w
<1>6. Leave(w) = [w EXCEPT !.root = p, !.stopped = f]
  BY <1>1, <1>5 DEF Leave
<1> QED BY <1>1, <1>2, <1>3, <1>4, <1>6

\* How deep a node is at least that was entered after the one at which the walk
\* is, when it was at depth d and has left k nodes.
LeastAt(d, k) == IF k = 0 THEN d ELSE d - k + 1

LEMMA LeastIs ==
  ASSUME NEW d \in Nat, NEW k \in Nat
  PROVE  /\ d - k \in Int /\ d - k >= d - k /\ LeastAt(d, k) \in Int /\ LeastAt(d, k) >= d - k
         /\ LeastAt(d, k + 1) = d - k /\ d - (k + 1) = d - k - 1
         /\ LeastAt(d, 0) = d /\ (k # 0 => LeastAt(d, k) = d - k + 1)
BY DEF LeastAt

\* convert goes up to the token of the node that is over the next one.
LEMMA Climb ==
  ASSUME NEW nodes, Shape(nodes), Leafs(nodes), NEW i \in Nat, i < Len(nodes),
         NEW h, HeadsTo(nodes, i, h), NEW X, NEW toks, TokensTo(nodes, X, toks, h),
         NEW d, d = DepthOf(nodes, i)
  PROVE  /\ d + 1 - nodes[i + 1].d \in Nat
         /\ \E r \in 0 .. Len(h) :
              /\ LeaveAll(Walk(toks, Len(h), d), d + 1 - nodes[i + 1].d) = Walk(toks, r, d)
              /\ Above(nodes, At(h, r), i + 1)
<1> DEFINE m == d + 1 - nodes[i + 1].d
           n == Len(h)
           w == Walk(toks, n, d)
<1>1. i + 1 \in 1 .. Len(nodes) /\ (i + 1) - 1 = i
  BY DEF Shape
<1>2. nodes[i + 1].d \in Nat /\ nodes[i + 1].d >= 1 /\ nodes[i + 1].d <= 1 + d /\ d \in Nat
  <2>1. d \in Nat
    <3>1. i = 0 \/ i \in 1 .. Len(nodes)
      BY DEF Shape
    <3> QED BY <3>1 DEF Shape, DepthOf
  <2> QED BY <1>1, <2>1 DEF Shape
<1>3. m \in Nat /\ m <= d
  BY <1>2
<1>4. n \in Nat
  BY SeqParts DEF HeadsTo
<1>5. /\ \A t \in 1 .. n : h[t] \in 1 .. i
      /\ \A t, u \in 1 .. n : t < u => h[t] < h[u]
      /\ \A j \in 1 .. i : Continues(nodes, j) \/ \E t \in 1 .. n : h[t] = j
      /\ \A t \in 1 .. n : \A j \in h[t] .. RunEnd(h, i, t) :
           nodes[j].d = nodes[h[t]].d /\ nodes[j].kind = nodes[h[t]].kind
  BY DEF HeadsTo
<1>6. \A j \in 1 .. i : nodes[j].d \in Nat /\ nodes[j].d >= 1
  <2>1. \A j \in 1 .. i : j \in 1 .. Len(nodes)
    BY DEF Shape
  <2> QED BY <2>1 DEF Shape
<1>7. i # 0 => n >= 1 /\ n \in 1 .. n
  <2>1. i # 0 => 1 \in 1 .. i /\ ~Continues(nodes, 1)
    BY DEF Continues
  <2> QED BY <1>4, <1>5, <2>1
<1>8. n >= 1 => \A j \in h[n] .. i : nodes[j].d = d /\ nodes[j].kind = nodes[i].kind
  <2> SUFFICES ASSUME n >= 1
               PROVE  \A j \in h[n] .. i : nodes[j].d = d /\ nodes[j].kind = nodes[i].kind
    OBVIOUS
  <2>1. n \in 1 .. n /\ h[n] \in 1 .. i
    BY <1>4, <1>5
  <2>2. RunEnd(h, i, n) = i /\ i \in h[n] .. i /\ i # 0
    BY <2>1 DEF RunEnd
  <2>3. \A j \in h[n] .. i : nodes[j].d = nodes[h[n]].d /\ nodes[j].kind = nodes[h[n]].kind
    BY <1>5, <2>1, <2>2
  <2>4. d = nodes[i].d
    BY <2>2 DEF DepthOf
  <2> QED BY <2>2, <2>3, <2>4
<1>9. PICK g : /\ g[0] = w /\ g[m] = LeaveAll(w, m)
               /\ \A k \in 1 .. m : g[k] = Leave(g[k - 1])
  <2>1. m \in Nat
    BY <1>3
  <2> HIDE DEF m, w
  <2>2. \E g : Leaving(g, w, m)
    BY <2>1, Leaves
  <2> QED BY <2>2 DEF Leaving
<1> DEFINE Least(k) == LeastAt(d, k)
           Rel(k, r) == /\ DepthOf(nodes, At(h, r)) = d - k /\ At(h, r) \in 0 .. i
                        /\ \A j \in At(h, r) + 1 .. i : nodes[j].d >= Least(k)
           Reached(k) == \E r \in 0 .. n : g[k] = Walk(toks, r, d) /\ Rel(k, r)
           T == {k \in Nat : k <= m => Reached(k)}
<1>10. 0 \in T
  <2>1. Rel(0, n)
    <3>1. CASE n = 0
      <4>1. i = 0
        BY <1>4, <1>7, <3>1
      <4> QED BY <1>2, <3>1, <4>1 DEF At, DepthOf
    <3>2. CASE n # 0
      <4>1. n >= 1 /\ n \in 1 .. n /\ At(h, n) = h[n] /\ h[n] \in 1 .. i
        BY <1>4, <1>5, <3>2 DEF At
      <4>2. DepthOf(nodes, h[n]) = d
        <5>1. h[n] \in h[n] .. i /\ h[n] # 0
          BY <4>1
        <5> QED BY <1>8, <4>1, <5>1 DEF DepthOf
      <4>3. \A j \in h[n] + 1 .. i : j \in h[n] .. i
        BY <4>1
      <4>4. Least(0) = d /\ d - 0 = d /\ d >= d
        BY <1>2 DEF LeastAt
      <4>5. \A j \in h[n] + 1 .. i : nodes[j].d >= Least(0)
        BY <1>8, <4>1, <4>3, <4>4
      <4>6. At(h, n) \in 0 .. i
        BY <4>1
      <4> HIDE DEF Least
      <4> QED BY <4>1, <4>2, <4>4, <4>5, <4>6
    <3> QED BY <3>1, <3>2
  <2> QED BY <1>4, <1>9, <2>1
<1>11. ASSUME NEW k \in Nat, k \in T PROVE k + 1 \in T
  <2> SUFFICES ASSUME k + 1 <= m PROVE Reached(k + 1)
    OBVIOUS
  <2>1. PICK r \in 0 .. n : g[k] = Walk(toks, r, d) /\ Rel(k, r)
    BY <1>3, <1>11
  <2>2. k < d /\ k + 1 \in 1 .. m /\ (k + 1) - 1 = k
    <3>1. d \in Nat /\ m \in Nat /\ m <= d
      BY <1>2, <1>3
    <3> HIDE DEF m
    <3> QED BY <3>1
  <2>3. r # 0 /\ r \in 1 .. n /\ At(h, r) = h[r] /\ h[r] \in 1 .. i
    <3>1. r # 0
      BY <1>2, <2>1, <2>2 DEF At, DepthOf
    <3> QED BY <1>4, <1>5, <3>1 DEF At
  <2> DEFINE p == toks[r].parent
             b == At(h, p)
  <2>4. p \in 0 .. r - 1 /\ Above(nodes, b, h[r])
    BY <2>3 DEF TokensTo
  <2>5. g[k + 1] = Walk(toks, p, d)
    <3>1. g[k + 1] = Leave(g[k])
      BY <1>9, <2>2
    <3>2. ParentOf(toks, r) = p /\ p # NoToken
      BY <2>3, <2>4 DEF ParentOf, NoToken
    <3> HIDE DEF p
    <3>3. Leave(Walk(toks, r, d)) = Walk(toks, p, d)
      BY <3>2, Up
    <3> QED BY <2>1, <3>1, <3>3
  <2>6. nodes[h[r]].d = d - k
    BY <2>1, <2>3 DEF DepthOf
  <2> HIDE DEF b
  <2>7. /\ b \in 0 .. h[r] - 1 /\ DepthOf(nodes, b) = d - k - 1
        /\ \A j \in b + 1 .. h[r] - 1 : nodes[j].d >= d - k
    BY <2>4, <2>6 DEF Above
  <2>8. \A j \in h[r] + 1 .. i : nodes[j].d >= d - k
    <3>1. Least(k) >= d - k /\ Least(k) \in Int /\ d - k \in Int
      BY <1>2, LeastIs
    <3>2. \A j \in h[r] + 1 .. i : j \in 1 .. i /\ j \in At(h, r) + 1 .. i
      BY <2>3
    <3> HIDE DEF Least
    <3>3. \A j \in h[r] + 1 .. i : nodes[j].d >= Least(k) /\ nodes[j].d \in Nat
      BY <1>6, <2>1, <3>2
    <3> QED BY <3>1, <3>3
  <2>9. \A j \in b + 1 .. i : j \in b + 1 .. h[r] - 1 \/ j = h[r] \/ j \in h[r] + 1 .. i
    BY <2>3, <2>7
  <2>10. \A j \in b + 1 .. i : nodes[j].d >= d - k
    <3>1. d - k \in Int /\ d - k >= d - k
      BY <1>2, LeastIs
    <3> QED BY <2>6, <2>7, <2>8, <2>9, <3>1
  <2>11. Least(k + 1) = d - k /\ d - (k + 1) = d - k - 1
    BY <1>2, LeastIs
  <2>12. b \in 0 .. i
    BY <2>3, <2>7
  <2>13. Rel(k + 1, p)
    <3> HIDE DEF Least
    <3> QED BY <2>7, <2>10, <2>11, <2>12 DEF b
  <2>14. p \in 0 .. n
    BY <1>4, <2>3, <2>4
  <2> HIDE DEF p, Rel
  <2> QED BY <2>5, <2>13, <2>14
<1> HIDE DEF T
<1>12. m \in T
  BY <1>3, <1>10, <1>11, Induction
<1>13. PICK r \in 0 .. n : g[m] = Walk(toks, r, d) /\ Rel(m, r)
  <2>1. m <= m
    BY <1>3
  <2> HIDE DEF Reached, m
  <2>2. Reached(m)
    BY <1>12, <2>1 DEF T
  <2> QED BY <2>2 DEF Reached
<1>14. Above(nodes, At(h, r), i + 1)
  <2> DEFINE a == At(h, r)
  <2>1. DepthOf(nodes, a) = nodes[i + 1].d - 1 /\ a \in 0 .. i
    BY <1>2, <1>13
  <2>2. \A j \in a + 1 .. i : nodes[j].d >= nodes[i + 1].d
    <3>1. CASE m # 0
      <4>1. Least(m) = nodes[i + 1].d
        <5>1. \A x, y \in Nat : x - (x + 1 - y) + 1 = y
          OBVIOUS
        <5>2. d - m + 1 = nodes[i + 1].d
          BY <1>2, <5>1
        <5> HIDE DEF m
        <5>3. Least(m) = d - m + 1
          BY <1>2, <1>3, <3>1, LeastIs
        <5> QED BY <5>2, <5>3
      <4> QED BY <1>13, <4>1
    <3>2. CASE m = 0
      <4>1. nodes[i + 1].d = d + 1 /\ DepthOf(nodes, a) = d
        BY <1>2, <2>1, <3>2
      <4>2. a = i
        <5>1. CASE i = 0
          BY <2>1, <5>1
        <5>2. CASE i # 0
          <6>1. i \in 1 .. Len(nodes) - 1 /\ nodes[i].d = d
            BY <5>2 DEF Shape, DepthOf
          <6>2. nodes[i].kind # "Text"
            BY <1>2, <4>1, <6>1 DEF Leafs
          <6>3. ~Continues(nodes, i) /\ i \in 1 .. i
            BY <5>2, <6>2 DEF Continues
          <6>4. PICK t \in 1 .. n : h[t] = i
            BY <1>5, <6>3
          <6>5. t = n
            <7>1. n \in 1 .. n /\ h[n] \in 1 .. i
              BY <1>5, <1>7, <5>2
            <7>2. ~(t < n)
              BY <1>5, <6>4, <7>1
            <7> QED BY <1>4, <7>2
          <6>6. r = n
            <7>1. g[m] = Walk(toks, n, d)
              BY <1>9, <3>2
            <7>2. Walk(toks, n, d).root = n /\ Walk(toks, r, d).root = r
              BY DEF Walk
            <7> QED BY <1>13, <7>1, <7>2
          <6> QED BY <1>7, <5>2, <6>4, <6>5, <6>6 DEF At
        <5> QED BY <5>1, <5>2
      <4> QED BY <4>2
    <3> QED BY <3>1, <3>2
  <2> HIDE DEF a
  <2>3. (i + 1) - 1 = i
    OBVIOUS
  <2> QED BY <2>1, <2>2, <2>3 DEF Above, a
<1> QED BY <1>3, <1>9, <1>13, <1>14

LEMMA LastChildIs ==
  ASSUME NEW toks, NEW n \in Nat, DOMAIN toks = 1 .. n, NEW r, NEW p, p = LastChild(toks, r)
  PROVE  \/ p = NoToken /\ Children(toks, r) = {}
         \/ p \in Children(toks, r) /\ \A c \in Children(toks, r) : c <= p
<1> DEFINE C == Children(toks, r)
<1>1. CASE C = {}
  BY <1>1 DEF LastChild
<1>2. CASE C # {}
  <2>1. C \subseteq 0 .. n
    BY DEF Children
  <2> HIDE DEF C
  <2>2. Max(C) \in C /\ \A c \in C : c <= Max(C)
    BY <1>2, <2>1, MaxIs
  <2>3. p = CHOOSE i \in C : \A c \in C : c <= i
    BY <1>2 DEF LastChild, C
  <2>4. p \in C /\ \A c \in C : c <= p
    BY <2>2, <2>3
  <2> QED BY <2>4 DEF C
<1> QED BY <1>1, <1>2

\* No two tokens are of one node.
LEMMA AtOnce ==
  ASSUME NEW nodes, NEW i \in Nat, NEW h, HeadsTo(nodes, i, h),
         NEW t \in 0 .. Len(h), NEW u \in 0 .. Len(h), At(h, t) = At(h, u)
  PROVE  t = u
<1>1. Len(h) \in Nat
  BY SeqParts DEF HeadsTo
<1>2. \A k \in 1 .. Len(h) : h[k] \in 1 .. i
  BY DEF HeadsTo
<1>3. CASE t = 0 \/ u = 0
  BY <1>1, <1>2, <1>3 DEF At
<1>4. CASE t # 0 /\ u # 0
  <2>1. t \in 1 .. Len(h) /\ u \in 1 .. Len(h) /\ h[t] = h[u] /\ h[t] \in Int
    BY <1>1, <1>2, <1>4 DEF At
  <2>2. ~(t < u) /\ ~(u < t)
    BY <2>1 DEF HeadsTo
  <2> QED BY <1>1, <2>2
<1> QED BY <1>3, <1>4

\* Two tokens whose nodes are under one node are under one token.
LEMMA OneParent ==
  ASSUME NEW nodes, Shape(nodes), NEW i \in Nat, i <= Len(nodes), NEW h, HeadsTo(nodes, i, h),
         NEW X, NEW toks, TokensTo(nodes, X, toks, h),
         NEW t \in 1 .. Len(h), NEW r \in 0 .. Len(h), Above(nodes, At(h, r), h[t])
  PROVE  toks[t].parent = r
<1>1. Len(h) \in Nat
  BY SeqParts DEF HeadsTo
<1>2. h[t] \in 1 .. Len(nodes)
  <2>1. h[t] \in 1 .. i
    BY DEF HeadsTo
  <2> QED BY <2>1 DEF Shape
<1> DEFINE p == toks[t].parent
<1>3. p \in 0 .. t - 1 /\ Above(nodes, At(h, p), h[t])
  BY DEF TokensTo
<1>4. p \in 0 .. Len(h)
  BY <1>1, <1>3
<1> HIDE DEF p
<1>5. At(h, p) = At(h, r)
  BY <1>2, <1>3, AboveOnce
<1>6. p = r
  BY <1>4, <1>5, AtOnce
<1> QED BY <1>6 DEF p

\* A text is never after a block of text.
Apart(nodes) ==
  \A i, j \in 1 .. Len(nodes) :
    (nodes[i].kind = "TextBlock" /\ nodes[j].kind = "Text" /\ nodes[i].d = nodes[j].d)
      => i > j \/ \E k \in i .. j : nodes[k].d < nodes[i].d

\* lastChild is a text exactly if it is the one that the next node continues.
LEMMA Before ==
  ASSUME NEW nodes, Shape(nodes), Leafs(nodes), Apart(nodes),
         NEW i \in Nat, i < Len(nodes), NEW h, HeadsTo(nodes, i, h),
         NEW X, NEW toks, TokensTo(nodes, X, toks, h),
         NEW r \in 0 .. Len(h), Above(nodes, At(h, r), i + 1), nodes[i + 1].kind = "Text",
         NEW p, p = LastChild(toks, r)
  PROVE  /\ Continues(nodes, i + 1) <=> (p # NoToken /\ toks[p].kind = "Text")
         /\ Continues(nodes, i + 1) => p = Len(h) /\ Len(h) >= 1
<1> DEFINE n == Len(h)
           a == At(h, r)
           e == nodes[i + 1].d
<1>1. n \in Nat /\ DOMAIN toks = 1 .. n
  <2>1. Len(h) \in Nat
    BY SeqParts DEF HeadsTo
  <2>2. toks \in Seq(Toks(nodes, X)) /\ Len(toks) = Len(h)
    BY DEF TokensTo
  <2>3. DOMAIN toks = 1 .. Len(toks)
    BY <2>2, SeqParts
  <2> QED BY <2>1, <2>2, <2>3
<1>2. /\ \A t \in 1 .. n : h[t] \in 1 .. i
      /\ \A t, u \in 1 .. n : t < u => h[t] < h[u]
      /\ \A j \in 1 .. i : Continues(nodes, j) \/ \E t \in 1 .. n : h[t] = j
      /\ \A t \in 1 .. n : \A j \in h[t] .. RunEnd(h, i, t) :
           nodes[j].d = nodes[h[t]].d /\ nodes[j].kind = nodes[h[t]].kind
  BY DEF HeadsTo
<1>3. i + 1 \in 1 .. Len(nodes) /\ (i + 1) - 1 = i /\ \A j \in 1 .. i : j \in 1 .. Len(nodes)
  BY DEF Shape
<1>4. e \in Nat /\ \A j \in 1 .. i : nodes[j].d \in Nat
  BY <1>3 DEF Shape
<1>5. a \in 0 .. i /\ DepthOf(nodes, a) = e - 1 /\ \A j \in a + 1 .. i : nodes[j].d >= e
  BY <1>3 DEF Above
<1>6. \A c : c \in Children(toks, r) <=> c \in 1 .. n /\ toks[c].parent = r
  BY <1>1 DEF Children
<1>7. \/ p = NoToken /\ \A c : c \notin Children(toks, r)
      \/ p \in Children(toks, r) /\ \A c \in Children(toks, r) : c <= p
  BY <1>1, LastChildIs
<1>8. \A t \in 1 .. n : toks[t].kind = TokenKind(nodes[h[t]].kind)
  BY DEF TokensTo
<1> HIDE DEF a, e
<1>9. ASSUME Continues(nodes, i + 1)
      PROVE  p = n /\ n >= 1 /\ p # NoToken /\ toks[p].kind = "Text"
  <2>1. i \in 1 .. i /\ nodes[i].kind = "Text" /\ nodes[i].d = e
    BY <1>3, <1>9 DEF Continues, e
  <2>2. n \in 1 .. n
    <3>1. 1 \in 1 .. i /\ ~Continues(nodes, 1)
      BY <2>1 DEF Continues
    <3> QED BY <1>1, <1>2, <3>1
  <2>3. h[n] \in 1 .. i /\ RunEnd(h, i, n) = i /\ i \in h[n] .. i
    BY <1>2, <2>2 DEF RunEnd
  <2>4. \A j \in h[n] .. i : nodes[j].d = nodes[h[n]].d /\ nodes[j].kind = nodes[h[n]].kind
    BY <1>2, <2>2, <2>3
  <2>5. nodes[h[n]].d = e /\ nodes[h[n]].kind = "Text"
    BY <2>1, <2>3, <2>4
  <2>6. a < h[n]
    <3>1. ~(a \in h[n] .. i)
      <4> SUFFICES ASSUME a \in h[n] .. i PROVE FALSE
        OBVIOUS
      <4>1. nodes[a].d = e /\ DepthOf(nodes, a) = nodes[a].d
        BY <2>3, <2>4, <2>5 DEF DepthOf
      <4> QED BY <1>4, <1>5, <4>1
    <3> QED BY <1>5, <2>3, <3>1
  <2>7. Above(nodes, At(h, r), h[n])
    <3>1. a \in 0 .. h[n] - 1 /\ \A j \in a + 1 .. h[n] - 1 : j \in a + 1 .. i
      BY <1>5, <2>3, <2>6
    <3>2. \A j \in a + 1 .. h[n] - 1 : nodes[j].d >= nodes[h[n]].d
      BY <1>5, <2>5, <3>1
    <3>3. Above(nodes, a, h[n])
      BY <1>5, <2>5, <3>1, <3>2 DEF Above
    <3> QED BY <3>3 DEF a
  <2>8. n \in Children(toks, r)
    <3>1. i <= Len(nodes)
      BY <1>3
    <3>2. toks[n].parent = r
      BY <2>2, <2>7, <3>1, OneParent
    <3> QED BY <1>6, <2>2, <3>2
  <2>9. p = n
    <3>1. p \in 1 .. n /\ n <= p
      BY <1>6, <1>7, <2>8
    <3> QED BY <1>1, <3>1
  <2>10. toks[n].kind = "Text"
    BY <1>8, <2>2, <2>5 DEF TokenKind
  <2>11. n # NoToken
    BY <2>2 DEF NoToken
  <2> QED BY <2>2, <2>9, <2>10, <2>11
<1>10. ASSUME p # NoToken, toks[p].kind = "Text"
       PROVE  Continues(nodes, i + 1)
  <2>1. p \in 1 .. n /\ toks[p].parent = r /\ \A c \in Children(toks, r) : c <= p
    BY <1>6, <1>7, <1>10
  <2>2. h[p] \in 1 .. i
    BY <1>2, <2>1
  <2>3. nodes[h[p]].kind \in {"Text", "TextBlock"}
    BY <1>8, <1>10, <2>1 DEF TokenKind
  <2>4. a \in 0 .. h[p] - 1 /\ nodes[h[p]].d = e
    <3>1. Above(nodes, a, h[p])
      BY <2>1 DEF TokensTo, a
    <3>2. a \in 0 .. h[p] - 1 /\ DepthOf(nodes, a) = nodes[h[p]].d - 1
      BY <3>1 DEF Above
    <3>3. DepthOf(nodes, a) = e - 1 /\ e \in Int /\ nodes[h[p]].d \in Int
      BY <1>4, <1>5, <2>2
    <3>4. \A x, y \in Int : x - 1 = y - 1 => x = y
      OBVIOUS
    <3>5. nodes[h[p]].d = e
      BY <3>2, <3>3, <3>4
    <3> QED BY <3>2, <3>5
  <2>5. \A j \in h[p] .. i + 1 : nodes[j].d >= e
    <3>1. \A j \in h[p] .. i + 1 : j \in a + 1 .. i \/ j = i + 1
      BY <1>5, <2>2, <2>4
    <3> QED BY <1>4, <1>5, <3>1 DEF e
  <2>6. nodes[h[p]].kind = "Text"
    <3> SUFFICES ASSUME nodes[h[p]].kind = "TextBlock" PROVE FALSE
      BY <2>3
    <3>1. h[p] \in 1 .. Len(nodes) /\ ~(h[p] > i + 1)
      BY <1>3, <2>2
    <3>2. nodes[h[p]].d = nodes[i + 1].d
      BY <2>4 DEF e
    <3>3. PICK k \in h[p] .. i + 1 : nodes[k].d < nodes[h[p]].d
      BY <1>3, <3>1, <3>2 DEF Apart
    <3>4. nodes[k].d < e /\ nodes[k].d >= e
      BY <2>4, <2>5, <3>3
    <3>5. nodes[k].d \in Nat
      <4>1. k \in 1 .. Len(nodes)
        BY <1>3, <2>2, <3>3
      <4> QED BY <4>1 DEF Shape
    <3> QED BY <1>4, <3>4, <3>5
  <2>7. p = n
    <3> SUFFICES ASSUME p # n PROVE FALSE
      OBVIOUS
    <3>1. p + 1 \in 1 .. n /\ p < p + 1
      BY <1>1, <2>1
    <3> DEFINE b == h[p + 1]
    <3>2. b \in 1 .. i /\ h[p] < b
      BY <1>2, <2>1, <3>1
    <3>3. RunEnd(h, i, p) = b - 1 /\ b - 1 \in h[p] .. b - 1
      <4>1. RunEnd(h, i, p) = b - 1
        BY <3>1 DEF RunEnd
      <4> QED BY <2>2, <3>2, <4>1
    <3> HIDE DEF b
    <3>4. nodes[b - 1].d = e /\ nodes[b - 1].kind = "Text"
      BY <1>2, <2>1, <2>4, <2>6, <3>3
    <3>5. nodes[b].d <= e
      <4>1. b - 1 \in 1 .. Len(nodes) - 1 /\ (b - 1) + 1 = b
        BY <1>3, <2>2, <3>2
      <4> QED BY <3>4, <4>1 DEF Leafs
    <3>6. nodes[b].d = e
      <4>1. b \in h[p] .. i + 1
        BY <2>2, <3>2
      <4> QED BY <1>4, <2>5, <3>2, <3>5, <4>1
    <3>7. Above(nodes, a, b)
      <4>1. a \in 0 .. b - 1 /\ \A j \in a + 1 .. b - 1 : j \in a + 1 .. i
        BY <2>2, <2>4, <3>2
      <4> QED BY <1>5, <3>6, <4>1 DEF Above
    <3>8. toks[p + 1].parent = r
      <4>1. i <= Len(nodes)
        BY <1>3
      <4>2. Above(nodes, At(h, r), h[p + 1])
        BY <3>7 DEF a, b
      <4> QED BY <3>1, <4>1, <4>2, OneParent
    <3>9. p + 1 <= p
      BY <1>6, <2>1, <3>1, <3>8
    <3> QED BY <2>1, <3>9
  <2>8. i \in h[p] .. RunEnd(h, i, p)
    BY <2>2, <2>7 DEF RunEnd
  <2>9. nodes[i].d = e /\ nodes[i].kind = "Text"
    BY <1>2, <2>1, <2>4, <2>6, <2>8
  <2> QED BY <1>3, <2>2, <2>9 DEF Continues, e
<1> QED BY <1>9, <1>10

\* The text that a node gives to its token.
TextOf(nodes, i) == IF nodes[i].kind \in WithText THEN NodeText(nodes, i) ELSE <<>>

LEMMA VisitIs ==
  ASSUME NEW toks, NEW n, NEW d, NEW r, NEW nodes, NEW i,
         LeaveAll(Walk(toks, n, d), d + 1 - nodes[i].d) = Walk(toks, r, d)
  PROVE  Visit(Walk(toks, n, d), nodes, i) = Enter(Walk(toks, r, d), nodes, i)
<1>1. /\ Walk(toks, n, d).stopped = FALSE /\ Walk(toks, n, d).skip = 0
      /\ Walk(toks, n, d).depth = d /\ Walk(toks, r, d).stopped = FALSE
  BY DEF Walk
<1> QED BY <1>1 DEF Visit

LEMMA EnterNew ==
  ASSUME NEW toks, NEW r, NEW d, NEW nodes, NEW i, nodes[i].kind \in KnownNodes,
         NEW p, p = LastChild(toks, r),
         ~(nodes[i].kind = "Text" /\ p # NoToken /\ toks[p].kind = "Text")
  PROVE  Enter(Walk(toks, r, d), nodes, i)
           = Walk(Append(toks, Token(TokenKind(nodes[i].kind), TextOf(nodes, i), nodes[i].attr, r)),
                  Len(toks) + 1, nodes[i].d)
<1> DEFINE k == 0
           f == FALSE
           e == nodes[i].d
           m == Len(toks) + 1
           tok == Token(TokenKind(nodes[i].kind), TextOf(nodes, i), nodes[i].attr, r)
           more == Append(toks, tok)
           w == [toks |-> toks, root |-> r, depth |-> d, skip |-> k, stopped |-> f]
           u == [toks |-> toks, root |-> r, depth |-> e, skip |-> k, stopped |-> f]
           v == [toks |-> more, root |-> r, depth |-> e, skip |-> k, stopped |-> f]
           x == [toks |-> more, root |-> m, depth |-> e, skip |-> k, stopped |-> f]
<1>1. Walk(toks, r, d) = w /\ Walk(more, m, e) = x
  BY DEF Walk
<1>2. Enter(w, nodes, i)
        = [[w EXCEPT !.depth = e, !.skip = k] EXCEPT !.toks = Append(@, tok), !.root = m]
  <2>1. w.toks = toks /\ w.root = r
    OBVIOUS
  <2> HIDE DEF w
  <2> QED BY <2>1 DEF Enter, TextOf
<1> HIDE DEF k, f, e, m, more
<1>3. [w EXCEPT !.depth = e, !.skip = k] = u
  <2>1. [w EXCEPT !.depth = e, !.skip = k] = [[w EXCEPT !.depth = e] EXCEPT !.skip = k]
    OBVIOUS
  <2>2. [w EXCEPT !.depth = e] = u
    OBVIOUS
  <2>3. [u EXCEPT !.skip = k] = u
    OBVIOUS
  <2> QED BY <2>1, <2>2, <2>3
<1>4. [u EXCEPT !.toks = Append(@, tok), !.root = m] = x
  <2>1. [u EXCEPT !.toks = Append(@, tok), !.root = m]
          = [[u EXCEPT !.toks = Append(@, tok)] EXCEPT !.root = m]
    OBVIOUS
  <2>2. [u EXCEPT !.toks = Append(@, tok)] = [u EXCEPT !.toks = more]
    BY DEF more
  <2>3. [u EXCEPT !.toks = more] = v
    OBVIOUS
  <2>4. [v EXCEPT !.root = m] = x
    OBVIOUS
  <2> HIDE DEF u, v, x, tok
  <2> QED BY <2>1, <2>2, <2>3, <2>4
<1> HIDE DEF w, u, x
<1>5. Enter(w, nodes, i) = x
  BY <1>2, <1>3, <1>4
<1>6. Enter(Walk(toks, r, d), nodes, i) = Walk(more, m, e)
  BY <1>1, <1>5
<1> QED BY <1>6 DEF more, m, e

\* A text goes into the text before it.
Lengthened(toks, p, text) == [toks EXCEPT ![p].text = @ \o text]

LEMMA EnterMore ==
  ASSUME NEW toks, NEW r, NEW d, NEW nodes, NEW i, nodes[i].kind = "Text",
         NEW p, p = LastChild(toks, r), p # NoToken, toks[p].kind = "Text"
  PROVE  Enter(Walk(toks, r, d), nodes, i)
           = Walk(Lengthened(toks, p, TextOf(nodes, i)), p, nodes[i].d)
<1> DEFINE k == 0
           f == FALSE
           e == nodes[i].d
           text == TextOf(nodes, i)
           more == Lengthened(toks, p, text)
           w == [toks |-> toks, root |-> r, depth |-> d, skip |-> k, stopped |-> f]
           u == [toks |-> toks, root |-> r, depth |-> e, skip |-> k, stopped |-> f]
           v == [toks |-> toks, root |-> p, depth |-> e, skip |-> k, stopped |-> f]
           x == [toks |-> more, root |-> p, depth |-> e, skip |-> k, stopped |-> f]
<1>1. Walk(toks, r, d) = w /\ Walk(more, p, e) = x
  BY DEF Walk
<1>2. Enter(w, nodes, i)
        = [[w EXCEPT !.depth = e, !.skip = k] EXCEPT !.root = p, !.toks[p].text = @ \o text]
  <2>1. w.toks = toks /\ w.root = r
    OBVIOUS
  <2> HIDE DEF w
  <2>2. nodes[i].kind \in KnownNodes
    BY DEF KnownNodes
  <2> QED BY <2>1, <2>2 DEF Enter, TextOf
<1> HIDE DEF k, f, e, more
<1>3. [w EXCEPT !.depth = e, !.skip = k] = u
  <2>1. [w EXCEPT !.depth = e, !.skip = k] = [[w EXCEPT !.depth = e] EXCEPT !.skip = k]
    OBVIOUS
  <2>2. [w EXCEPT !.depth = e] = u
    OBVIOUS
  <2>3. [u EXCEPT !.skip = k] = u
    OBVIOUS
  <2> QED BY <2>1, <2>2, <2>3
<1>4. [u EXCEPT !.root = p, !.toks[p].text = @ \o text] = x
  <2>1. [u EXCEPT !.root = p, !.toks[p].text = @ \o text]
          = [[u EXCEPT !.root = p] EXCEPT !.toks[p].text = @ \o text]
    OBVIOUS
  <2>2. [u EXCEPT !.root = p] = v
    OBVIOUS
  <2>3. [v EXCEPT !.toks[p].text = @ \o text] = [v EXCEPT !.toks = [v.toks EXCEPT ![p].text = @ \o text]]
    OBVIOUS
  <2>4. v.toks = toks
    OBVIOUS
  <2>5. [v EXCEPT !.toks = [v.toks EXCEPT ![p].text = @ \o text]] = [v EXCEPT !.toks = more]
    BY <2>4 DEF more, Lengthened
  <2>6. [v EXCEPT !.toks = more] = x
    OBVIOUS
  <2> HIDE DEF u, v, x, text
  <2> QED BY <2>1, <2>2, <2>3, <2>5, <2>6
<1> HIDE DEF w, u, x
<1>5. Enter(w, nodes, i) = x
  BY <1>2, <1>3, <1>4
<1>6. Enter(Walk(toks, r, d), nodes, i) = Walk(more, p, e)
  BY <1>1, <1>5
<1> QED BY <1>6 DEF e, more

LEMMA Kinds ==
  /\ TokenKind("Text") = "Text" /\ TokenKind("TextBlock") = "Text"
  /\ TokenKind("FencedCodeBlock") = "CodeBlock"
  /\ \A k : TokenKind(k) \in {"Text", "CodeBlock"}
       <=> k \in {"Text", "TextBlock", "FencedCodeBlock", "CodeBlock"}
BY DEF TokenKind

Texts(nodes, X) == \A i \in 1 .. Len(nodes) : nodes[i].text \in Seq(X)

LEMMA FlatSeq ==
  ASSUME NEW X, NEW n \in Nat, NEW f, f \in [1 .. n -> Seq(X)]
  PROVE  FlattenSeq(f) \in Seq(X)
<1>1. f \in Seq(Seq(X)) /\ Len(f) = n
  BY MapSeq
<1>2. PICK g : g[Len(f)] = FlattenSeq(f) /\ \A i \in 0 .. Len(f) : g[i] \in Seq(X)
  BY <1>1, Flattening
<1> QED BY <1>1, <1>2

LEMMA TextTyped ==
  ASSUME NEW nodes, NEW X, Shape(nodes), Texts(nodes, X), NEW i \in 1 .. Len(nodes)
  PROVE  /\ TextOf(nodes, i) \in Seq(X)
         /\ nodes[i].kind \in {"Text", "FencedCodeBlock"} /\ Below(nodes, i) = {}
              => TextOf(nodes, i) = nodes[i].text
         /\ nodes[i].kind = "TextBlock" /\ Below(nodes, i) = {} => TextOf(nodes, i) = nodes[i].text
<1>1. <<>> \in Seq(X) /\ nodes[i].text \in Seq(X)
  BY EmptySeq DEF Texts
<1>2. Below(nodes, i) = {} => NodeText(nodes, i) = nodes[i].text
  BY DEF NodeText
<1>3. NodeText(nodes, i) \in Seq(X)
  <2> DEFINE f == [k \in 1 .. Len(nodes) |-> IF k \in Below(nodes, i) THEN nodes[k].text ELSE <<>>]
  <2>1. f \in [1 .. Len(nodes) -> Seq(X)] /\ Len(nodes) \in Nat
    BY <1>1 DEF Texts, Shape
  <2> HIDE DEF f
  <2>2. FlattenSeq(f) \in Seq(X)
    BY <2>1, FlatSeq
  <2>3. Below(nodes, i) # {} => NodeText(nodes, i) = FlattenSeq(f)
    BY DEF NodeText, Concat, f
  <2> QED BY <1>1, <1>2, <2>2, <2>3
<1> QED BY <1>1, <1>2, <1>3 DEF TextOf, WithText

\* What has been read of the first i nodes, and what is in their tokens.
Read(nodes, j)         == IF nodes[j].kind \in {"Text", "FencedCodeBlock"} THEN nodes[j].text ELSE <<>>
Kept(nodes, toks, h, t) ==
  IF nodes[h[t]].kind \in {"Text", "FencedCodeBlock"} THEN toks[t].text ELSE <<>>
TextsTo(nodes, i, toks, h) ==
  /\ FlattenSeq([t \in 1 .. Len(h) |-> Kept(nodes, toks, h, t)])
       = FlattenSeq([j \in 1 .. i |-> Read(nodes, j)])
  /\ \A t \in 1 .. Len(h) :
       nodes[h[t]].kind = "TextBlock" /\ Below(nodes, h[t]) = {} => toks[t].text = <<>>

\* The leaves of a page have no nodes below, and a block of text no words of its own.
LeafsPlain(nodes) ==
  \A i \in 1 .. Len(nodes) :
    /\ nodes[i].kind \in {"Text", "FencedCodeBlock"} => Below(nodes, i) = {}
    /\ nodes[i].kind = "TextBlock" => nodes[i].text = <<>>

\* A token more.
LEMMA TokenAdded ==
  ASSUME NEW nodes, Shape(nodes), NEW i \in Nat, i < Len(nodes), NEW h, HeadsTo(nodes, i, h),
         NEW X, Texts(nodes, X), LeafsPlain(nodes), NEW toks, TokensTo(nodes, X, toks, h), TextsTo(nodes, i, toks, h),
         NEW r \in 0 .. Len(h), Above(nodes, At(h, r), i + 1),
         NEW h2, h2 = Append(h, i + 1), NEW toks2,
         toks2 = Append(toks, Token(TokenKind(nodes[i + 1].kind), TextOf(nodes, i + 1), nodes[i + 1].attr, r))
  PROVE  TokensTo(nodes, X, toks2, h2) /\ TextsTo(nodes, i + 1, toks2, h2)
<1> DEFINE n == Len(h)
           tok == Token(TokenKind(nodes[i + 1].kind), TextOf(nodes, i + 1), nodes[i + 1].attr, r)
<1>1. n \in Nat /\ h \in Seq(Nat) /\ \A t \in 1 .. n : h[t] \in 1 .. i
  BY SeqParts DEF HeadsTo
<1>2. i + 1 \in 1 .. Len(nodes)
  BY DEF Shape
<1>3. /\ h2 \in Seq(Nat) /\ Len(h2) = n + 1
      /\ (\A t \in 1 .. n : h2[t] = h[t]) /\ h2[n + 1] = i + 1
  BY <1>1, AppendProperties
<1>4. toks \in Seq(Toks(nodes, X)) /\ Len(toks) = n
  BY DEF TokensTo
<1>5. /\ tok.kind = TokenKind(nodes[i + 1].kind) /\ tok.text = TextOf(nodes, i + 1)
      /\ tok.attr = nodes[i + 1].attr /\ tok.parent = r
  BY DEF Token
<1>6. tok \in Toks(nodes, X)
  <2>1. TextOf(nodes, i + 1) \in Seq(X)
    BY <1>2, TextTyped
  <2>2. r \in Nat
    BY <1>1
  <2> QED BY <1>2, <2>1, <2>2 DEF Toks, Token
<1> HIDE DEF tok
<1>7. toks2 = Append(toks, tok)
  BY DEF tok
<1>8. /\ toks2 \in Seq(Toks(nodes, X)) /\ Len(toks2) = n + 1
      /\ (\A t \in 1 .. n : toks2[t] = toks[t]) /\ toks2[n + 1] = tok
  BY <1>4, <1>6, <1>7, AppendProperties
<1>9. \A t \in 1 .. n + 1 : t \in 1 .. n \/ t = n + 1
  BY <1>1
<1>10. \A t \in 0 .. n : At(h2, t) = At(h, t)
  BY <1>3 DEF At
<1>11. TokensTo(nodes, X, toks2, h2)
  <2>1. ASSUME NEW t \in 1 .. n + 1
        PROVE  toks2[t].kind = TokenKind(nodes[h2[t]].kind) /\ toks2[t].attr = nodes[h2[t]].attr
    <3>1. CASE t \in 1 .. n
      BY <1>3, <1>8, <3>1 DEF TokensTo
    <3>2. CASE t = n + 1
      BY <1>3, <1>5, <1>8, <3>2
    <3> QED BY <1>9, <3>1, <3>2
  <2>2. ASSUME NEW t \in 1 .. n + 1
        PROVE  toks2[t].parent \in 0 .. t - 1 /\ Above(nodes, At(h2, toks2[t].parent), h2[t])
    <3>1. CASE t \in 1 .. n
      <4>1. toks[t].parent \in 0 .. t - 1 /\ Above(nodes, At(h, toks[t].parent), h[t])
        BY <3>1 DEF TokensTo
      <4>2. toks[t].parent \in 0 .. n
        BY <1>1, <3>1, <4>1
      <4> QED BY <1>3, <1>8, <1>10, <3>1, <4>1, <4>2
    <3>2. CASE t = n + 1
      BY <1>1, <1>3, <1>5, <1>8, <1>10, <3>2
    <3> QED BY <1>9, <3>1, <3>2
  <2> QED BY <1>3, <1>8, <2>1, <2>2 DEF TokensTo
<1>12. TextsTo(nodes, i + 1, toks2, h2)
  <2> DEFINE f == [t \in 1 .. n + 1 |-> Kept(nodes, toks2, h2, t)]
             g == [j \in 1 .. i + 1 |-> Read(nodes, j)]
  <2>1. \A t \in 1 .. n : toks[t].text \in Seq(X)
    <3>1. \A t \in 1 .. n : toks[t] \in Toks(nodes, X)
      BY <1>4, SeqParts
    <3>2. \A x \in Toks(nodes, X) : x.text \in Seq(X)
      BY DEF Toks
    <3> QED BY <3>1, <3>2
  <2>2. \A t \in 1 .. n : Kept(nodes, toks2, h2, t) = Kept(nodes, toks, h, t)
    BY <1>3, <1>8 DEF Kept
  <2>3. Kept(nodes, toks2, h2, n + 1) = Read(nodes, i + 1)
    BY <1>2, <1>3, <1>5, <1>8, TextTyped DEF Kept, Read, LeafsPlain
  <2>4. \A j \in 1 .. i + 1 : Read(nodes, j) \in Seq(X)
    BY <1>2, EmptySeq DEF Read, Texts
  <2>5. \A t \in 1 .. n + 1 : Kept(nodes, toks2, h2, t) \in Seq(X)
    <3>1. \A t \in 1 .. n : Kept(nodes, toks, h, t) \in Seq(X)
      BY <2>1, EmptySeq DEF Kept
    <3>2. i + 1 \in 1 .. i + 1
      OBVIOUS
    <3> QED BY <1>9, <2>2, <2>3, <2>4, <3>1, <3>2
  <2>6. \A t \in 1 .. n + 1 : f[t] = Kept(nodes, toks2, h2, t)
    OBVIOUS
  <2>7. \A j \in 1 .. i + 1 : g[j] = Read(nodes, j)
    OBVIOUS
  <2>8. f = [t \in 1 .. n + 1 |-> f[t]] /\ g = [j \in 1 .. i + 1 |-> g[j]]
    OBVIOUS
  <2>9. [t \in 1 .. n |-> f[t]] = [t \in 1 .. n |-> Kept(nodes, toks, h, t)]
    <3>1. \A t \in 1 .. n : f[t] = Kept(nodes, toks, h, t)
      BY <1>1, <2>2
    <3> HIDE DEF f
    <3> QED BY <3>1
  <2>10. [j \in 1 .. i |-> g[j]] = [j \in 1 .. i |-> Read(nodes, j)]
    <3>1. \A j \in 1 .. i : g[j] = Read(nodes, j)
      OBVIOUS
    <3> HIDE DEF g
    <3> QED BY <3>1
  <2> HIDE DEF f, g
  <2>11. FlattenSeq(f) = FlattenSeq([t \in 1 .. n |-> f[t]]) \o f[n + 1]
    <3>1. \A t \in 1 .. n + 1 : f[t] \in Seq(X)
      BY <2>5, <2>6
    <3>2. FlattenSeq([t \in 1 .. n + 1 |-> f[t]]) = FlattenSeq([t \in 1 .. n |-> f[t]]) \o f[n + 1]
      BY <1>1, <3>1, FlatLast
    <3> QED BY <2>8, <3>2
  <2>12. FlattenSeq(g) = FlattenSeq([j \in 1 .. i |-> g[j]]) \o g[i + 1]
    <3>1. \A j \in 1 .. i + 1 : g[j] \in Seq(X)
      BY <2>4, <2>7
    <3>2. FlattenSeq([j \in 1 .. i + 1 |-> g[j]]) = FlattenSeq([j \in 1 .. i |-> g[j]]) \o g[i + 1]
      BY <3>1, FlatLast
    <3> QED BY <2>8, <3>2
  <2>13. f[n + 1] = g[i + 1]
    <3>1. n + 1 \in 1 .. n + 1 /\ i + 1 \in 1 .. i + 1
      BY <1>1
    <3> QED BY <2>3, <2>6, <2>7, <3>1
  <2>14. FlattenSeq(f) = FlattenSeq(g)
    BY <2>9, <2>10, <2>11, <2>12, <2>13 DEF TextsTo
  <2>15. ASSUME NEW t \in 1 .. n + 1, nodes[h2[t]].kind = "TextBlock", Below(nodes, h2[t]) = {}
         PROVE  toks2[t].text = <<>>
    <3>1. CASE t \in 1 .. n
      BY <1>3, <1>8, <2>15, <3>1 DEF TextsTo
    <3>2. CASE t = n + 1
      <4>1. TextOf(nodes, i + 1) = nodes[i + 1].text /\ nodes[i + 1].text = <<>>
        BY <1>2, <1>3, <2>15, <3>2, TextTyped DEF LeafsPlain
      <4> QED BY <1>5, <1>8, <3>2, <4>1
    <3> QED BY <1>9, <3>1, <3>2
  <2>16. f = [t \in 1 .. Len(h2) |-> Kept(nodes, toks2, h2, t)]
    BY <1>3 DEF f
  <2>17. g = [j \in 1 .. i + 1 |-> Read(nodes, j)]
    BY DEF g
  <2> QED BY <1>3, <2>14, <2>15, <2>16, <2>17 DEF TextsTo
<1> QED BY <1>11, <1>12

Same(s, t, u) == (s \o t) \o u = s \o (t \o u)
LEMMA Together == \A X : \A s, t, u \in Seq(X) : Same(s, t, u)
BY ConcatAssociative DEF Same

\* A text more in the last token.
LEMMA TextAdded ==
  ASSUME NEW nodes, Shape(nodes), NEW i \in Nat, i < Len(nodes), NEW h, HeadsTo(nodes, i, h),
         NEW X, Texts(nodes, X), LeafsPlain(nodes), NEW toks, TokensTo(nodes, X, toks, h),
         TextsTo(nodes, i, toks, h), Continues(nodes, i + 1), Len(h) >= 1
  PROVE  /\ TokensTo(nodes, X, Lengthened(toks, Len(h), TextOf(nodes, i + 1)), h)
         /\ TextsTo(nodes, i + 1, Lengthened(toks, Len(h), TextOf(nodes, i + 1)), h)
<1> DEFINE toks2 == Lengthened(toks, Len(h), TextOf(nodes, i + 1))
           n == Len(h)
           m == n - 1
           text == TextOf(nodes, i + 1)
<1>1. n \in Nat /\ n \in 1 .. n /\ m \in Nat /\ m + 1 = n
  <2>1. n \in Nat
    BY SeqParts DEF HeadsTo
  <2> QED BY <2>1
<1>2. i + 1 \in 1 .. Len(nodes) /\ i \in 1 .. i /\ (i + 1) - 1 = i /\ nodes[i + 1].kind = "Text"
      /\ nodes[i].kind = "Text"
  BY DEF Shape, Continues
<1>3. nodes[h[n]].kind = "Text"
  <2>1. h[n] \in 1 .. i /\ RunEnd(h, i, n) = i
    BY <1>1 DEF HeadsTo, RunEnd
  <2>2. i \in h[n] .. RunEnd(h, i, n)
    BY <2>1
  <2> QED BY <1>1, <1>2, <2>2 DEF HeadsTo
<1>4. toks \in Seq(Toks(nodes, X)) /\ Len(toks) = n
  BY DEF TokensTo
<1>5. /\ DOMAIN toks = 1 .. n /\ toks \in [1 .. n -> Toks(nodes, X)]
      /\ \A t \in 1 .. n : toks[t] \in Toks(nodes, X)
  BY <1>4, SeqParts
<1>6. text \in Seq(X) /\ text = nodes[i + 1].text
  BY <1>2, TextTyped DEF LeafsPlain
<1> HIDE DEF text, n, m
<1>7. toks2 = [toks EXCEPT ![n] = [toks[n] EXCEPT !.text = toks[n].text \o text]]
  BY DEF Lengthened, n, text
<1> HIDE DEF toks2
<1> DEFINE tok == [toks[n] EXCEPT !.text = toks[n].text \o text]
<1>8. toks[n].text \in Seq(X)
  <2>1. \A x \in Toks(nodes, X) : x.text \in Seq(X)
    BY DEF Toks
  <2> QED BY <1>1, <1>5, <2>1
<1>9. tok \in Toks(nodes, X) /\ tok.text = toks[n].text \o text
      /\ tok.kind = toks[n].kind /\ tok.attr = toks[n].attr /\ tok.parent = toks[n].parent
  <2>1. toks[n].text \o text \in Seq(X)
    BY <1>6, <1>8, ConcatProperties
  <2>2. toks[n] \in Toks(nodes, X)
    BY <1>1, <1>5
  <2> DEFINE more == toks[n].text \o text
  <2> HIDE DEF more
  <2>3. \A x \in Toks(nodes, X) :
          more \in Seq(X) => /\ [x EXCEPT !.text = more] \in Toks(nodes, X)
                             /\ [x EXCEPT !.text = more].text = more
                             /\ [x EXCEPT !.text = more].kind = x.kind
                             /\ [x EXCEPT !.text = more].attr = x.attr
                             /\ [x EXCEPT !.text = more].parent = x.parent
    BY DEF Toks
  <2> QED BY <2>1, <2>2, <2>3 DEF more
<1> HIDE DEF tok
<1>10. /\ toks2 \in [1 .. n -> Toks(nodes, X)] /\ toks2[n] = tok
       /\ \A t \in 1 .. n : t # n => toks2[t] = toks[t]
  <2>1. toks2 = [toks EXCEPT ![n] = tok]
    BY <1>7 DEF tok
  <2> QED BY <1>1, <1>5, <1>9, <2>1
<1>11. toks2 \in Seq(Toks(nodes, X)) /\ Len(toks2) = n
  BY <1>1, <1>10, MapSeq
<1>12. \A t \in 1 .. n : toks2[t].kind = toks[t].kind /\ toks2[t].attr = toks[t].attr
                         /\ toks2[t].parent = toks[t].parent
  BY <1>9, <1>10
<1>13. TokensTo(nodes, X, toks2, h)
  BY <1>11, <1>12 DEF TokensTo, n
<1>14. TextsTo(nodes, i + 1, toks2, h)
  <2> DEFINE f == [t \in 1 .. n |-> Kept(nodes, toks, h, t)]
             f2 == [t \in 1 .. n |-> Kept(nodes, toks2, h, t)]
             g == [j \in 1 .. i |-> Read(nodes, j)]
             g2 == [j \in 1 .. i + 1 |-> Read(nodes, j)]
             A == FlattenSeq([t \in 1 .. m |-> f[t]])
  <2>1. \A t \in 1 .. n : Kept(nodes, toks, h, t) \in Seq(X) /\ Kept(nodes, toks2, h, t) \in Seq(X)
    <3>1. \A x \in Toks(nodes, X) : x.text \in Seq(X)
      BY DEF Toks
    <3>2. \A t \in 1 .. n : toks[t].text \in Seq(X) /\ toks2[t].text \in Seq(X)
      BY <1>5, <1>10, <3>1
    <3> QED BY <3>2, EmptySeq DEF Kept
  <2>2. \A t \in 1 .. n : f[t] = Kept(nodes, toks, h, t) /\ f2[t] = Kept(nodes, toks2, h, t)
    OBVIOUS
  <2>3. (\A j \in 1 .. i + 1 : g2[j] = Read(nodes, j)) /\ (\A j \in 1 .. i : g2[j] = g[j])
    OBVIOUS
  <2>4. /\ f = [t \in 1 .. m + 1 |-> f[t]] /\ f2 = [t \in 1 .. m + 1 |-> f2[t]]
        /\ g2 = [j \in 1 .. i + 1 |-> g2[j]] /\ g = [j \in 1 .. i |-> g[j]]
    BY <1>1
  <2>5. \A j \in 1 .. i + 1 : Read(nodes, j) \in Seq(X)
    BY <1>2, EmptySeq DEF Read, Texts, Shape
  <2> HIDE DEF f, f2, g, g2
  <2>6. \A t \in 1 .. m : f2[t] = f[t]
    <3>1. \A t \in 1 .. m : t \in 1 .. n /\ t # n
      BY <1>1
    <3> QED BY <1>10, <2>2, <3>1 DEF Kept
  <2>7. [t \in 1 .. m |-> f2[t]] = [t \in 1 .. m |-> f[t]]
    BY <2>6
  <2>8. A \in Seq(X) /\ FlattenSeq(f) = A \o f[n]
    <3>1. \A t \in 1 .. m + 1 : f[t] \in Seq(X)
      BY <1>1, <2>1, <2>2
    <3>2. A \in Seq(X) /\ FlattenSeq([t \in 1 .. m + 1 |-> f[t]]) = A \o f[m + 1]
      BY <1>1, <3>1, FlatLast
    <3> QED BY <1>1, <2>4, <3>2
  <2>9. FlattenSeq(f2) = A \o f2[n]
    <3>1. \A t \in 1 .. m + 1 : f2[t] \in Seq(X)
      BY <1>1, <2>1, <2>2
    <3>2. FlattenSeq([t \in 1 .. m + 1 |-> f2[t]]) = FlattenSeq([t \in 1 .. m |-> f2[t]]) \o f2[m + 1]
      BY <1>1, <3>1, FlatLast
    <3> QED BY <1>1, <2>4, <2>7, <3>2
  <2>10. FlattenSeq(g2) = FlattenSeq(g) \o g2[i + 1]
    <3>1. \A j \in 1 .. i + 1 : g2[j] \in Seq(X)
      BY <2>3, <2>5
    <3>2. FlattenSeq([j \in 1 .. i + 1 |-> g2[j]]) = FlattenSeq([j \in 1 .. i |-> g2[j]]) \o g2[i + 1]
      BY <3>1, FlatLast
    <3>3. [j \in 1 .. i |-> g2[j]] = [j \in 1 .. i |-> g[j]]
      BY <2>3
    <3> QED BY <2>4, <3>2, <3>3
  <2>11. f[n] = toks[n].text /\ f2[n] = toks[n].text \o text
    BY <1>1, <1>3, <1>9, <1>10, <2>2 DEF Kept
  <2>12. g2[i + 1] = text
    <3>1. i + 1 \in 1 .. i + 1
      OBVIOUS
    <3> QED BY <1>2, <1>6, <2>3, <3>1 DEF Read
  <2> HIDE DEF A
  <2>13. (A \o toks[n].text) \o text = A \o (toks[n].text \o text)
    <3>1. Same(A, toks[n].text, text)
      BY <1>6, <1>8, <2>8, Together
    <3> QED BY <3>1 DEF Same
  <2>14. FlattenSeq(f) = FlattenSeq(g)
    BY DEF TextsTo, f, g, n
  <2>15. FlattenSeq(f2) = FlattenSeq(g2)
    BY <2>8, <2>9, <2>10, <2>11, <2>12, <2>13, <2>14
  <2>16. \A t \in 1 .. n : nodes[h[t]].kind = "TextBlock" /\ Below(nodes, h[t]) = {} => toks2[t].text = <<>>
    <3>1. \A t \in 1 .. n : nodes[h[t]].kind = "TextBlock" => t # n
      BY <1>3
    <3> QED BY <1>10, <3>1 DEF TextsTo, n
  <2> QED BY <2>15, <2>16 DEF TextsTo, f2, g2, n
<1> QED BY <1>13, <1>14 DEF toks2

\* What convert has made of the first i nodes.
Walked(nodes, X, i, w, h) ==
  \E toks : /\ w = Walk(toks, Len(h), DepthOf(nodes, i))
            /\ HeadsTo(nodes, i, h) /\ TokensTo(nodes, X, toks, h) /\ TextsTo(nodes, i, toks, h)

LEMMA OneVisit ==
  ASSUME NEW nodes, Shape(nodes), Leafs(nodes), Apart(nodes), LeafsPlain(nodes),
         NEW X, Texts(nodes, X), NEW i \in Nat, i < Len(nodes), nodes[i + 1].kind \in KnownNodes,
         NEW w, NEW h, Walked(nodes, X, i, w, h)
  PROVE  Walked(nodes, X, i + 1, Visit(w, nodes, i + 1),
                IF Continues(nodes, i + 1) THEN h ELSE Append(h, i + 1))
<1>1. PICK toks : /\ w = Walk(toks, Len(h), DepthOf(nodes, i))
                  /\ HeadsTo(nodes, i, h) /\ TokensTo(nodes, X, toks, h) /\ TextsTo(nodes, i, toks, h)
  BY DEF Walked
<1> DEFINE d == DepthOf(nodes, i)
           e == nodes[i + 1].d
           h2 == IF Continues(nodes, i + 1) THEN h ELSE Append(h, i + 1)
<1>2. i + 1 # 0 /\ DepthOf(nodes, i + 1) = e
  BY DEF DepthOf
<1>3. PICK r \in 0 .. Len(h) : /\ LeaveAll(Walk(toks, Len(h), d), d + 1 - e) = Walk(toks, r, d)
                               /\ Above(nodes, At(h, r), i + 1)
  BY <1>1, Climb
<1>4. Visit(w, nodes, i + 1) = Enter(Walk(toks, r, d), nodes, i + 1)
  BY <1>1, <1>3, VisitIs
<1>5. HeadsTo(nodes, i + 1, h2)
  BY <1>1, HeadStep
<1> DEFINE p == LastChild(toks, r)
<1> HIDE DEF p, d
<1>6. p = LastChild(toks, r)
  BY DEF p
<1>7. CASE Continues(nodes, i + 1)
  <2>1. nodes[i + 1].kind = "Text"
    BY <1>7 DEF Continues
  <2>2. p = Len(h) /\ Len(h) >= 1
    BY <1>1, <1>3, <1>6, <1>7, <2>1, Before
  <2>3. p # NoToken /\ toks[p].kind = "Text"
    BY <1>1, <1>3, <1>6, <1>7, <2>1, Before
  <2> DEFINE toks2 == Lengthened(toks, p, TextOf(nodes, i + 1))
  <2>4. Visit(w, nodes, i + 1) = Walk(toks2, Len(h), e)
    <3>1. Enter(Walk(toks, r, d), nodes, i + 1) = Walk(toks2, p, e)
      BY <1>6, <2>1, <2>3, EnterMore
    <3> QED BY <1>4, <2>2, <3>1
  <2>5. TokensTo(nodes, X, toks2, h) /\ TextsTo(nodes, i + 1, toks2, h)
    BY <1>1, <1>7, <2>2, TextAdded
  <2> HIDE DEF toks2
  <2>6. h2 = h
    BY <1>7
  <2>7. Walked(nodes, X, i + 1, Visit(w, nodes, i + 1), h)
    BY <1>2, <1>5, <2>4, <2>5, <2>6 DEF Walked
  <2> QED BY <2>6, <2>7
<1>8. CASE ~Continues(nodes, i + 1)
  <2>1. ~(nodes[i + 1].kind = "Text" /\ p # NoToken /\ toks[p].kind = "Text")
    BY <1>1, <1>3, <1>6, <1>8, Before
  <2> DEFINE toks2 == Append(toks, Token(TokenKind(nodes[i + 1].kind), TextOf(nodes, i + 1),
                                         nodes[i + 1].attr, r))
  <2>2. Visit(w, nodes, i + 1) = Walk(toks2, Len(toks) + 1, e)
    BY <1>4, <1>6, <2>1, EnterNew
  <2>3. h2 = Append(h, i + 1)
    BY <1>8
  <2> HIDE DEF h2
  <2>4. TokensTo(nodes, X, toks2, h2) /\ TextsTo(nodes, i + 1, toks2, h2)
    BY <1>1, <1>3, <2>3, TokenAdded
  <2>5. Len(h2) = Len(toks) + 1
    <3>1. h \in Seq(Nat) /\ Len(toks) = Len(h)
      BY <1>1 DEF HeadsTo, TokensTo
    <3>2. Len(Append(h, i + 1)) = Len(h) + 1
      BY <3>1, AppendProperties
    <3> QED BY <2>3, <3>1, <3>2
  <2> HIDE DEF toks2
  <2>6. Walked(nodes, X, i + 1, Visit(w, nodes, i + 1), h2)
    BY <1>2, <1>5, <2>2, <2>4, <2>5 DEF Walked
  <2> QED BY <2>6 DEF h2
<1> QED BY <1>7, <1>8

LEMMA WholeWalk ==
  ASSUME NEW nodes, Shape(nodes), Leafs(nodes), Apart(nodes), LeafsPlain(nodes),
         NEW X, Texts(nodes, X), \A i \in 1 .. Len(nodes) : nodes[i].kind \in KnownNodes
  PROVE  \E w : /\ Convert(nodes) = Fix(w.toks)
                /\ Walked(nodes, X, Len(nodes), w, Heads(nodes))
<1> DEFINE n == Len(nodes)
<1>1. n \in Nat
  BY DEF Shape
<1>2. PICK g : /\ g[0] = WalkStart /\ Convert(nodes) = Fix(g[n].toks)
               /\ \A i \in 1 .. n : g[i] = Visit(g[i - 1], nodes, i)
  BY <1>1, Visits
<1>3. PICK h : /\ h[0] = <<>> /\ h[n] = Heads(nodes)
               /\ \A i \in 1 .. n : h[i] = IF Continues(nodes, i) THEN h[i - 1] ELSE Append(h[i - 1], i)
  BY <1>1, HeadsAre
<1> HIDE DEF n
<1> DEFINE T == {i \in Nat : i <= n => Walked(nodes, X, i, g[i], h[i])}
<1>4. 0 \in T
  <2>1. Len(<<>>) = 0 /\ <<>> \in Seq(Nat) /\ <<>> \in Seq(Toks(nodes, X)) /\ 1 .. 0 = {}
    BY EmptySeq
  <2>2. g[0] = Walk(<<>>, Len(<<>>), DepthOf(nodes, 0))
    BY <1>2, <2>1 DEF WalkStart, Walk, DepthOf
  <2>3. HeadsTo(nodes, 0, <<>>)
    BY <2>1 DEF HeadsTo
  <2>4. TokensTo(nodes, X, <<>>, <<>>)
    BY <2>1 DEF TokensTo
  <2>5. TextsTo(nodes, 0, <<>>, <<>>)
    <3>1. [t \in 1 .. Len(<<>>) |-> Kept(nodes, <<>>, <<>>, t)] = [j \in 1 .. 0 |-> Read(nodes, j)]
      BY <2>1
    <3> QED BY <2>1, <3>1 DEF TextsTo
  <2>6. Walked(nodes, X, 0, g[0], <<>>)
    BY <2>2, <2>3, <2>4, <2>5 DEF Walked
  <2> QED BY <1>3, <2>6
<1>5. ASSUME NEW i \in Nat, i \in T PROVE i + 1 \in T
  <2> SUFFICES ASSUME i + 1 <= n PROVE Walked(nodes, X, i + 1, g[i + 1], h[i + 1])
    OBVIOUS
  <2>1. i + 1 \in 1 .. n /\ (i + 1) - 1 = i /\ i < n
    BY <1>1 DEF n
  <2>2. Walked(nodes, X, i, g[i], h[i])
    BY <1>1, <1>5, <2>1
  <2>3. /\ g[i + 1] = Visit(g[i], nodes, i + 1)
        /\ h[i + 1] = IF Continues(nodes, i + 1) THEN h[i] ELSE Append(h[i], i + 1)
    BY <1>2, <1>3, <2>1
  <2>4. nodes[i + 1].kind \in KnownNodes
    BY <2>1 DEF n
  <2>5. Walked(nodes, X, i + 1, Visit(g[i], nodes, i + 1),
               IF Continues(nodes, i + 1) THEN h[i] ELSE Append(h[i], i + 1))
    <3>1. i < Len(nodes)
      BY <2>1 DEF n
    <3> QED BY <2>2, <2>4, <3>1, OneVisit
  <2> QED BY <2>3, <2>5
<1> HIDE DEF T
<1>6. n \in T
  <2>1. Nat \subseteq T
    BY <1>4, <1>5, Induction
  <2> QED BY <1>1, <2>1 DEF n
<1>7. Walked(nodes, X, n, g[n], h[n])
  BY <1>1, <1>6 DEF T, n
<1> QED BY <1>2, <1>3, <1>7 DEF n

\* Texts and code have no tokens below, and a block of text that has nodes below
\* has tokens below.
LEMMA TokensBelow ==
  ASSUME NEW nodes, Shape(nodes), Leafs(nodes),
         NEW h, HeadsTo(nodes, Len(nodes), h), NEW X, NEW toks, TokensTo(nodes, X, toks, h),
         NEW t \in 1 .. Len(h)
  PROVE  /\ nodes[h[t]].kind \in {"Text", "FencedCodeBlock"} => Children(toks, t) = {}
         /\ nodes[h[t]].kind = "TextBlock" /\ Below(nodes, h[t]) # {} => Children(toks, t) # {}
<1> DEFINE n == Len(nodes)
           a == h[t]
<1>1. n \in Nat /\ DOMAIN nodes = 1 .. n /\ DOMAIN toks = 1 .. Len(h)
  <2>1. toks \in Seq(Toks(nodes, X)) /\ Len(toks) = Len(h)
    BY DEF TokensTo
  <2>2. DOMAIN toks = 1 .. Len(toks)
    BY <2>1, SeqParts
  <2> QED BY <2>1, <2>2 DEF Shape
<1>2. Len(h) \in Nat
  BY SeqParts DEF HeadsTo
<1>3. /\ \A u \in 1 .. Len(h) : h[u] \in 1 .. n
      /\ \A j \in 1 .. n : Continues(nodes, j) \/ \E u \in 1 .. Len(h) : h[u] = j
  BY DEF HeadsTo
<1>4. \A j \in 1 .. n : nodes[j].d \in Nat
  BY DEF Shape
<1>5. a \in 1 .. n /\ At(h, t) = a /\ t # 0
  BY <1>3 DEF At
<1> HIDE DEF n, a
<1>6. ASSUME nodes[a].kind \in {"Text", "FencedCodeBlock"}, NEW u \in Children(toks, t)
      PROVE  FALSE
  <2>1. u \in 1 .. Len(h) /\ toks[u].parent = t
    BY <1>1 DEF Children
  <2> DEFINE b == h[u]
  <2>2. b \in 1 .. n /\ Above(nodes, a, b)
    BY <1>3, <1>5, <2>1 DEF TokensTo
  <2> HIDE DEF b
  <2>3. a \in 0 .. b - 1 /\ nodes[a].d = nodes[b].d - 1
        /\ \A j \in a + 1 .. b - 1 : nodes[j].d >= nodes[b].d
    BY <1>5, <2>2 DEF Above, DepthOf
  <2>4. a \in 1 .. n - 1 /\ a + 1 \in 1 .. n
    BY <1>1, <1>5, <2>2, <2>3
  <2>5. nodes[a + 1].d <= nodes[a].d
    BY <1>6, <2>4 DEF Leafs, n
  <2>6. a + 1 = b \/ a + 1 \in a + 1 .. b - 1
    BY <1>1, <1>5, <2>2, <2>3
  <2>7. nodes[a + 1].d >= nodes[b].d
    BY <1>4, <2>2, <2>3, <2>6
  <2> QED BY <1>4, <1>5, <2>2, <2>3, <2>4, <2>5, <2>7
<1>7. ASSUME nodes[a].kind = "TextBlock", Below(nodes, a) # {}
      PROVE  Children(toks, t) # {}
  <2>1. PICK j \in 1 .. n : j > a /\ \A k \in a + 1 .. j : nodes[k].d > nodes[a].d
    BY <1>1, <1>7 DEF Below
  <2> DEFINE b == a + 1
  <2>2. b \in 1 .. n /\ b \in a + 1 .. j /\ b - 1 = a /\ b - 1 # 0
    BY <1>1, <1>5, <2>1
  <2>3. nodes[b].d > nodes[a].d /\ nodes[b].d <= 1 + nodes[a].d
    <3>1. nodes[b].d <= 1 + DepthOf(nodes, b - 1)
      BY <2>2 DEF Shape, n
    <3> QED BY <2>1, <2>2, <3>1 DEF DepthOf
  <2>4. Above(nodes, a, b)
    <3>1. nodes[a].d = nodes[b].d - 1
      BY <1>4, <1>5, <2>2, <2>3
    <3>2. DepthOf(nodes, a) = nodes[a].d /\ a \in 0 .. b - 1
      BY <1>5 DEF DepthOf
    <3>3. \A k \in a + 1 .. b - 1 : FALSE
      BY <1>5
    <3> QED BY <3>1, <3>2, <3>3 DEF Above
  <2>5. ~Continues(nodes, b)
    BY <1>7, <2>2 DEF Continues
  <2>6. PICK u \in 1 .. Len(h) : h[u] = b
    BY <1>3, <2>2, <2>5
  <2>7. toks[u].parent = t
    <3>1. t \in 0 .. Len(h) /\ n \in Nat /\ n <= Len(nodes)
      BY <1>1 DEF n
    <3>2. Above(nodes, At(h, t), h[u]) /\ HeadsTo(nodes, n, h)
      BY <1>5, <2>4, <2>6 DEF n
    <3> QED BY <3>1, <3>2, OneParent
  <2>8. u \in Children(toks, t)
    BY <1>1, <2>7 DEF Children
  <2> QED BY <2>8
<1>8. a = h[t]
  BY DEF a
<1> QED BY <1>6, <1>7, <1>8

LEMMA Rendered ==
  ASSUME NEW nodes, Shape(nodes), Leafs(nodes),
         \A i \in 1 .. Len(nodes) : nodes[i].kind \in KnownNodes,
         NEW X, NEW toks, NEW h, h = Heads(nodes),
         HeadsTo(nodes, Len(nodes), h), TokensTo(nodes, X, toks, h), TextsTo(nodes, Len(nodes), toks, h)
  PROVE  Renders(Fix(toks), nodes)
<1> DEFINE n == Len(nodes)
           m == Len(h)
           fixed == Fix(toks)
<1>1. n \in Nat /\ DOMAIN nodes = 1 .. n
  BY DEF Shape
<1>2. m \in Nat /\ DOMAIN h = 1 .. m /\ \A t \in 1 .. m : h[t] \in 1 .. n
  <2>1. h \in Seq(Nat)
    BY DEF HeadsTo
  <2> QED BY <2>1, SeqParts DEF HeadsTo
<1>3. DOMAIN toks = 1 .. m /\ \A t \in 1 .. m : toks[t] \in Toks(nodes, X)
  <2>1. toks \in Seq(Toks(nodes, X)) /\ Len(toks) = m
    BY DEF TokensTo
  <2> QED BY <2>1, SeqParts
<1>4. \A t \in 1 .. m : /\ toks[t].kind = TokenKind(nodes[h[t]].kind)
                        /\ toks[t].attr = nodes[h[t]].attr
                        /\ toks[t].parent \in 0 .. t - 1
                        /\ Above(nodes, At(h, toks[t].parent), h[t])
  BY DEF TokensTo
<1>5. \A t \in 1 .. m : nodes[h[t]].kind \in KnownNodes
  BY <1>2
<1>6. DOMAIN fixed = 1 .. m
  BY <1>3 DEF Fix
<1>7. ASSUME NEW t \in 1 .. m
      PROVE  /\ fixed[t].kind = toks[t].kind /\ fixed[t].attr = toks[t].attr
             /\ fixed[t].parent = toks[t].parent
             /\ fixed[t].text = IF toks[t].kind = "Text" /\ Children(toks, t) # {} THEN <<>> ELSE toks[t].text
  <2>1. fixed[t] = IF toks[t].kind = "Text" /\ Children(toks, t) # {}
                   THEN [toks[t] EXCEPT !.text = <<>>] ELSE toks[t]
    BY <1>3 DEF Fix
  <2>2. \A x \in Toks(nodes, X) :
          /\ [x EXCEPT !.text = <<>>].kind = x.kind /\ [x EXCEPT !.text = <<>>].attr = x.attr
          /\ [x EXCEPT !.text = <<>>].parent = x.parent /\ [x EXCEPT !.text = <<>>].text = <<>>
    BY DEF Toks
  <2> HIDE DEF fixed
  <2>3. CASE toks[t].kind = "Text" /\ Children(toks, t) # {}
    <3>1. fixed[t] = [toks[t] EXCEPT !.text = <<>>] /\ toks[t] \in Toks(nodes, X)
      BY <1>3, <2>1, <2>3
    <3> QED BY <2>2, <2>3, <3>1
  <2>4. CASE ~(toks[t].kind = "Text" /\ Children(toks, t) # {})
    <3>1. fixed[t] = toks[t]
      BY <2>1, <2>4
    <3> QED BY <2>4, <3>1
  <2> QED BY <2>3, <2>4
<1> HIDE DEF fixed, n, m
<1>8. Words(fixed) = NodeWords(nodes)
  <2>1. ASSUME NEW t \in 1 .. m
        PROVE  (IF fixed[t].kind \in {"Text", "CodeBlock"} THEN fixed[t].text ELSE <<>>)
                 = Kept(nodes, toks, h, t)
    <3>1. /\ nodes[h[t]].kind \in {"Text", "FencedCodeBlock"} => Children(toks, t) = {}
          /\ nodes[h[t]].kind = "TextBlock" /\ Below(nodes, h[t]) # {} => Children(toks, t) # {}
      BY TokensBelow DEF m
    <3>2. nodes[h[t]].kind # "CodeBlock"
      BY <1>5 DEF KnownNodes
    <3>3. fixed[t].kind = TokenKind(nodes[h[t]].kind) /\ toks[t].kind = TokenKind(nodes[h[t]].kind)
      BY <1>4, <1>7
    <3>4. CASE nodes[h[t]].kind \in {"Text", "FencedCodeBlock"}
      <4>1. fixed[t].text = toks[t].text
        BY <1>7, <3>1, <3>4
      <4>2. fixed[t].kind \in {"Text", "CodeBlock"}
        BY <3>3, <3>4, Kinds
      <4> QED BY <3>4, <4>1, <4>2 DEF Kept
    <3>5. CASE nodes[h[t]].kind = "TextBlock"
      <4>1. toks[t].kind = "Text" /\ fixed[t].kind = "Text"
        BY <3>3, <3>5, Kinds
      <4>2. Below(nodes, h[t]) = {} => toks[t].text = <<>>
        BY <3>5 DEF TextsTo, m
      <4>3. fixed[t].text = <<>>
        BY <1>7, <3>1, <3>5, <4>1, <4>2
      <4> QED BY <3>5, <4>1, <4>3 DEF Kept
    <3>6. CASE nodes[h[t]].kind \notin {"Text", "FencedCodeBlock", "TextBlock"}
      <4>1. fixed[t].kind \notin {"Text", "CodeBlock"}
        BY <3>2, <3>3, <3>6, Kinds
      <4> QED BY <3>6, <4>1 DEF Kept
    <3> QED BY <3>4, <3>5, <3>6
  <2>2. [t \in 1 .. m |-> IF fixed[t].kind \in {"Text", "CodeBlock"} THEN fixed[t].text ELSE <<>>]
          = [t \in 1 .. m |-> Kept(nodes, toks, h, t)]
    BY <2>1
  <2>3. Words(fixed) = FlattenSeq([t \in 1 .. m |-> Kept(nodes, toks, h, t)])
    BY <1>6, <2>2 DEF Words, Concat
  <2>4. NodeWords(nodes) = FlattenSeq([j \in 1 .. n |-> Read(nodes, j)])
    BY <1>1 DEF NodeWords, Concat, Read
  <2>5. FlattenSeq([t \in 1 .. m |-> Kept(nodes, toks, h, t)]) = FlattenSeq([j \in 1 .. n |-> Read(nodes, j)])
    BY DEF TextsTo, m, n
  <2> QED BY <2>3, <2>4, <2>5
<1> DEFINE token(j) == IF j = 0 THEN 0 ELSE CHOOSE t \in DOMAIN h : h[t] = j
<1>9. ASSUME NEW t \in 1 .. m
      PROVE  token(Over(nodes, h[t])) = toks[t].parent
  <2> DEFINE p == toks[t].parent
  <2>1. p \in 0 .. t - 1 /\ Above(nodes, At(h, p), h[t])
    BY <1>4
  <2> HIDE DEF p
  <2>2. Over(nodes, h[t]) = At(h, p)
    <3>1. h[t] \in 1 .. Len(nodes)
      BY <1>2 DEF n
    <3> QED BY <2>1, <3>1, OverIs
  <2>3. CASE p = 0
    BY <2>2, <2>3 DEF At, p
  <2>4. CASE p # 0
    <3>1. p \in 1 .. m
      BY <1>2, <2>1, <2>4
    <3>2. At(h, p) = h[p] /\ h[p] # 0
      BY <1>2, <2>4, <3>1 DEF At
    <3>3. \A u \in 1 .. m : h[u] = h[p] => u = p
      <4> SUFFICES ASSUME NEW u \in 1 .. m, h[u] = h[p] PROVE u = p
        OBVIOUS
      <4>1. At(h, u) = At(h, p) /\ u \in 0 .. m /\ p \in 0 .. m
        BY <3>1, <1>2 DEF At
      <4> QED BY <1>1, <4>1, AtOnce DEF m, n
    <3>4. (CHOOSE u \in 1 .. m : h[u] = h[p]) = p
      BY <3>1, <3>3
    <3>5. token(h[p]) = p
      BY <1>2, <3>2, <3>4
    <3> QED BY <2>2, <3>2, <3>5 DEF p
  <2> QED BY <2>3, <2>4
<1>10. [t \in 1 .. m |-> <<fixed[t].kind, fixed[t].attr, fixed[t].parent>>]
         = [t \in 1 .. m |-> <<TokenKind(nodes[h[t]].kind), nodes[h[t]].attr, token(Over(nodes, h[t]))>>]
  <2> HIDE DEF token
  <2> QED BY <1>4, <1>7, <1>9
<1>11. Outline(fixed)
         = [tokens |-> [t \in 1 .. m |-> <<fixed[t].kind, fixed[t].attr, fixed[t].parent>>],
            words |-> Words(fixed)]
  BY <1>6 DEF Outline
<1>12. OutlineOf(nodes)
         = [tokens |-> [t \in 1 .. m |-> <<TokenKind(nodes[h[t]].kind), nodes[h[t]].attr,
                                           token(Over(nodes, h[t]))>>],
            words |-> NodeWords(nodes)]
  BY <1>2 DEF OutlineOf
<1> HIDE DEF token
<1>13. Outline(fixed) = OutlineOf(nodes)
  BY <1>8, <1>10, <1>11, <1>12
<1> QED BY <1>13 DEF Renders, fixed

LEMMA PageParts ==
  ASSUME NEW nodes, IsPage(nodes)
  PROVE  /\ Shape(nodes) /\ Leafs(nodes) /\ Apart(nodes) /\ LeafsPlain(nodes)
         /\ \E X : Texts(nodes, X)
<1>1. Len(nodes) \in Nat /\ DOMAIN nodes = 1 .. Len(nodes)
  BY SeqParts DEF IsPage
<1>2. \A i \in 1 .. Len(nodes) : nodes[i].d \in Nat /\ nodes[i].d >= 1
  BY <1>1 DEF IsPage, IsTree
<1>3. Shape(nodes)
  <2>1. \A i \in 1 .. Len(nodes) : nodes[i].d <= 1 + DepthOf(nodes, i - 1)
    <3> SUFFICES ASSUME NEW i \in 1 .. Len(nodes) PROVE nodes[i].d <= 1 + DepthOf(nodes, i - 1)
      OBVIOUS
    <3>1. nodes[i].d <= 1 + (IF i = 1 THEN 0 ELSE nodes[i - 1].d)
      BY <1>1 DEF IsPage, IsTree
    <3>2. i - 1 = 0 <=> i = 1
      OBVIOUS
    <3> QED BY <3>1, <3>2 DEF DepthOf
  <2> QED BY <1>1, <1>2, <2>1 DEF Shape
<1>4. LeafsPlain(nodes)
  BY <1>1 DEF IsPage, LeafsPlain
<1>5. Leafs(nodes)
  <2> SUFFICES ASSUME NEW i \in 1 .. Len(nodes) - 1, nodes[i].kind \in {"Text", "FencedCodeBlock"},
                      ~(nodes[i + 1].d <= nodes[i].d)
               PROVE  FALSE
    BY DEF Leafs
  <2>1. i \in 1 .. Len(nodes) /\ i + 1 \in 1 .. Len(nodes) /\ i + 1 > i /\ \A k \in i + 1 .. i + 1 : k = i + 1
    BY <1>1
  <2>2. nodes[i + 1].d > nodes[i].d
    BY <1>2, <2>1
  <2>3. i + 1 \in Below(nodes, i)
    BY <1>1, <2>1, <2>2 DEF Below
  <2> QED BY <1>4, <2>1, <2>3 DEF LeafsPlain
<1>6. Apart(nodes)
  BY <1>1 DEF IsPage, Apart
<1>7. \E X : Texts(nodes, X)
  <2> DEFINE X == UNION {ToSet(nodes[i].text) : i \in DOMAIN nodes}
  <2>1. ASSUME NEW i \in 1 .. Len(nodes) PROVE nodes[i].text \in Seq(X)
    <3> DEFINE s == nodes[i].text
               Y == ToSet(s)
    <3>1. s \in Seq(Y)
      BY <1>1 DEF IsPage
    <3>2. Y \subseteq X
      BY <1>1
    <3> HIDE DEF s, Y, X
    <3>3. s \in [1 .. Len(s) -> Y] /\ Len(s) \in Nat
      BY <3>1, SeqParts
    <3>4. s \in [1 .. Len(s) -> X]
      BY <3>2, <3>3
    <3>5. s \in Seq(X)
      BY <3>3, <3>4, MapSeq
    <3> QED BY <3>5 DEF s
  <2> HIDE DEF X
  <2>2. Texts(nodes, X)
    BY <2>1 DEF Texts
  <2> QED BY <2>2
<1> QED BY <1>3, <1>4, <1>5, <1>6, <1>7

(***************************************************************************)
(* convert renders every page whose nodes it knows, however long and deep. *)
(***************************************************************************)
THEOREM ConvertRendersPages ==
  ASSUME NEW nodes, IsPage(nodes), \A i \in DOMAIN nodes : nodes[i].kind \in KnownNodes
  PROVE  Renders(Convert(nodes), nodes)
<1>1. Shape(nodes) /\ Leafs(nodes) /\ Apart(nodes) /\ LeafsPlain(nodes)
  BY PageParts
<1>2. PICK X : Texts(nodes, X)
  BY PageParts
<1>3. \A i \in 1 .. Len(nodes) : nodes[i].kind \in KnownNodes
  BY <1>1 DEF Shape
<1>4. PICK w : Convert(nodes) = Fix(w.toks) /\ Walked(nodes, X, Len(nodes), w, Heads(nodes))
  BY <1>1, <1>2, <1>3, WholeWalk
<1> DEFINE h == Heads(nodes)
<1>5. h = Heads(nodes)
  OBVIOUS
<1> HIDE DEF h
<1>6. PICK toks : /\ w = Walk(toks, Len(h), DepthOf(nodes, Len(nodes)))
                  /\ HeadsTo(nodes, Len(nodes), h) /\ TokensTo(nodes, X, toks, h)
                  /\ TextsTo(nodes, Len(nodes), toks, h)
  BY <1>4, <1>5 DEF Walked
<1>7. w.toks = toks
  BY <1>6 DEF Walk
<1>8. Renders(Fix(toks), nodes)
  BY <1>1, <1>3, <1>5, <1>6, Rendered
<1> QED BY <1>4, <1>7, <1>8

-----------------------------------------------------------------------------
(* What is served. *)

\* A copy looks like what it is a copy of.
LEMMA CopyOutline ==
  ASSUME NEW toks
  PROVE  Outline(CopyTokens(toks)) = Outline(toks)
<1> DEFINE cs == CopyTokens(toks)
<1>1. DOMAIN cs = DOMAIN toks
  BY DEF CopyTokens
<1>2. \A i \in DOMAIN toks : /\ cs[i].kind = toks[i].kind /\ cs[i].text = toks[i].text
                             /\ cs[i].attr = toks[i].attr /\ cs[i].parent = toks[i].parent
  BY DEF CopyTokens, Token
<1> HIDE DEF cs
<1>3. [t \in DOMAIN cs |-> <<cs[t].kind, cs[t].attr, cs[t].parent>>]
        = [t \in DOMAIN toks |-> <<toks[t].kind, toks[t].attr, toks[t].parent>>]
  BY <1>1, <1>2
<1>4. [t \in DOMAIN cs |-> IF cs[t].kind \in {"Text", "CodeBlock"} THEN cs[t].text ELSE <<>>]
        = [t \in DOMAIN toks |-> IF toks[t].kind \in {"Text", "CodeBlock"} THEN toks[t].text ELSE <<>>]
  BY <1>1, <1>2
<1>5. Words(cs) = Words(toks)
  BY <1>4 DEF Words
<1>6. Outline(cs) = Outline(toks)
  BY <1>3, <1>5 DEF Outline
<1> QED BY <1>6 DEF cs

\* An answer has copies of pages of files, or there is none.
ReplyInv == reply = None \/ reply \in Seq(Cats(Copies))

LEMMA ReplyStep == StoreInv /\ ReplyInv /\ [Next]_vars => ReplyInv'
<1> SUFFICES ASSUME StoreInv, ReplyInv, [Next]_vars PROVE ReplyInv'
  OBVIOUS
<1>1. CASE GetAll
  <2>1. PICK order \in Orders[Stored] : reply' = Sorted(Merged(Unprocessed(order)))
    BY <1>1 DEF GetAll
  <2>2. reply' \in Seq(Cats(Copies))
    BY <2>1, Answer
  <2>3. Cats(Copies)' = Cats(Copies)
    BY DEF Cats, CatOf, Groups, GroupOf, PagesIn, CatNames, GroupNames, Copies, Copied, Originals, Files, ParseMD
  <2> QED BY <2>2, <2>3 DEF ReplyInv
<1>2. CASE reply' = None
  BY <1>2 DEF ReplyInv
<1>3. CASE UNCHANGED vars
  BY <1>3 DEF vars, ReplyInv, Cats, CatOf, Groups, GroupOf, PagesIn, CatNames, GroupNames, Copies, Copied,
              Originals, Files, ParseMD
<1> QED BY <1>1, <1>2, <1>3 DEF Next, NoReply, Users, Adds, Reconciler, UpdateDocs

(***************************************************************************)
(* What is served of a page renders its file: convert, Parse, the store,   *)
(* the copies of GetAll, Merge and the sorts lose and misplace nothing.    *)
(***************************************************************************)
THEOREM ServedPagesRender == Spec => []PagesRender
<1>1. Init => ReplyInv
  BY DEF Init, ReplyInv
<1>2. ReplyInv => PagesRender
  <2> SUFFICES ASSUME reply \in Seq(Cats(Copies)), NEW x \in ToSet(Listed(reply)), Known[x.page.id]
               PROVE  Outline(x.page.doc) = Outlines[x.page.id]
    BY DEF ReplyInv, PagesRender
  <2>1. x.page \in Copies
    BY ListedAre
  <2>2. PICK f \in Files : x.page = Copied(ParseMD(f))
    BY <2>1 DEF Copies, Originals
  <2>3. x.page.id = f.id /\ x.page.doc = CopyTokens(Convert(f.tree))
    BY <2>2 DEF Copied, ParseMD
  <2> DEFINE g == FileOf[f.id]
  <2>4. g \in Files /\ g.id = f.id
    BY DEF FileOf
  <2>5. g.tree = f.tree /\ f.id \in DOMAIN FileOf
    BY <2>4, DocsAssumption DEF FileOf
  <2> HIDE DEF g
  <2>6. \A i \in DOMAIN f.tree : f.tree[i].kind \in KnownNodes
    BY <2>3, <2>5 DEF Known, g
  <2>7. Outline(Convert(f.tree)) = OutlineOf(f.tree)
    BY <2>6, ConvertRendersPages, DocsAssumption DEF Renders
  <2>8. Outlines[x.page.id] = OutlineOf(f.tree)
    BY <2>3, <2>5 DEF Outlines, g
  <2> QED BY <2>3, <2>7, <2>8, CopyOutline
<1> QED BY <1>1, <1>2, ReplyStep, StoreInvariant, PTL DEF Spec
=============================================================================
