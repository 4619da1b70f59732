------------------------- MODULE ExtensionTestProofs -------------------------
(***************************************************************************)
(* Theorems about ExtensionTest, for any extensions, files of tests and    *)
(* errors of a cluster: the verdict on a file is exact.                    *)
(***************************************************************************)
EXTENDS ExtensionTest, SequenceTheorems, TLAPS

-----------------------------------------------------------------------------
(* The tests of a file. *)

IsSeq(s) == \E S : s \in Seq(S)

LEMMA Appended ==
  ASSUME NEW s, NEW x, IsSeq(s)
  PROVE  /\ IsSeq(Append(s, x))
         /\ Len(s) \in Nat /\ Len(Append(s, x)) = Len(s) + 1
         /\ Append(s, x)[Len(s) + 1] = x
         /\ \A i \in 1 .. Len(s) : Append(s, x)[i] = s[i]
<1>1. PICK S : s \in Seq(S)
  BY DEF IsSeq
<1>2. s \in Seq(S \cup {x})
  BY <1>1, SeqMonotonic
<1>3. /\ Append(s, x) \in Seq(S \cup {x})
      /\ Len(Append(s, x)) = Len(s) + 1
      /\ Append(s, x)[Len(s) + 1] = x
      /\ \A i \in 1 .. Len(s) : Append(s, x)[i] = s[i]
  BY <1>2, AppendProperties
<1>4. Len(s) \in Nat
  BY <1>1, LenProperties
<1> QED BY <1>3, <1>4 DEF IsSeq

LEMMA ListLength ==
  ASSUME NEW s, IsList(s)
  PROVE  Len(s) \in Nat /\ DOMAIN s = 1 .. Len(s)
BY LenProperties DEF IsList

LEMMA FileTests ==
  ASSUME file \in Files
  PROVE  /\ Len(file.tests) \in Nat
         /\ \A i \in 1 .. Len(file.tests) :
              LET t == file.tests[i]
              IN  /\ DOMAIN t \subseteq ToSet(Kinds)
                  /\ \A k \in DOMAIN t :
                       t[k].resource = None
                         \/ (t[k].resource.name \in Names /\ t[k].resource.spec \in Specs)
                  /\ "sync" \in DOMAIN t => IsList(t["sync"].lookup)
                  /\ "delete" \in DOMAIN t => IsList(t["delete"].notFound)
<1>1. IsList(file.tests)
  BY TestAssumption
<1>2. Len(file.tests) \in Nat /\ \A i \in 1 .. Len(file.tests) : file.tests[i] \in ToSet(file.tests)
  BY <1>1, ListLength DEF ToSet
<1> QED BY <1>2, TestAssumption

LEMMA FirstPart ==
  /\ Kind \in 0 .. 4
  /\ Kind = 0 => \A k \in 1 .. 4 : Kinds[k] \notin DOMAIN Test
  /\ Kind > 0 => /\ Kinds[Kind] \in DOMAIN Test
                 /\ \A j \in 1 .. Kind - 1 : Kinds[j] \notin DOMAIN Test
<1> DEFINE I == {i \in 1 .. Len(Kinds) : Kinds[i] \in DOMAIN Test}
<1>1. Len(Kinds) = 4 /\ Kind = IF I # {} THEN Min(I) ELSE 0
  BY DEF Kinds, Kind, SelectInSeq
<1>2. CASE I = {}
  BY <1>1, <1>2
<1>3. CASE I # {}
  <2>1. \E x \in I : \A y \in I : x <= y
    <3>1. I \subseteq {1, 2, 3, 4}
      BY <1>1
    <3> HIDE DEF I
    <3>2. ASSUME NEW x \in I, \A y \in {1, 2, 3, 4} : y < x => y \notin I
          PROVE  \A y \in I : x <= y
      BY <3>1, <3>2
    <3>3. 1 \in I \/ (1 \notin I /\ 2 \in I) \/ (1 \notin I /\ 2 \notin I /\ 3 \in I)
            \/ (1 \notin I /\ 2 \notin I /\ 3 \notin I /\ 4 \in I)
      BY <1>3, <3>1
    <3> QED BY <3>2, <3>3
  <2>2. Min(I) \in I /\ \A y \in I : Min(I) <= y
    <3> HIDE DEF I
    <3> QED BY <2>1 DEF Min
  <2> QED BY <1>1, <1>3, <2>2
<1> QED BY <1>2, <1>3

LEMMA KindsAre ==
  /\ DOMAIN Kinds = 1 .. 4
  /\ Kinds[1] = "validate" /\ Kinds[2] = "defaulting" /\ Kinds[3] = "sync" /\ Kinds[4] = "delete"
BY DEF Kinds

LEMMA SameTest ==
  ASSUME UNCHANGED <<file, todo>>
  PROVE  /\ Test' = Test /\ Kind' = Kind /\ Resource' = Resource /\ Lookups' = Lookups
         /\ Expected(Test["sync"])' = Expected(Test["sync"])
<1>1. Test' = Test
  BY DEF Test
<1>2. Kind' = Kind
  <2> DEFINE I == {i \in 1 .. Len(Kinds) : Kinds[i] \in DOMAIN Test}
  <2>1. Kind = IF I # {} THEN Min(I) ELSE 0
    BY DEF Kind, SelectInSeq
  <2>2. Kind' = IF I' # {} THEN Min(I') ELSE 0
    BY DEF Kind, SelectInSeq, Kinds
  <2>3. I' = I
    BY <1>1
  <2> HIDE DEF I
  <2> QED BY <2>1, <2>2, <2>3
<1> QED BY <1>1, <1>2 DEF Resource, Lookups, Expected, Object

\* What a test asks for is what its first part asks for.
LEMMA MetIs ==
  ASSUME NEW s
  PROVE  Met(Test, s) <=> Kind > 0 /\ MetBy(Test, Kinds[Kind], s)
<1>1. \A k \in DOMAIN Kinds :
        /\ Kinds[k] \in DOMAIN Test /\ \A j \in 1 .. k - 1 : Kinds[j] \notin DOMAIN Test
        <=> Kind = k
  BY FirstPart, KindsAre
<1>2. Kind > 0 => Kind \in DOMAIN Kinds
  BY FirstPart, KindsAre
<1> HIDE DEF Kinds
<1>3. \A k \in DOMAIN Kinds : k > 0
  BY KindsAre
<1> QED BY <1>1, <1>2, <1>3 DEF Met

-----------------------------------------------------------------------------
(* The inductive invariant. *)

\* The first n tests were met.
Past(n) == \A i \in 1 .. n : Met(file.tests[i], seen[i])

\* A call that goes on is one of Sync or Delete, of an Application.
UnderWay ==
  call # None =>
    /\ verdict = "running"
    /\ Kind > 0 /\ Kinds[Kind] \in {"sync", "delete"} /\ Resource # None
    /\ call \in Calls
    /\ call.pc # "lookup" => call.looked = 0

\* What is known while the program looks for the resources: the call was as it
\* should be, nothing has changed since, and those that it has looked at were
\* found.
LookedUp ==
  At("lookup") =>
    /\ Len(seen) = todo /\ Past(todo - 1)
    /\ ~seen[todo].err /\ seen[todo].cluster = cluster
    /\ Kinds[Kind] = "sync" => seen[todo].obj = Expected(Test["sync"])
    /\ call.looked \in 0 .. Len(Lookups)
    /\ \A i \in 1 .. call.looked : Found(Lookups[i])

\* A test that has not been judged is the next one, and those before it were met.
TestsInv ==
  /\ file \in Files /\ IsSeq(seen) /\ DOMAIN cluster = Names
  /\ verdict = "loading" => call = None /\ todo = 1 /\ seen = <<>>
  /\ verdict = "running" => todo \in 1 .. Len(file.tests)
  /\ verdict = "running" /\ ~At("lookup") => Len(seen) = todo - 1 /\ Past(todo - 1)
  /\ UnderWay /\ LookedUp
  /\ FileVerdictExact

-----------------------------------------------------------------------------
(* One step per action. *)

LEMMA LookupsAre ==
  ASSUME TestsInv, call # None
  PROVE  /\ Len(Lookups) \in Nat
         /\ Kinds[Kind] = "sync" =>
              (\A l \in ToSet(Test["sync"].lookup) : cluster[l.name] = l.rules)
                <=> \A i \in 1 .. Len(Lookups) : Found(Lookups[i])
         /\ Kinds[Kind] = "delete" =>
              (\A n \in ToSet(Test["delete"].notFound) : cluster[n] = None)
                <=> \A i \in 1 .. Len(Lookups) : Found(Lookups[i])
<1>1. todo \in 1 .. Len(file.tests) /\ Kind > 0 /\ Kinds[Kind] \in {"sync", "delete"} /\ file \in Files
  BY DEF TestsInv, UnderWay
<1>2. Kinds[Kind] \in DOMAIN Test
  BY <1>1, FirstPart
<1>3. CASE Kinds[Kind] = "sync"
  <2>1. IsList(Test["sync"].lookup) /\ Lookups = Test["sync"].lookup
    BY <1>1, <1>2, <1>3, FileTests DEF Test, Lookups
  <2>2. Len(Lookups) \in Nat /\ DOMAIN Lookups = 1 .. Len(Lookups)
    BY <2>1, ListLength
  <2> QED BY <1>3, <2>1, <2>2 DEF ToSet, Found
<1>4. CASE Kinds[Kind] = "delete"
  <2> DEFINE s == Test["delete"].notFound
             asked == [i \in 1 .. Len(s) |-> [name |-> s[i], rules |-> None]]
  <2>1. IsList(s)
    BY <1>1, <1>2, <1>4, FileTests DEF Test
  <2>2. Len(s) \in Nat /\ DOMAIN s = 1 .. Len(s)
    BY <2>1, ListLength
  <2>3. Lookups = asked
    BY <1>4, <2>2 DEF Lookups
  <2>4. Len(asked) = Len(s)
    <3> HIDE DEF s
    <3> QED BY <2>2
  <2>5. \A i \in 1 .. Len(s) : Found(asked[i]) <=> cluster[s[i]] = None
    BY DEF Found
  <2> QED BY <1>4, <2>2, <2>3, <2>4, <2>5 DEF ToSet
<1> QED BY <1>1, <1>3, <1>4

\* Judge, after a test of which it is known what came of it.
LEMMA Judged ==
  ASSUME TestsInv, verdict = "running", NEW ok \in BOOLEAN, Judge(ok),
         UNCHANGED file, DOMAIN cluster' = Names,
         IsSeq(seen'), Len(seen') = todo,
         \A i \in 1 .. todo - 1 : Met(file.tests[i], seen'[i]),
         ok <=> Met(file.tests[todo], seen'[todo])
  PROVE  TestsInv'
<1>1. /\ todo \in 1 .. Len(file.tests) /\ Len(file.tests) \in Nat /\ file' \in Files
      /\ call' = None /\ todo' = todo + 1
      /\ verdict' = IF ~ok THEN "failed" ELSE IF todo = Len(file.tests) THEN "passed" ELSE "running"
  BY FileTests DEF TestsInv, Judge
<1>2. ~At("lookup")' /\ UnderWay' /\ LookedUp'
  BY <1>1 DEF At, UnderWay, LookedUp
<1>3. ok => \A i \in 1 .. todo : Met(file'.tests[i], seen'[i])
  BY <1>1
<1>4. CASE ~ok
  <2>1. FileVerdictExact'
    BY <1>1, <1>4 DEF FileVerdictExact
  <2> QED BY <1>1, <1>2, <1>4, <2>1 DEF TestsInv
<1>5. CASE ok /\ todo = Len(file.tests)
  <2>1. FileVerdictExact'
    BY <1>1, <1>3, <1>5 DEF FileVerdictExact
  <2> QED BY <1>1, <1>2, <1>5, <2>1 DEF TestsInv
<1>6. CASE ok /\ todo # Len(file.tests)
  <2>1. FileVerdictExact'
    BY <1>1, <1>6 DEF FileVerdictExact
  <2>2. /\ Len(seen') = todo' - 1 /\ todo' - 1 = todo /\ todo' \in 1 .. Len(file.tests)
        /\ verdict' = "running"
    BY <1>1, <1>6
  <2>3. Past(todo - 1)'
    BY <1>3, <1>6, <2>2 DEF Past
  <2> QED BY <1>1, <1>2, <1>6, <2>1, <2>2, <2>3 DEF TestsInv
<1> QED BY <1>4, <1>5, <1>6

\* What is noted of a test that is judged now.
LEMMA Noted ==
  ASSUME TestsInv, verdict = "running", ~At("lookup"), NEW x, seen' = Append(seen, x)
  PROVE  /\ IsSeq(seen') /\ Len(seen') = todo /\ seen'[todo] = x
         /\ \A i \in 1 .. todo - 1 : Met(file.tests[i], seen'[i])
<1>1. IsSeq(seen) /\ Len(seen) = todo - 1 /\ todo \in 1 .. Len(file.tests) /\ Past(todo - 1)
      /\ Len(file.tests) \in Nat
  BY FileTests DEF TestsInv
<1>2. \A i \in 1 .. todo - 1 : seen'[i] = seen[i]
  BY <1>1, Appended
<1> QED BY <1>1, <1>2, Appended DEF Past

LEMMA Panicked ==
  ASSUME TestsInv, Panic, call = None
  PROVE  TestsInv'
BY DEF TestsInv, Panic, UnderWay, LookedUp, At, FileVerdictExact

\* Judge, of a test whose call was one step.
LEMMA JudgedAtOnce ==
  ASSUME TestsInv, verdict = "running", call = None, NEW x, NEW ok \in BOOLEAN,
         seen' = Append(seen, x), Judge(ok), UNCHANGED <<file, cluster>>,
         ok <=> Kind > 0 /\ MetBy(Test, Kinds[Kind], x)
  PROVE  TestsInv'
<1>1. ~At("lookup") /\ DOMAIN cluster' = Names
  BY DEF At, TestsInv
<1>2. /\ IsSeq(seen') /\ Len(seen') = todo /\ seen'[todo] = x
      /\ \A i \in 1 .. todo - 1 : Met(file.tests[i], seen'[i])
  BY <1>1, Noted
<1>3. ok <=> Met(file.tests[todo], seen'[todo])
  BY <1>2, MetIs DEF Test
<1> QED BY <1>1, <1>2, <1>3, Judged

LEMMA OfOneStep ==
  ASSUME TestsInv, NoTest \/ Validate \/ Defaulting
  PROVE  TestsInv'
<1>1. CASE NoTest
  <2>1. verdict = "running" /\ call = None /\ Kind = 0 /\ UNCHANGED <<file, cluster>>
        /\ seen' = Append(seen, Outcome(FALSE, None)) /\ Judge(FALSE)
    BY <1>1 DEF NoTest
  <2> DEFINE x == Outcome(FALSE, None)
  <2>2. FALSE <=> Kind > 0 /\ MetBy(Test, Kinds[Kind], x)
    BY <2>1
  <2>3. FALSE \in BOOLEAN
    OBVIOUS
  <2> DEFINE ok == FALSE
  <2>4. /\ ok \in BOOLEAN /\ Judge(ok)
        /\ ok <=> Kind > 0 /\ MetBy(Test, Kinds[Kind], x)
        /\ seen' = Append(seen, x)
    BY <2>1, <2>2, <2>3
  <2> HIDE DEF x, ok
  <2> QED BY <2>1, <2>4, JudgedAtOnce
<1>2. CASE Validate
  <2> DEFINE v == Test["validate"]
             ok == v.type \in Types /\ ValidateFails(v) = v.invalid
             x == Outcome(ValidateFails(v), None)
  <2>1. verdict = "running" /\ call = None /\ Kind > 0 /\ Kinds[Kind] = "validate"
    BY <1>2 DEF Validate, Runs
  <2>2. CASE Panic
    BY <2>1, <2>2, Panicked
  <2>3. CASE ~Panic
    <3>1. seen' = Append(seen, x) /\ Judge(ok) /\ UNCHANGED <<file, cluster>>
      BY <1>2, <2>3 DEF Validate
    <3>2. ok <=> Kind > 0 /\ MetBy(Test, Kinds[Kind], x)
      BY <2>1 DEF MetBy, Outcome
    <3> QED BY <2>1, <3>1, <3>2, JudgedAtOnce
  <2> QED BY <2>2, <2>3
<1>3. CASE Defaulting
  <2> DEFINE d == Test["defaulting"]
             err == extension.defaulting /\ (InstanceFails \/ Traps(d.resource))
             obj == IF extension.defaulting /\ ~err
                    THEN [Object(d.resource) EXCEPT !.spec = Defaulted(@)] ELSE None
             ok == ~err /\ obj # None /\ obj = Expected(d)
             x == Outcome(err, obj)
  <2>1. verdict = "running" /\ call = None /\ Kind > 0 /\ Kinds[Kind] = "defaulting"
    BY <1>3 DEF Defaulting, Runs
  <2>2. CASE d.resource = None
    BY <1>3, <2>1, <2>2, Panicked DEF Defaulting
  <2>3. CASE d.resource # None
    <3>1. seen' = Append(seen, x) /\ Judge(ok) /\ UNCHANGED <<file, cluster>>
      BY <1>3, <2>3 DEF Defaulting
    <3>2. Expected(d) # None
      <4>1. d.resource.spec \in Specs
        <5>1. todo \in 1 .. Len(file.tests) /\ file \in Files
          BY <2>1 DEF TestsInv
        <5>2. "defaulting" \in DOMAIN Test
          BY <2>1, FirstPart
        <5> QED BY <2>3, <5>1, <5>2, FileTests DEF Test
      <4>2. Object(d.resource) \in Objects
        BY <4>1 DEF Object, Objects
      <4> QED BY <4>2, TestAssumption DEF Expected
    <3>3. ok <=> Kind > 0 /\ MetBy(Test, Kinds[Kind], x)
      BY <2>1, <3>2 DEF MetBy, Outcome
    <3> QED BY <2>1, <3>1, <3>3, JudgedAtOnce
  <2> QED BY <2>2, <2>3
<1> QED BY <1>1, <1>2, <1>3

LEMMA OfLoad ==
  ASSUME TestsInv, Load
  PROVE  TestsInv'
<1>1. /\ verdict = "loading" /\ call = None /\ todo = 1 /\ seen = <<>> /\ file \in Files
      /\ UNCHANGED <<extension, file, cluster, call, todo, seen>>
      /\ verdict' \in {"error", "passed", "running"}
      /\ verdict' = "passed" => file.tests = <<>>
      /\ verdict' = "running" => file.tests # <<>>
  BY DEF Load, TestsInv
<1>2. Len(file.tests) \in Nat /\ (file.tests # <<>> => Len(file.tests) > 0)
  <2>1. IsList(file.tests)
    BY <1>1, TestAssumption
  <2> QED BY <2>1, EmptySeq, LenProperties DEF IsList
<1>3. FileVerdictExact'
  BY <1>1 DEF FileVerdictExact
<1> QED BY <1>1, <1>2, <1>3 DEF TestsInv, UnderWay, LookedUp, At, Past

LEMMA OfBegin ==
  ASSUME TestsInv, Sync \/ Delete
  PROVE  TestsInv'
<1>1. PICK kind \in {"sync", "delete"}, first \in {"get", "delete"} : Begin(kind, first)
  BY DEF Sync, Delete
<1> DEFINE r == Test[kind].resource
<1>2. verdict = "running" /\ call = None /\ Kind > 0 /\ Kinds[Kind] = kind
  BY <1>1 DEF Begin, Runs
<1>3. CASE r = None
  BY <1>1, <1>2, <1>3, Panicked DEF Begin
<1>4. CASE r # None
  <2>1. /\ call' \in Calls /\ call'.looked = 0
        /\ call'.pc \in {"return", "fail", "get", "delete"}
        /\ UNCHANGED <<extension, file, cluster, todo, verdict, seen>>
    <3>1. r.spec \in Specs
      <4>1. todo \in 1 .. Len(file.tests) /\ file \in Files
        BY <1>2 DEF TestsInv
      <4>2. kind \in DOMAIN Test
        BY <1>2, FirstPart
      <4> QED BY <1>4, <4>1, <4>2, FileTests DEF Test
    <3>2. Object(r) \in Objects
      BY <3>1 DEF Object, Objects
    <3>3. PICK pc \in {"return", "fail", "get", "delete"} :
            call' = [pc |-> pc, obj |-> Object(r), looked |-> 0]
      BY <1>1, <1>4 DEF Begin
    <3>4. UNCHANGED <<extension, file, cluster, todo, verdict, seen>>
      BY <1>1, <1>4 DEF Begin
    <3> HIDE DEF r
    <3> QED BY <3>2, <3>3, <3>4 DEF Calls
  <2>2. UnderWay'
    BY <1>2, <1>4, <2>1, SameTest DEF UnderWay, Resource
  <2>3. ~At("lookup")' /\ ~At("lookup")
    BY <1>2, <2>1 DEF At
  <2>4. FileVerdictExact' /\ Past(todo - 1)'
    BY <1>2, <2>1, <2>3 DEF TestsInv, FileVerdictExact, Past
  <2> QED BY <1>2, <2>1, <2>2, <2>3, <2>4 DEF TestsInv, LookedUp
<1> QED BY <1>3, <1>4

\* The call goes on, and the file is as it was.
LEMMA GoesOn ==
  ASSUME TestsInv, call # None, ~At("lookup"),
         NEW pc \in {"update", "create", "synced", "deleted", "refused"}, Goto(pc),
         UNCHANGED <<extension, file, todo, verdict, seen>>, DOMAIN cluster' = Names
  PROVE  TestsInv'
<1>1. /\ verdict = "running" /\ call.looked = 0
      /\ call' \in Calls /\ call'.pc = pc /\ call'.looked = 0
  BY DEF TestsInv, UnderWay, Goto, At, Calls
<1>2. ~At("lookup")'
  BY <1>1 DEF At
<1>3. UnderWay'
  BY <1>1, SameTest DEF TestsInv, UnderWay
<1>4. FileVerdictExact' /\ Past(todo - 1)'
  BY <1>1 DEF TestsInv, FileVerdictExact, Past
<1> QED BY <1>1, <1>2, <1>3, <1>4 DEF TestsInv, LookedUp

LEMMA OfGuest ==
  ASSUME TestsInv, Get \/ Update \/ Create \/ DeleteResource
  PROVE  TestsInv'
<1>1. PICK method \in {"get", "update", "create", "delete"} :
        /\ At(method)
        /\ \E rules, said : Effect(method, Resource.name, rules, said)
        /\ \E pc \in {"update", "create", "synced", "deleted", "refused"} : Goto(pc)
        /\ UNCHANGED <<extension, file, todo, verdict, seen>>
  BY DEF Get, Update, Create, DeleteResource, Guest, AfterGet
<1>2. call # None /\ ~At("lookup")
  BY <1>1 DEF At
<1>3. DOMAIN cluster' = Names
  BY <1>1 DEF Effect, TestsInv
<1> QED BY <1>1, <1>2, <1>3, GoesOn

LEMMA OfReturn ==
  ASSUME TestsInv, Return
  PROVE  TestsInv'
<1>1. PICK label \in BOOLEAN :
        LET err == call.pc = "fail"
            obj == [call.obj EXCEPT !.label = label]
        IN  /\ seen' = Append(seen, Outcome(err, obj))
            /\ IF err \/ (Kinds[Kind] = "sync" /\ obj # Expected(Test["sync"]))
               THEN Judge(FALSE)
               ELSE Goto("lookup") /\ UNCHANGED <<todo, verdict>>
  BY DEF Return
<1> DEFINE err == call.pc = "fail"
           obj == [call.obj EXCEPT !.label = label]
           x == Outcome(err, obj)
           bad == err \/ (Kinds[Kind] = "sync" /\ obj # Expected(Test["sync"]))
<1>2. /\ call # None /\ ~At("lookup") /\ UNCHANGED <<extension, file, cluster>>
      /\ verdict = "running" /\ call.looked = 0
  BY DEF Return, At, TestsInv, UnderWay
<1>3. Kind > 0 /\ Kinds[Kind] \in {"sync", "delete"} /\ DOMAIN cluster' = Names
  BY <1>2 DEF TestsInv, UnderWay
<1>4. x.err = err /\ x.obj = obj /\ x.cluster = cluster /\ seen' = Append(seen, x)
  BY <1>1 DEF Outcome
<1> HIDE DEF x, obj
<1>5. /\ IsSeq(seen') /\ Len(seen') = todo /\ seen'[todo] = x
      /\ \A i \in 1 .. todo - 1 : Met(file.tests[i], seen'[i])
  BY <1>2, <1>4, Noted
<1>6. CASE bad
  <2>1. Judge(FALSE) /\ FALSE \in BOOLEAN
    BY <1>1, <1>6 DEF obj
  <2>2. ~MetBy(Test, Kinds[Kind], x)
    BY <1>3, <1>4, <1>6 DEF MetBy
  <2>3. FALSE <=> Met(file.tests[todo], seen'[todo])
    BY <1>5, <2>2, MetIs DEF Test
  <2> QED BY <1>2, <1>3, <1>5, <2>1, <2>3, Judged
<1>7. CASE ~bad
  <2>1. Goto("lookup") /\ UNCHANGED <<todo, verdict>>
    BY <1>1, <1>7 DEF obj
  <2>2. call' \in Calls /\ call'.pc = "lookup" /\ call'.looked = 0
    BY <1>2, <2>1 DEF TestsInv, UnderWay, Goto, Calls
  <2>3. UnderWay'
    BY <1>2, <2>1, <2>2, SameTest DEF TestsInv, UnderWay
  <2>4. Len(Lookups') \in Nat
    <3>1. Len(Lookups) \in Nat
      BY <1>2, LookupsAre
    <3>2. Lookups' = Lookups
      BY <1>2, <2>1, SameTest
    <3> QED BY <3>1, <3>2
  <2>5. Past(todo - 1)'
    BY <1>2, <1>5, <2>1 DEF Past
  <2>6. LookedUp'
    <3>1. Kinds[Kind] = "sync" => x.obj = Expected(Test["sync"])
      BY <1>4, <1>7
    <3>2. ~x.err
      BY <1>4, <1>7
    <3>3. (Kinds[Kind])' = Kinds[Kind] /\ Test' = Test
      BY <1>2, <2>1, SameTest
    <3>4. call'.looked \in 0 .. Len(Lookups') /\ call'.looked = 0
      BY <2>2, <2>4
    <3>5. (\A i \in 1 .. call.looked : Found(Lookups[i]))'
      BY <3>4
    <3>6. seen'[todo'] = x /\ Len(seen') = todo' /\ x.cluster = cluster'
      BY <1>2, <1>4, <1>5, <2>1
    <3>7. (Kinds[Kind] = "sync")' => seen'[todo'].obj = Expected(Test["sync"])'
      BY <3>1, <3>3, <3>6 DEF Expected, Object
    <3> QED BY <2>5, <3>2, <3>4, <3>5, <3>6, <3>7 DEF LookedUp
  <2>7. At("lookup")'
    BY <2>2, TestAssumption DEF At
  <2> QED BY <1>2, <1>3, <1>5, <2>1, <2>3, <2>6, <2>7 DEF TestsInv, FileVerdictExact
<1> QED BY <1>6, <1>7

LEMMA OfLookup ==
  ASSUME TestsInv, Lookup
  PROVE  TestsInv'
<1>1. /\ call # None /\ call.pc = "lookup" /\ UNCHANGED <<extension, file, cluster, seen>>
      /\ verdict = "running" /\ Kind > 0 /\ Kinds[Kind] \in {"sync", "delete"}
  BY DEF Lookup, At, TestsInv, UnderWay
<1>2. /\ Len(seen) = todo /\ Past(todo - 1) /\ ~seen[todo].err /\ seen[todo].cluster = cluster
      /\ Kinds[Kind] = "sync" => seen[todo].obj = Expected(Test["sync"])
      /\ call.looked \in 0 .. Len(Lookups)
      /\ \A i \in 1 .. call.looked : Found(Lookups[i])
  BY <1>1 DEF TestsInv, LookedUp, At
<1>3. /\ DOMAIN cluster' = Names /\ IsSeq(seen') /\ Len(seen') = todo
      /\ \A i \in 1 .. todo - 1 : Met(file.tests[i], seen'[i])
  BY <1>1, <1>2 DEF TestsInv, Past
\* All resources were found if and only if the test was met.
<1>4. /\ Len(Lookups) \in Nat
      /\ Met(file.tests[todo], seen'[todo]) <=> \A i \in 1 .. Len(Lookups) : Found(Lookups[i])
  <2>1. Met(file.tests[todo], seen'[todo]) <=> MetBy(Test, Kinds[Kind], seen[todo])
    BY <1>1, MetIs DEF Test
  <2>2. MetBy(Test, Kinds[Kind], seen[todo]) <=> \A i \in 1 .. Len(Lookups) : Found(Lookups[i])
    BY <1>1, <1>2, LookupsAre DEF MetBy
  <2> QED BY <1>1, <2>1, <2>2, LookupsAre
<1>5. CASE call.looked = Len(Lookups)
  <2>1. Judge(TRUE) /\ TRUE \in BOOLEAN
    BY <1>5 DEF Lookup
  <2>2. TRUE <=> Met(file.tests[todo], seen'[todo])
    BY <1>2, <1>4, <1>5
  <2> QED BY <1>1, <1>3, <2>1, <2>2, Judged
<1>6. CASE call.looked # Len(Lookups) /\ ~Found(Lookups[call.looked + 1])
  <2>1. Judge(FALSE) /\ FALSE \in BOOLEAN
    BY <1>6 DEF Lookup
  <2>2. call.looked + 1 \in 1 .. Len(Lookups)
    BY <1>2, <1>4, <1>6
  <2>3. FALSE <=> Met(file.tests[todo], seen'[todo])
    BY <1>4, <1>6, <2>2
  <2> QED BY <1>1, <1>3, <2>1, <2>3, Judged
<1>7. CASE call.looked # Len(Lookups) /\ Found(Lookups[call.looked + 1])
  <2>1. call' = [call EXCEPT !.looked = @ + 1] /\ UNCHANGED <<todo, verdict>>
    BY <1>7 DEF Lookup
  <2>2. call' \in Calls /\ call'.pc = "lookup" /\ call'.looked = call.looked + 1
    BY <1>1, <2>1 DEF TestsInv, UnderWay, Calls
  <2>3. UnderWay'
    BY <1>1, <2>1, <2>2, SameTest DEF TestsInv, UnderWay
  <2>4. /\ (Kinds[Kind])' = Kinds[Kind] /\ Test' = Test /\ Lookups' = Lookups
        /\ \A l : Found(l)' <=> Found(l)
    BY <1>1, <2>1, SameTest DEF Found
  <2>5. /\ call.looked + 1 \in 0 .. Len(Lookups)
        /\ \A i \in 1 .. call.looked + 1 : Found(Lookups[i])
    BY <1>2, <1>4, <1>7
  <2>6. Past(todo - 1)'
    BY <1>1, <1>2, <2>1 DEF Past
  <2>7. At("lookup")'
    BY <2>2, TestAssumption DEF At
  <2>8. (Kinds[Kind] = "sync")' => seen'[todo'].obj = Expected(Test["sync"])'
    BY <1>1, <1>2, <2>1, <2>4 DEF Expected, Object
  <2>9. (\A i \in 1 .. call.looked : Found(Lookups[i]))'
    BY <2>2, <2>4, <2>5 DEF Found
  <2>10. LookedUp'
    BY <1>1, <1>2, <2>1, <2>2, <2>4, <2>5, <2>6, <2>8, <2>9 DEF LookedUp
  <2> QED BY <1>1, <1>3, <2>1, <2>3, <2>7, <2>10 DEF TestsInv, FileVerdictExact
<1> QED BY <1>5, <1>6, <1>7

LEMMA TestsStep ==
  ASSUME TestsInv, [Next]_vars
  PROVE  TestsInv'
<1>1. CASE UNCHANGED vars
  <2>1. /\ UNCHANGED <<file, cluster, call, todo, verdict, seen>>
        /\ Test' = Test /\ Kind' = Kind /\ Resource' = Resource /\ Lookups' = Lookups
        /\ Expected(Test["sync"])' = Expected(Test["sync"])
    BY <1>1, SameTest DEF vars
  <2> QED BY <2>1 DEF TestsInv, UnderWay, LookedUp, At, Past, FileVerdictExact, Found
<1>2. CASE Next
  BY <1>2, OfLoad, OfOneStep, OfBegin, OfGuest, OfReturn, OfLookup DEF Next
<1> QED BY <1>1, <1>2

-----------------------------------------------------------------------------
(* Theorems. *)

\* Whatever the files, extensions and errors: while the program looks for the
\* resources of a test (cmd/extgen/wasi), the tests before it were met, and
\* those that it has looked at were found.
THEOREM TestsAsExpected == Spec => []TestsInv
<1>1. Init => TestsInv
  BY DEF Init, TestsInv, IsSeq, UnderWay, LookedUp, At, FileVerdictExact
<1> QED BY <1>1, TestsStep, PTL DEF Spec

\* For all files of tests: one passes only if the first part of each test was
\* met, and fails only at a test that was not (testFile).
THEOREM VerdictExact == Spec => []FileVerdictExact
<1>1. TestsInv => FileVerdictExact
  BY DEF TestsInv
<1> QED BY <1>1, TestsAsExpected, PTL
=============================================================================
