---------------------------- MODULE ExtensionTest ----------------------------
(***************************************************************************)
(* `extgen wasi test` (cmd/extgen/wasi): the tests of a file are run one   *)
(* after the other against one WASI extension and one fake cluster, through *)
(* the same ExtensionController as the operator's.  The extension is the   *)
(* one of the repository's test data: it validates and defaults ingresses, *)
(* and keeps one Ingress per Application through the host functions of     *)
(* waruntime.Runner.                                                       *)
(*                                                                         *)
(* A spec is a member of Specs, and so are the rules of an Ingress.        *)
(***************************************************************************)
EXTENDS Naturals, Sequences, FiniteSets, SequencesExt

CONSTANTS
  Names,      \* of Applications, and of their Ingresses
  Extensions, \* [loads, configMap, validation, defaulting, perms]
  Files,      \* [config, tests]; a test is a function from some of Kinds
  Faults,     \* errors that a cluster may give to any call: a fake one none
  None

Specs == {"plain", "bare", "badpath", "foreign", "unused"}
Kinds == <<"validate", "defaulting", "sync", "delete">>
Types == {"create", "update", "delete"}

Objects == [spec : Specs, label : BOOLEAN]
Calls   == [pc : {"return", "fail", "get", "update", "create", "delete", "synced", "deleted",
                  "refused", "lookup"},
            obj : Objects, looked : Nat]
IsList(s) == s \in Seq(ToSet(s))

ASSUME TestAssumption ==
  /\ None \notin Names \cup Specs \cup Objects /\ None \notin Calls
  /\ \A f \in Files :
       /\ IsList(f.tests)
       /\ \A t \in ToSet(f.tests) :
            /\ DOMAIN t \subseteq ToSet(Kinds)
            /\ \A k \in DOMAIN t : LET r == t[k].resource
                                   IN  r = None \/ (r.name \in Names /\ r.spec \in Specs)
            /\ "sync" \in DOMAIN t => IsList(t["sync"].lookup)
            /\ "delete" \in DOMAIN t => IsList(t["delete"].notFound)

VARIABLES
  extension, file,
  cluster,  \* the rules of each Ingress, or None
  call,     \* the call of the extension, or the lookups after it, or None
  todo,     \* the next test
  verdict,  \* "running", "passed", "failed", "error" or "panicked"
  seen      \* history: for each test that was run, what came of its call

vars == <<extension, file, cluster, call, todo, verdict, seen>>

-----------------------------------------------------------------------------
(* The host functions (waruntime/errors.go, runner.go).  Calls that fail give *)
(* a number to the guest; deleteResource gives 0 if it does not.              *)

ClientErrors == <<"Unknown", "NotFound", "AlreadyExists", "Invalid", "Forbidden", "Conflict",
  "BadRequest", "Gone", "InternalError", "MethodNotSupported", "NotAcceptable",
  "EntityTooLarge", "ResourceExpired", "ServerTimeout", "ServiceUnavailable", "Timeout",
  "TooManyRequests", "Unauthorized", "UnexpectedObject", "UnexpectedServerError",
  "UnsupportedMediaType">>

\* An error that is none of the known ones is Unknown, which is 0.
toClientError(err) ==
  IF Contains(Tail(ClientErrors), err)
  THEN (CHOOSE i \in DOMAIN ClientErrors : ClientErrors[i] = err) - 1
  ELSE 0

Succeeds == "ok"

\* What the cluster says to a call that is well formed.
ClusterSays(method, name) ==
  CASE method = "create" /\ cluster[name] # None -> "AlreadyExists"
    [] method # "create" /\ cluster[name] = None -> "NotFound"
    [] OTHER -> Succeeds

\* Mutant: an error without an API status.
NotAllowedPlain == "not allowed"
\* isAllowed
NotAllowed == "Forbidden"

\* getResource, deleteResource, createResource, updateResource.
HostCall(method, name) ==
  IF method \in extension.perms THEN {ClusterSays(method, name)} \cup Faults ELSE {NotAllowed}

Effect(method, name, rules, said) ==
  cluster' = IF said = Succeeds /\ method # "get"
             THEN [cluster EXCEPT ![name] = rules] ELSE cluster

-----------------------------------------------------------------------------
(* Tests. *)

Test == file.tests[todo]
Kind == SelectInSeq(Kinds, LAMBDA k : k \in DOMAIN Test)

\* Test runs the first of its parts.
Runs(kind) ==
  /\ verdict = "running" /\ call = None /\ todo <= Len(file.tests)
  /\ Kind > 0 /\ Kinds[Kind] = kind

Object(resource) == [spec |-> resource.spec, label |-> FALSE]
Expected(t) == IF t.expected = None THEN Object(t.resource) ELSE t.expected

\* What comes of a call.
Outcome(err, obj) == [err |-> err, obj |-> obj, cluster |-> cluster]

\* testFile stops at the first test that fails.
Judge(ok) ==
  /\ verdict' = IF ~ok THEN "failed"
                ELSE IF todo = Len(file.tests) THEN "passed" ELSE "running"
  /\ todo' = todo + 1
  /\ call' = None

\* There is nothing to dereference: the program ends.
Panic ==
  /\ verdict' = "panicked"
  /\ UNCHANGED <<extension, file, cluster, call, todo, seen>>

\* Runner.instance reads the ConfigMap of the extension, which is there if the
\* file has a config.
InstanceFails == extension.configMap /\ ~file.config

\* testFile: the fake cluster has the config, the extension is added.
Load ==
  /\ verdict = "loading"
  /\ verdict' = IF (file.config /\ ~extension.configMap) \/ ~extension.loads THEN "error"
                ELSE IF file.tests = <<>> THEN "passed" ELSE "running"
  /\ UNCHANGED <<extension, file, cluster, call, todo, seen>>

NoTest ==
  /\ verdict = "running" /\ call = None /\ todo <= Len(file.tests) /\ Kind = 0
  /\ seen' = Append(seen, Outcome(FALSE, None))
  /\ Judge(FALSE)
  /\ UNCHANGED <<extension, file, cluster>>

-----------------------------------------------------------------------------
(* validate and defaulting. *)

\* The guest gets no spec of an Application that does not use it, and cannot
\* parse that; nor of an update without a new object.
Traps(resource) == resource = None \/ resource.spec = "unused"

Complains(spec) == spec = "badpath" \/ (spec = "foreign" /\ file.config)

ValidateFails(v) ==
  /\ extension.validation
  /\ \/ InstanceFails
     \/ v.type # "delete" /\ (Traps(v.resource) \/ Complains(v.resource.spec))

\* The type has no default.  Without any object there is a panic.
Validate ==
  /\ Runs("validate")
  /\ LET v   == Test["validate"]
         err == ValidateFails(v)
     IN  IF v.type \in Types /\ v.resource = None /\ ~(v.type = "update" /\ v.old # None)
         THEN Panic
         ELSE /\ seen' = Append(seen, Outcome(err, None))
              /\ Judge(v.type \in Types /\ err = v.invalid)
              /\ UNCHANGED <<extension, file, cluster>>

\* The guest answers with the whole spec, paths filled in.
Defaulted(spec) == IF spec = "bare" THEN "plain" ELSE spec

\* There must be one answer: the extension has the webhook.
Defaulting ==
  /\ Runs("defaulting")
  /\ LET d   == Test["defaulting"]
         err == extension.defaulting /\ (InstanceFails \/ Traps(d.resource))
         obj == IF extension.defaulting /\ ~err
                THEN [Object(d.resource) EXCEPT !.spec = Defaulted(@)] ELSE None
     IN  IF d.resource = None THEN Panic
         ELSE /\ seen' = Append(seen, Outcome(err, obj))
              /\ Judge(~err /\ obj # None /\ obj = Expected(d))
              /\ UNCHANGED <<extension, file, cluster>>

-----------------------------------------------------------------------------
(* sync and delete. *)

\* The call of the guest begins, unless the Application does not use the
\* extension.
Begin(kind, first) ==
  /\ Runs(kind)
  /\ LET r == Test[kind].resource
     IN  IF r = None THEN Panic
         ELSE /\ call' = [pc |-> IF r.spec = "unused" THEN "return"
                                 ELSE IF InstanceFails THEN "fail" ELSE first,
                          obj |-> Object(r), looked |-> 0]
              /\ UNCHANGED <<extension, file, cluster, todo, verdict, seen>>

Sync   == Begin("sync", "get")
Delete == Begin("delete", "delete")

At(pc) == call # None /\ call.pc = pc
Resource == Test[Kinds[Kind]].resource
Goto(pc) == call' = [call EXCEPT !.pc = pc]

\* The guest asks for one resource; errors other than NotFound of the first
\* question end its function, without an error.
Guest(method, rules, next(_)) ==
  /\ At(method)
  /\ \E said \in HostCall(method, Resource.name) :
       /\ Effect(method, Resource.name, rules, said)
       /\ Goto(next(said))
  /\ UNCHANGED <<extension, file, todo, verdict, seen>>

AfterGet(said) ==
  CASE said = Succeeds -> "update"
    [] toClientError(said) = toClientError("NotFound") -> "create"
    [] OTHER -> "synced"

Get    == Guest("get", None, AfterGet)
Update == Guest("update", Resource.spec, LAMBDA said : "synced")
Create == Guest("create", Resource.spec, LAMBDA said : "synced")

\* The guest answers with an error unless it is told 0.
DeleteResource ==
  Guest("delete", None,
        LAMBDA said : IF said = Succeeds \/ toClientError(said) = 0 THEN "deleted" ELSE "refused")

\* The call returns.  The label that a guest of Sync sends first may be lost at
\* the end of the stream; the answer of Delete is not looked at.  Failing calls
\* are the end of the test, as are objects that differ.
Return ==
  /\ call # None /\ call.pc \in {"return", "fail", "synced", "deleted", "refused"}
  /\ \E label \in IF call.pc = "synced" THEN BOOLEAN ELSE {FALSE} :
       LET err == call.pc = "fail"
           obj == [call.obj EXCEPT !.label = label]
       IN  /\ seen' = Append(seen, Outcome(err, obj))
           /\ IF err \/ (Kinds[Kind] = "sync" /\ obj # Expected(Test["sync"]))
              THEN Judge(FALSE)
              ELSE Goto("lookup") /\ UNCHANGED <<todo, verdict>>
  /\ UNCHANGED <<extension, file, cluster>>

Lookups ==
  IF Kinds[Kind] = "sync" THEN Test["sync"].lookup
  ELSE [i \in DOMAIN Test["delete"].notFound |-> [name |-> Test["delete"].notFound[i], rules |-> None]]

\* Mutant: it is enough that there is such a resource.
FoundAny(lookup) == (cluster[lookup.name] = None) = (lookup.rules = None)
\* Get, and the comparison with what is expected.
Found(lookup) == cluster[lookup.name] = lookup.rules

Lookup ==
  /\ At("lookup")
  /\ IF call.looked = Len(Lookups) THEN Judge(TRUE)
     ELSE IF Found(Lookups[call.looked + 1])
     THEN call' = [call EXCEPT !.looked = @ + 1] /\ UNCHANGED <<todo, verdict>>
     ELSE Judge(FALSE)
  /\ UNCHANGED <<extension, file, cluster, seen>>

-----------------------------------------------------------------------------
Init ==
  /\ extension \in Extensions /\ file \in Files
  /\ cluster = [n \in Names |-> None]
  /\ call = None /\ todo = 1 /\ verdict = "loading" /\ seen = <<>>

Next ==
  \/ Load \/ NoTest \/ Validate \/ Defaulting \/ Sync \/ Delete
  \/ Get \/ Update \/ Create \/ DeleteResource \/ Return \/ Lookup

Spec == Init /\ [][Next]_vars

-----------------------------------------------------------------------------
(* Properties. *)

\* What the part `kind` of test t asks for, of what came of its call.
MetBy(t, kind, s) ==
  LET part == t[kind]
  IN  CASE kind = "validate"   -> part.type \in Types /\ s.err = part.invalid
        [] kind = "defaulting" -> ~s.err /\ s.obj = Expected(part)
        [] kind = "sync"       -> /\ ~s.err /\ s.obj = Expected(part)
                                  /\ \A l \in ToSet(part.lookup) : s.cluster[l.name] = l.rules
        [] kind = "delete"     -> ~s.err /\ \A n \in ToSet(part.notFound) : s.cluster[n] = None

\* The first part is what counts.
Met(t, s) ==
  \E k \in DOMAIN Kinds :
    /\ Kinds[k] \in DOMAIN t /\ \A j \in 1 .. k - 1 : Kinds[j] \notin DOMAIN t
    /\ MetBy(t, Kinds[k], s)

\* A file passes only if the first part of every test was met in the cluster
\* that the tests before it have left, and fails only at a test that was not met
\* after all before it were.
FileVerdictExact ==
  LET n == Len(seen)
  IN  /\ verdict = "passed" =>
           n = Len(file.tests) /\ \A i \in 1 .. n : Met(file.tests[i], seen[i])
      /\ verdict = "failed" =>
           ~Met(file.tests[n], seen[n]) /\ \A i \in 1 .. n - 1 : Met(file.tests[i], seen[i])

\* A guest that is told that its deletion succeeded can rely on it: an error
\* never looks like a success, although both are numbers.
DeleteAcknowledged ==
  [][At("delete") /\ call' # None /\ call'.pc = "deleted" => cluster'[Resource.name] = None]_vars

\* A file passes only if all parts of every test are met.
EveryPartMet ==
  verdict = "passed" =>
    \A i \in DOMAIN seen : \A kind \in DOMAIN file.tests[i] :
      kind \notin {"validate", "defaulting"} => MetBy(file.tests[i], kind, seen[i])

\* The type of a validation defaults to "create".
TypeHasDefault ==
  verdict = "failed" =>
    LET t == file.tests[Len(seen)]
    IN  "validate" \in DOMAIN t => t["validate"].type # ""

\* A Delete that the extension answers with an error is an error.
RefusalIsError ==
  [][At("refused") /\ call' # call => seen'[Len(seen')].err]_vars

\* A test of a Sync with the label it adds and the Ingress it creates passes if
\* the extension may do that.
FixturePasses ==
  verdict = "failed" =>
    LET t == file.tests[Len(seen)]
    IN  "sync" \in DOMAIN t =>
          t["sync"].expected = None \/ t["sync"].expected.label = FALSE
=============================================================================
