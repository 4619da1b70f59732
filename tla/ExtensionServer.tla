--------------------------- MODULE ExtensionServer ---------------------------
(***************************************************************************)
(* The SDK for extensions that are servers (extension/server.go,           *)
(* wrapper.go, protogen/), with the extension that the repository has as   *)
(* an example (extension/example/controller/ingress.go): a server that     *)
(* starts, takes calls, stops or dies, and for one Application the calls   *)
(* of the operator, each of which is a handler that reads and writes one   *)
(* Ingress of the cluster.                                                 *)
(*                                                                         *)
(* Of the operator (internal/controller/reconciler.go) there is what calls *)
(* the extension, and what it makes of the answer: Sync is tried until it  *)
(* succeeds, as is the Delete for an Application that is deleted; a Delete *)
(* because the extension is no longer used is tried once.  Its reads are   *)
(* up to date here, and it has added its finalizer (see AppReconciler).    *)
(* Webhooks call at any time.                                              *)
(***************************************************************************)
EXTENDS Integers, Sequences

CONSTANTS
  Slots,      \* identities of calls
  Revisions,  \* the revisions of the Application: what each has under the
              \* keys of the extension, one of Specs, Bad or Empty, or Gone
  Specs,      \* what the type of the extension can be decoded from
  Bad,        \* what it cannot be decoded from
  Empty,      \* nothing: the extension is not used
  Gone,       \* the Application is deleted
  None,
  Shown,      \* what webhooks are shown under those keys
  HasWebhooks,\* the extension implements Validate and Default
  UsesOwner,  \* and its Validate reads the owner
  MaxFaults,  \* failing calls of the extension to the cluster
  MaxEnds,    \* deaths of the server, of the operator, and stops
  MaxWebhooks \* calls of webhooks

\* What decoding yields besides an object: nothing, the zero value, an error.
Nil   == "nil"
Zero  == "zero"
Fails == "error"

ASSUME ServerAssumption ==
  /\ Revisions \in Seq(Specs \cup {Bad, Empty, Gone}) /\ Revisions # <<>>
  /\ {Bad, Empty, Gone, None, Nil, Zero, Fails} \cap Specs = {}
  /\ Bad # Empty /\ Gone \notin {Bad, Empty} /\ None \notin {Bad, Empty, Gone}
  /\ None \notin Slots /\ Shown \subseteq Specs \cup {Bad, Empty}
  /\ HasWebhooks \in BOOLEAN /\ UsesOwner \in BOOLEAN
  /\ MaxFaults \in Nat /\ MaxEnds \in Nat /\ MaxWebhooks \in Nat

\* What is deleted was there.  Between two deletions no content comes twice: the
\* operator does not notice an edit that is undone before it looks.
ASSUME RevisionsAssumption ==
  \A i \in DOMAIN Revisions :
    /\ Revisions[i] = Gone => i > 1 /\ Revisions[i - 1] # Gone
    /\ \A j \in DOMAIN Revisions : i < j /\ Revisions[i] = Revisions[j] =>
         \E k \in i..j : Revisions[k] = Gone

VARIABLES
  want,    \* the revision that the user has written
  done,    \* the revision whose hash is in the status, or whose finalizer is gone
  listed,  \* Status.Extensions has the extension
  op,      \* the call that the worker of the operator waits for, or None
  result,  \* what it has to write when it has waited, or None
  calls,   \* for each slot a call, or None
  server,  \* "down", "serving" or "draining"
  ingress, \* the Ingress at the API server, or None
  version, \* the last resourceVersion given out
  late,    \* history: a Delete has taken effect after its call had ended
  spent

vars == <<want, done, listed, op, result, calls, server, ingress, version, late, spent>>
status  == <<done, listed>>
cluster == <<ingress, version, late>>

-----------------------------------------------------------------------------
(* Messages.  A message that is left out is None, and its getters answer. *)

Owner == "owner"
SyncRequest(spec) == [owner |-> Owner, spec |-> spec]
ValidationRequest(type, sync, old) == [type |-> type, sync |-> sync, old |-> old]

GetSpec(req)  == IF req = None THEN Empty ELSE req.spec
GetOwner(req) == IF req = None THEN None ELSE req.owner

\* What validate of the operator sends: both objects, but only the old one for
\* a deletion and only the new one for a creation.
ValidationRequests ==
  {ValidationRequest("update", SyncRequest(s), SyncRequest(t)) : s, t \in Shown} \cup
  {ValidationRequest("create", SyncRequest(s), None) : s \in Shown} \cup
  {ValidationRequest("delete", None, SyncRequest(s)) : s \in Shown}

Call(method, rev, req) ==
  [method |-> method, rev |-> rev, req |-> req, pc |-> "sent", base |-> 0]

\* Where a handler is; "lost" is a write that is on its way to the API server
\* when its handler has ended.
Writes  == {"create", "update", "delete"}
Running == {"decode", "get"} \cup Writes

SyncRequests == [owner : {Owner}, spec : Specs \cup {Bad, Empty}]
Results   == [rev : Nat, listed : BOOLEAN]
Calls     == [method : {"Sync", "Delete", "Validate", "Default"}, rev : Nat,
              req : SyncRequests \cup ValidationRequests, pc : {"sent", "lost"} \cup Running,
              base : Nat]
Ingresses == [rules : Specs, version : Nat]

ASSUME NoneAssumption == None \notin SyncRequests \cup Calls \cup Ingresses \cup Results

Waiting == {c \in Slots : calls[c] # None}
At(c, pcs) == calls[c] # None /\ calls[c].pc \in pcs

Spend(what, limit) ==
  /\ spent[what] < limit
  /\ spent' = [spent EXCEPT ![what] = @ + 1]

-----------------------------------------------------------------------------
(* The operator and the user. *)

\* The spec of an object that is being deleted is still there.
SpecAt(rev) == IF Revisions[rev] = Gone THEN Revisions[rev - 1] ELSE Revisions[rev]

\* A name is free again when the finalizer is gone.
Edit ==
  /\ want + 1 \in DOMAIN Revisions
  /\ Revisions[want] = Gone => done = want
  /\ want' = want + 1
  /\ UNCHANGED <<status, op, result, calls, server, cluster, spent>>

\* A deleted Application, or one that does not use the extension, makes a
\* difference to those that its spec selects, or its status lists.
NothingToDelete(rev) ==
  \/ Revisions[rev] = Gone /\ SpecAt(rev) = Empty
  \/ Revisions[rev] = Empty /\ ~listed

\* One turn of Reconcile until the extension is called.  The client's stub opens
\* a stream, sends and closes its end; for Delete it invokes.
Reconcile ==
  /\ op = None /\ result = None /\ done # want
  /\ \/ /\ NothingToDelete(want)
        /\ result' = [rev |-> want, listed |-> FALSE]
        /\ UNCHANGED <<op, calls>>
     \/ /\ ~NothingToDelete(want)
        /\ \E c \in Slots \ Waiting :
             /\ op' = c
             /\ calls' = [calls EXCEPT ![c] =
                  Call(IF Revisions[want] \in {Empty, Gone} THEN "Delete" ELSE "Sync", want,
                       SyncRequest(SpecAt(want)))]
        /\ UNCHANGED result
  /\ UNCHANGED <<want, status, server, cluster, spent>>

\* The end of the turn: the status with the hash and the list, or the update
\* that takes the finalizer away.  An edit in between is a conflict.
Record ==
  /\ result # None /\ result' = None
  /\ \/ /\ result.rev = want
        /\ done' = want /\ listed' = result.listed /\ UNCHANGED spent
     \/ /\ result.rev # want /\ UNCHANGED <<status, spent>>
     \/ /\ Spend("faults", MaxFaults) /\ UNCHANGED status
  /\ UNCHANGED <<want, op, calls, server, cluster>>

Webhook ==
  /\ Spend("webhooks", MaxWebhooks)
  /\ \E c \in Slots \ Waiting :
       \/ \E req \in ValidationRequests :
            calls' = [calls EXCEPT ![c] = Call("Validate", want, req)]
       \/ \E s \in Shown :
            calls' = [calls EXCEPT ![c] = Call("Default", want, SyncRequest(s))]
  /\ UNCHANGED <<want, status, op, result, server, cluster>>

\* What Reconcile makes of an answer.  An error ends the turn, but that of a
\* Delete because the extension is no longer used is logged, and the extension
\* stays in the list.
Outcome(call, ok) ==
  IF ok THEN [rev |-> call.rev, listed |-> call.method = "Sync"]
  ELSE IF Revisions[call.rev] = Empty THEN [rev |-> call.rev, listed |-> TRUE]
  ELSE None

\* Call c ends, for the client too.
Answer(c, ok) ==
  /\ calls' = [calls EXCEPT ![c] = None]
  /\ IF op = c
     THEN op' = None /\ result' = Outcome(calls[c], ok)
     ELSE UNCHANGED <<op, result>>

\* The context of a call is cancelled, or its process has died: what it does
\* next fails, but a write that was sent may still take effect.
Cut(call) ==
  IF call # None /\ call.pc \in Writes \cup {"lost"}
  THEN [call EXCEPT !.pc = "lost"]
  ELSE None

\* The operator dies; its connection is closed.
OperatorDies ==
  /\ op # None \/ result # None
  /\ Spend("ends", MaxEnds)
  /\ op' = None /\ result' = None
  /\ calls' = [c \in Slots |-> Cut(calls[c])]
  /\ UNCHANGED <<want, status, server, cluster>>

-----------------------------------------------------------------------------
(* Serve. *)

\* Listen, read the pages, register the service, serve.
Boot ==
  /\ server = "down"
  /\ server' = "serving"
  /\ UNCHANGED <<want, status, op, result, calls, cluster, spent>>

\* The context that Serve is given ends, or the listener fails and the errgroup
\* cancels it: GracefulStop closes the listener and waits for the handlers.
Stop ==
  /\ server = "serving" /\ Spend("ends", MaxEnds)
  /\ server' = "draining"
  /\ UNCHANGED <<want, status, op, result, calls, cluster>>

\* All calls that are in the server fail at once.
Die ==
  /\ server' = "down"
  /\ calls' = [c \in Slots |-> IF At(c, Running) THEN Cut(calls[c]) ELSE calls[c]]
  /\ IF op # None /\ At(op, Running)
     THEN op' = None /\ result' = Outcome(calls[op], FALSE)
     ELSE UNCHANGED <<op, result>>
  /\ UNCHANGED <<want, status, cluster>>

\* Mutant: Stop in place of GracefulStop.
DrainedAtOnce ==
  /\ server = "draining" /\ Die
  /\ UNCHANGED spent

\* Wait returns when no handler runs, and the program ends.
Drained ==
  /\ server = "draining"
  /\ \A c \in Slots : ~At(c, Running)
  /\ server' = "down"
  /\ UNCHANGED <<want, status, op, result, calls, cluster, spent>>

ServerDies == server # "down" /\ Spend("ends", MaxEnds) /\ Die

\* A call is taken by a handler, or refused because nobody listens.
Accept(c) ==
  /\ At(c, {"sent"})
  /\ IF server = "serving"
     THEN calls' = [calls EXCEPT ![c].pc = "decode"] /\ UNCHANGED <<op, result>>
     ELSE Answer(c, FALSE)
  /\ UNCHANGED <<want, status, server, cluster, spent>>

-----------------------------------------------------------------------------
(* The handlers of the SDK.  The object of a call without a spec is nil, but for
   Validate, which makes one. *)

Decode(spec, empty) ==
  CASE spec = Empty -> empty
    [] spec = Bad   -> Fails
    [] OTHER        -> spec

Goto(c, pc) == calls' = [calls EXCEPT ![c].pc = pc] /\ UNCHANGED <<op, result>>

\* Sync and Delete decode, and call the extension.
DecodeObject(c) ==
  /\ At(c, {"decode"}) /\ calls[c].method \in {"Sync", "Delete"}
  /\ LET obj == Decode(GetSpec(calls[c].req), Nil)
     IN  IF obj = Fails THEN Answer(c, FALSE)
         ELSE Goto(c, IF calls[c].method = "Sync" THEN "get" ELSE "delete")
  /\ UNCHANGED <<want, status, server, cluster, spent>>

\* Default: without an implementation the answer is empty.
Default(c) ==
  /\ At(c, {"decode"}) /\ calls[c].method = "Default"
  /\ Answer(c, ~HasWebhooks \/ Decode(GetSpec(calls[c].req), Nil) # Fails)
  /\ UNCHANGED <<want, status, server, cluster, spent>>

\* Validate hands on the owner of the new object, which a deletion does not
\* have: its accessors dereference nil, and a panic in a handler is the end of
\* the process.
Validate(c) ==
  /\ At(c, {"decode"}) /\ calls[c].method = "Validate"
  /\ LET req     == calls[c].req
         objects == {Decode(GetSpec(req.sync), Zero), Decode(GetSpec(req.old), Zero)}
     IN  IF HasWebhooks /\ Fails \notin objects /\ UsesOwner /\ GetOwner(req.sync) = None
         THEN Die
         ELSE /\ Answer(c, ~HasWebhooks \/ Fails \notin objects)
              /\ UNCHANGED <<want, status, server, cluster>>
  /\ UNCHANGED spent

-----------------------------------------------------------------------------
(* IngressExtension. *)

\* Sync reads the Ingress.
Get(c) ==
  /\ At(c, {"get"})
  /\ \/ /\ IF ingress = None THEN Goto(c, "create")
           ELSE /\ calls' = [calls EXCEPT ![c].pc = "update", ![c].base = ingress.version]
                /\ UNCHANGED <<op, result>>
        /\ UNCHANGED spent
     \/ Spend("faults", MaxFaults) /\ Answer(c, FALSE)
  /\ UNCHANGED <<want, status, server, cluster>>

\* What the API server does with a write.
Store(rules) ==
  /\ version' = version + 1
  /\ ingress' = [rules |-> rules, version |-> version + 1]
\* Mutant: Sync writes an Ingress without the resourceVersion that it read.
AcceptedAnyVersion(call, pc) ==
  CASE pc = "create" -> ingress = None
    [] OTHER         -> ingress # None
Accepted(call, pc) ==
  CASE pc = "create" -> ingress = None
    [] pc = "update" -> ingress # None /\ ingress.version = call.base
    [] pc = "delete" -> ingress # None
Effect(call, pc) ==
  /\ IF pc = "delete" THEN ingress' = None /\ UNCHANGED version
     ELSE Store(GetSpec(call.req))
  /\ late' = (late \/ (pc = "delete" /\ call.pc = "lost"))

\* Mutant: NotFound is an error for Delete too.
WriteStrict(c, pc) ==
  /\ At(c, {pc})
  /\ \/ /\ IF Accepted(calls[c], pc) THEN Effect(calls[c], pc) /\ Answer(c, TRUE)
           ELSE Answer(c, FALSE) /\ UNCHANGED cluster
        /\ UNCHANGED spent
     \/ /\ Spend("faults", MaxFaults) /\ Answer(c, FALSE)
        /\ \/ UNCHANGED cluster
           \/ Accepted(calls[c], pc) /\ Effect(calls[c], pc)
  /\ UNCHANGED <<want, status, server>>

\* Create, Update and Delete of the Ingress.  AlreadyExists and Conflict are
\* errors, NotFound is one for Update only.  A call that fails may have had its
\* effect.
Write(c, pc) ==
  /\ At(c, {pc})
  /\ \/ /\ IF Accepted(calls[c], pc) THEN Effect(calls[c], pc) /\ Answer(c, TRUE)
           ELSE Answer(c, pc = "delete") /\ UNCHANGED cluster
        /\ UNCHANGED spent
     \/ /\ Spend("faults", MaxFaults) /\ Answer(c, FALSE)
        /\ \/ UNCHANGED cluster
           \/ Accepted(calls[c], pc) /\ Effect(calls[c], pc)
  /\ UNCHANGED <<want, status, server>>

\* A write whose handler is gone arrives, or does not.
Arrive(c) ==
  /\ At(c, {"lost"})
  /\ LET call == calls[c]
         pc == IF call.method = "Delete" THEN "delete"
               ELSE IF call.base = 0 THEN "create" ELSE "update"
     IN  \/ Accepted(call, pc) /\ Effect(call, pc)
         \/ UNCHANGED cluster
  /\ calls' = [calls EXCEPT ![c] = None]
  /\ UNCHANGED <<want, status, op, result, server, spent>>

-----------------------------------------------------------------------------
Init ==
  /\ want = 1 /\ done = 0 /\ listed = FALSE /\ op = None /\ result = None
  /\ calls = [c \in Slots |-> None]
  /\ server = "down"
  /\ ingress = None /\ version = 0 /\ late = FALSE
  /\ spent = [faults |-> 0, ends |-> 0, webhooks |-> 0]

Handle(c) ==
  \/ Accept(c) \/ DecodeObject(c) \/ Default(c) \/ Validate(c) \/ Get(c)
  \/ \E pc \in Writes : Write(c, pc)

Disturb == Edit \/ Webhook \/ OperatorDies \/ Stop \/ ServerDies

Next ==
  \/ Disturb \/ Reconcile \/ Record \/ Boot \/ Drained
  \/ \E c \in Slots : Handle(c) \/ Arrive(c)

Spec == Init /\ [][Next]_vars

\* The queue gives back what failed, Kubernetes starts the server again, handlers run, and
\* a write does not stay on its way for ever.
FairSpec ==
  /\ Spec
  /\ WF_vars(Reconcile) /\ WF_vars(Record) /\ WF_vars(Boot) /\ WF_vars(Drained)
  /\ \A c \in Slots : WF_vars(Handle(c)) /\ WF_vars(Arrive(c))

-----------------------------------------------------------------------------
(* Properties. *)

TypeOK ==
  /\ want \in DOMAIN Revisions /\ done \in Nat /\ done <= want
  /\ listed \in BOOLEAN /\ result \in Results \cup {None}
  /\ op \in Slots \cup {None} /\ calls \in [Slots -> Calls \cup {None}]
  /\ server \in {"down", "serving", "draining"}
  /\ version \in Nat /\ ingress \in Ingresses \cup {None}
  /\ ingress # None => ingress.version <= version
  /\ spent \in [{"faults", "ends", "webhooks"} -> Nat]

\* When the status says that the spec is synced, and the spec uses the extension,
\* the Ingress has the rules of the spec: a Create or an Update that arrives
\* after the operator or the server has died does not undo them.  A Delete that
\* arrives so late does.
AnsweredMeansRouted ==
  done = want /\ Revisions[want] \in Specs /\ ~late
    => ingress # None /\ ingress.rules = Revisions[want]

\* A call that the server has taken fails only because a call to the cluster
\* failed, a process died, the spec is not of the extension's type, or somebody
\* else wrote the Ingress after it was read: a stop of the server cuts nothing.
NoCallCut ==
  [][\A c \in Slots :
       (op = c /\ op' = None /\ result' # Outcome(calls[c], TRUE) /\ calls[c].pc # "sent")
         => \/ spent' # spent
            \/ SpecAt(calls[c].rev) = Bad
            \/ \E d \in Slots : At(d, {"decode"}) /\ calls[d].method = "Validate"
            \/ calls[c].pc = "create" /\ ingress # None
            \/ calls[c].pc = "update" /\ (ingress = None \/ ingress.version # calls[c].base)]_vars

\* In the end the operator is through with what the user wrote last, if the
\* extension can decode it, and an Application that is deleted is gone: answers
\* that were lost, writes that arrive late, and a server that stops or panics are
\* made up for.
SyncedInTheEnd == <>[](SpecAt(want) = Bad \/ done = want)

\* In the end an extension that is not used any more has been told to delete what
\* it made, and the status does not list it.
UnusedInTheEnd == <>[](Revisions[want] = Empty /\ done = want => ~listed)

\* What AnsweredMeansRouted says, of a Delete that arrives late too.
RoutedForGood ==
  done = want /\ Revisions[want] \in Specs
    => ingress # None /\ ingress.rules = Revisions[want]

\* When the Application is gone, there is no Ingress.
DeletedStaysGone == done = want /\ Revisions[want] = Gone => ingress = None

\* A webhook never ends the server.
WebhooksHarmless ==
  [][server # "down" /\ server' = "down" => server = "draining" \/ spent' # spent]_vars
=============================================================================
