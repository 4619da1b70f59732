--------------------------- MODULE WasiCallsProofs ---------------------------
(***************************************************************************)
(* Theorems about WasiCalls, for any calls of the worker and the webhooks, *)
(* any modules, and any number of loads: what the calls of one WASI object *)
(* may and may not do to each other although they share its field.  At the *)
(* end, theorems about WasiStream, the stream of a call of Sync, whose     *)
(* variables are its own.                                                  *)
(***************************************************************************)
EXTENDS WasiCalls, WasiStream, SequenceTheorems, TLAPS

-----------------------------------------------------------------------------
(* Types. *)

AllKinds == {"sync", "delete", "default", "validate"}
PCs == {"idle", "begin", "made", "set", "assign", "instantiate", "run", "done"}

Runners == [load : Nat, host : BOOLEAN, sync : Calls \cup {None},
            validation : Calls \cup {None}, errors : SUBSET Calls]

ModuleType ==
  /\ loads \in Seq(Modules) /\ objects \in Seq(Modules)
  /\ instance \in Seq(Calls \cup {None}) /\ Len(instance) = Len(objects)

CallType ==
  /\ runner \in [Calls -> Runners]
  /\ kind \in [Calls -> AllKinds \cup {None}] /\ pc \in [Calls -> PCs]
  /\ obj \in [Calls -> Nat] /\ on \in [Calls -> Calls \cup {None}]

HistoryType ==
  /\ got \in [Calls -> [from : Calls \cup {None}, method : Methods \cup {None}]]
  /\ since \in [Calls -> Nat] /\ complained \subseteq Calls

Typed == ModuleType /\ CallType /\ HistoryType

LEMMA KindsType ==
  ASSUME NEW c \in Calls, NEW k \in Kinds[c]
  PROVE  /\ k \in AllKinds
         /\ c \in WorkerCalls => k \in {"sync", "delete"}
         /\ c \in WebhookCalls => k \in {"default", "validate"}
BY CallsAssumption DEF Calls, AllKinds

(***************************************************************************)
(* Where a call is on its way: what Begin, NewRunner, SetInstance and      *)
(* GetInstance have set for it, and what may refer to it.                  *)
(***************************************************************************)
WayInv ==
  /\ objects # <<>> => loads # <<>>
  /\ \A i \in 1..Len(instance) :
       instance[i] # None => pc[instance[i]] \notin {"idle", "begin", "made"}
  /\ \A c \in Calls :
       /\ pc[c] # "idle" => /\ kind[c] \in AllKinds
                            /\ c \in WorkerCalls => kind[c] \in {"sync", "delete"}
                            /\ c \in WebhookCalls => kind[c] \in {"default", "validate"}
       /\ pc[c] \notin {"idle", "done"} => obj[c] \in 1..Len(objects)
       /\ pc[c] = "set" => instance[obj[c]] # None
       /\ pc[c] \in {"idle", "begin", "made", "set"} => on[c] = None
       /\ pc[c] \in {"assign", "instantiate", "run"} => on[c] # None
       /\ pc[c] = "assign" => kind[c] = "sync"
       /\ on[c] # None => pc[on[c]] \notin {"idle", "begin", "made"}
       /\ pc[c] \notin {"idle", "begin"} => runner[c].load \in 1..Len(loads)

\* A sequence with one element more.
LEMMA AppendedOne ==
  ASSUME NEW S, NEW q \in Seq(S), NEW x \in S
  PROVE  /\ Append(q, x) \in Seq(S) /\ Len(q) \in Nat /\ Len(Append(q, x)) = Len(q) + 1
         /\ Append(q, x)[Len(q) + 1] = x /\ \A i \in 1..Len(q) : Append(q, x)[i] = q[i]
         /\ Append(q, x) # <<>>
OBVIOUS

\* What AddWASI leaves of the modules and objects that are there.
LEMMA Added ==
  ASSUME Typed, NEW m \in Modules, NEW docs \in BOOLEAN, AddWASI(m, docs)
  PROVE  /\ ModuleType'
         /\ Len(loads) \in Nat /\ Len(loads') \in Nat /\ Len(loads) <= Len(loads')
         /\ \A i \in 1..Len(loads) : loads'[i] = loads[i]
         /\ Len(objects) \in Nat /\ Len(objects') \in Nat /\ Len(objects) <= Len(objects')
         /\ \A i \in 1..Len(instance) : instance'[i] = instance[i]
         /\ \A i \in 1..Len(instance') : i \in 1..Len(instance) \/ instance'[i] = None
         /\ loads' # <<>>
         /\ UNCHANGED <<runner, kind, pc, obj, on, got, since, complained>>
<1>1. /\ loads \in Seq(Modules) /\ objects \in Seq(Modules)
      /\ instance \in Seq(Calls \cup {None}) /\ Len(instance) = Len(objects)
  BY DEF Typed, ModuleType
<1>2. (loads' = loads /\ loads # <<>>) \/ loads' = Append(loads, m)
  BY DEF AddWASI, Load, Known
<1>3. /\ loads' \in Seq(Modules) /\ Len(loads) \in Nat /\ Len(loads') \in Nat
      /\ Len(loads) <= Len(loads') /\ \A i \in 1..Len(loads) : loads'[i] = loads[i]
      /\ loads' # <<>>
  <2>1. CASE loads' = loads /\ loads # <<>>
    BY <1>1, <2>1
  <2>2. CASE loads' = Append(loads, m)
    BY <1>1, <2>2, AppendedOne
  <2> QED BY <1>2, <2>1, <2>2
<1>4. \/ objects' = objects /\ instance' = instance
      \/ objects' = Append(objects, m) /\ instance' = Append(instance, None)
  BY DEF AddWASI, NewWASI
<1>5. /\ objects' \in Seq(Modules) /\ instance' \in Seq(Calls \cup {None})
      /\ Len(instance') = Len(objects')
      /\ Len(objects) \in Nat /\ Len(objects') \in Nat /\ Len(objects) <= Len(objects')
      /\ \A i \in 1..Len(instance) : instance'[i] = instance[i]
      /\ \A i \in 1..Len(instance') : i \in 1..Len(instance) \/ instance'[i] = None
  <2>1. CASE objects' = objects /\ instance' = instance
    BY <1>1, <2>1
  <2>2. CASE objects' = Append(objects, m) /\ instance' = Append(instance, None)
    BY <1>1, <2>2, AppendedOne
  <2> QED BY <1>4, <2>1, <2>2
<1> QED BY <1>3, <1>5 DEF ModuleType, AddWASI, guest

\* The runner that Instantiate leaves behind.
LEMMA Instantiated ==
  ASSUME Typed, NEW c \in Calls, Instantiate(c), on[c] \in Calls
  PROVE  /\ runner' \in [Calls -> Runners]
         /\ \A r \in Calls \ {on[c]} : runner'[r] = runner[r]
         /\ runner'[on[c]].host /\ runner'[on[c]].load = runner[on[c]].load
         /\ runner'[on[c]].errors = runner[on[c]].errors
         /\ runner'[on[c]].sync = IF kind[c] \in {"sync", "validate"} THEN runner[on[c]].sync ELSE c
         /\ runner'[on[c]].validation = IF kind[c] = "validate" THEN c
                                        ELSE runner[on[c]].validation
<1> DEFINE hosted == [runner[on[c]] EXCEPT !.host = TRUE]
           new == WithRequest(hosted, c)
<1>1. runner \in [Calls -> Runners] /\ runner[on[c]] \in Runners
  BY DEF Typed, CallType
<1>2. /\ hosted \in Runners /\ hosted.host /\ hosted.load = runner[on[c]].load
      /\ hosted.errors = runner[on[c]].errors /\ hosted.sync = runner[on[c]].sync
      /\ hosted.validation = runner[on[c]].validation
  BY <1>1 DEF Runners
<1>3. runner' = [runner EXCEPT ![on[c]] = new]
  BY DEF Instantiate
<1> HIDE DEF hosted
<1>4. /\ new \in Runners /\ new.host /\ new.load = hosted.load /\ new.errors = hosted.errors
      /\ new.sync = IF kind[c] \in {"sync", "validate"} THEN hosted.sync ELSE c
      /\ new.validation = IF kind[c] = "validate" THEN c ELSE hosted.validation
  <2>1. CASE kind[c] = "sync"
    BY <1>2, <2>1 DEF WithRequest
  <2>2. CASE kind[c] = "validate"
    <3>1. new = [hosted EXCEPT !.validation = c]
      BY <2>2 DEF WithRequest
    <3> QED BY <1>2, <2>2, <3>1 DEF Runners
  <2>3. CASE kind[c] \notin {"sync", "validate"}
    <3>1. new = [hosted EXCEPT !.sync = c]
      BY <2>3 DEF WithRequest
    <3> QED BY <1>2, <2>3, <3>1 DEF Runners
  <2> QED BY <2>1, <2>2, <2>3
<1> HIDE DEF new
<1> QED BY <1>1, <1>2, <1>3, <1>4

\* What the other steps do to the runner that a call is on.
LEMMA Touched ==
  ASSUME Typed, NEW c \in Calls, on[c] \in Calls,
         AssignRequest(c) \/ InstantiateFails(c) \/ ValidationError(c)
  PROVE  /\ runner' \in [Calls -> Runners]
         /\ \A r \in Calls \ {on[c]} : runner'[r] = runner[r]
         /\ runner'[on[c]].load = runner[on[c]].load
         /\ runner'[on[c]].validation = runner[on[c]].validation
         /\ runner'[on[c]].sync = IF pc[c] = "assign" THEN c ELSE runner[on[c]].sync
         /\ runner'[on[c]].errors = IF pc[c] = "run" THEN runner[on[c]].errors \cup {c}
                                                    ELSE runner[on[c]].errors
         /\ runner[on[c]].host => runner'[on[c]].host
         /\ pc[c] # "instantiate" => runner'[on[c]].host = runner[on[c]].host
<1>1. runner \in [Calls -> Runners] /\ runner[on[c]] \in Runners
  BY DEF Typed, CallType
<1>2. CASE AssignRequest(c)
  <2>1. runner' = [runner EXCEPT ![on[c]] = [runner[on[c]] EXCEPT !.sync = c]]
    BY <1>2 DEF AssignRequest
  <2> QED BY <1>1, <1>2, <2>1 DEF AssignRequest, Runners
<1>3. CASE InstantiateFails(c)
  <2>1. \/ runner' = runner
        \/ runner' = [runner EXCEPT ![on[c]] = [runner[on[c]] EXCEPT !.host = TRUE]]
    BY <1>3 DEF InstantiateFails
  <2>2. pc[c] = "instantiate"
    BY <1>3 DEF InstantiateFails
  <2> DEFINE new == [runner[on[c]] EXCEPT !.host = TRUE]
  <2>3. /\ new \in Runners /\ new.errors = runner[on[c]].errors
        /\ new.load = runner[on[c]].load /\ new.host /\ new.sync = runner[on[c]].sync
        /\ new.validation = runner[on[c]].validation
    BY <1>1 DEF Runners
  <2>4. runner' = runner \/ runner' = [runner EXCEPT ![on[c]] = new]
    BY <2>1
  <2> HIDE DEF new
  <2> QED BY <1>1, <2>2, <2>3, <2>4
<1>4. CASE ValidationError(c)
  <2> DEFINE more == runner[on[c]].errors \cup {c}
             new  == [runner[on[c]] EXCEPT !.errors = more]
  <2>1. runner' = [runner EXCEPT ![on[c]] = new]
    BY <1>4 DEF ValidationError
  <2>2. more \in SUBSET Calls
    BY <1>1 DEF Runners
  <2> HIDE DEF more
  <2>3. /\ new \in Runners /\ new.errors = more /\ new.load = runner[on[c]].load
        /\ new.host = runner[on[c]].host /\ new.sync = runner[on[c]].sync
        /\ new.validation = runner[on[c]].validation
    BY <1>1, <2>2 DEF Runners
  <2>4. pc[c] = "run"
    BY <1>4 DEF ValidationError
  <2> HIDE DEF new
  <2> QED BY <1>1, <2>1, <2>3, <2>4 DEF more
<1> QED BY <1>2, <1>3, <1>4

\* And NewRunner.
LEMMA Made ==
  ASSUME Typed, NEW c \in Calls, NewRunner(c)
  PROVE  /\ runner' \in [Calls -> Runners]
         /\ \A r \in Calls \ {c} : runner'[r] = runner[r]
         /\ runner'[c].load = Len(loads) /\ ~runner'[c].host /\ runner'[c].sync = None
         /\ runner'[c].validation = None /\ runner'[c].errors = {}
<1>1. runner \in [Calls -> Runners] /\ Len(loads) \in Nat
  BY DEF Typed, CallType, ModuleType
<1>2. runner' = [runner EXCEPT ![c] = [NoRunner EXCEPT !.load = Len(loads)]]
  BY DEF NewRunner, Current
<1> QED BY <1>1, <1>2 DEF NoRunner, Runners

\* What a step of a call leaves alone.
LEMMA CallKeeps ==
  ASSUME NEW c \in Calls, Call(c), CallType, HistoryType
  PROVE  /\ loads' = loads /\ objects' = objects
         /\ \A d \in Calls \ {c} : /\ pc'[d] = pc[d] /\ kind'[d] = kind[d] /\ obj'[d] = obj[d]
                                   /\ on'[d] = on[d] /\ got'[d] = got[d]
                                   /\ since'[d] = since[d]
                                   /\ d \in complained' <=> d \in complained
<1> USE DEF CallType, HistoryType
<1>1. ASSUME NEW k \in Kinds[c], Begin(c, k)
      PROVE  /\ loads' = loads /\ objects' = objects
             /\ \A d \in Calls \ {c} : /\ pc'[d] = pc[d] /\ kind'[d] = kind[d] /\ obj'[d] = obj[d]
                                       /\ on'[d] = on[d] /\ got'[d] = got[d]
                                       /\ since'[d] = since[d]
                                       /\ d \in complained' <=> d \in complained
  BY <1>1 DEF Begin
<1>2. CASE NewRunner(c) \/ SetInstance(c) \/ GetInstance(c) \/ AssignRequest(c) \/ Instantiate(c)
  BY <1>2 DEF NewRunner, SetInstance, GetInstance, AssignRequest, Instantiate, guest
<1>3. CASE InstantiateFails(c) \/ GuestReturns(c)
  BY <1>3 DEF InstantiateFails, GuestReturns, End
<1>4. CASE GetSpec(c) \/ ValidationError(c)
  BY <1>4 DEF GetSpec, ValidationError
<1>5. CASE \E m \in Methods : Access(c, m)
  BY <1>5 DEF Access, End
<1> QED BY <1>1, <1>2, <1>3, <1>4, <1>5 DEF Call

\* What a call that ends has.
LEMMA Ended ==
  ASSUME NEW c \in Calls, End(c), CallType, HistoryType
  PROVE  /\ pc'[c] = "done" /\ got'[c] = Nothing /\ c \notin complained'
         /\ obj'[c] = 0 /\ since'[c] = 0
         /\ pc' \in [Calls -> PCs] /\ obj' \in [Calls -> Nat] /\ since' \in [Calls -> Nat]
         /\ got' \in [Calls -> [from : Calls \cup {None}, method : Methods \cup {None}]]
         /\ complained' \subseteq Calls
BY DEF End, CallType, HistoryType, Nothing, PCs

LEMMA TypeStep ==
  ASSUME Typed, WayInv, [Next]_vars
  PROVE  Typed'
<1>1. ASSUME NEW m \in Modules, NEW docs \in BOOLEAN, AddWASI(m, docs) PROVE Typed'
  BY <1>1, Added DEF Typed, CallType, HistoryType
<1>2. ASSUME NEW c \in Calls, Call(c) PROVE Typed'
  <2> USE DEF Typed
  <2>0. /\ Len(objects) \in Nat /\ Len(loads) \in Nat
        /\ pc[c] \in {"assign", "instantiate", "run"} => on[c] \in Calls
        /\ pc[c] \in {"made", "set"} => obj[c] \in 1..Len(instance)
    <3>1. Len(objects) \in Nat /\ Len(loads) \in Nat /\ Len(instance) = Len(objects)
      BY DEF ModuleType
    <3>2. pc[c] \in {"assign", "instantiate", "run"} => on[c] # None
      BY DEF WayInv
    <3>3. pc[c] \in {"made", "set"} => obj[c] \in 1..Len(objects)
      BY DEF WayInv
    <3> QED BY <3>1, <3>2, <3>3 DEF CallType
  <2>1. ASSUME NEW k \in Kinds[c], Begin(c, k) PROVE Typed'
    BY <2>0, <2>1, KindsType DEF Begin, Current, ModuleType, CallType, HistoryType, PCs
  <2>2. CASE NewRunner(c)
    <3>1. runner' \in [Calls -> Runners]
      BY <2>2, Made
    <3> QED BY <2>2, <3>1 DEF NewRunner, ModuleType, CallType, HistoryType, PCs, guest
  <2>3. CASE SetInstance(c)
    <3>1. instance' \in Seq(Calls \cup {None}) /\ Len(instance') = Len(objects)
      <4>1. instance' = [instance EXCEPT ![obj[c]] = c] /\ obj[c] \in 1..Len(instance)
        BY <2>0, <2>3 DEF SetInstance
      <4> QED BY <4>1 DEF ModuleType
    <3> QED BY <2>3, <3>1 DEF SetInstance, ModuleType, CallType, HistoryType, PCs, guest
  <2>4. CASE GetInstance(c)
    <3>1. instance[obj[c]] \in Calls \cup {None}
      BY <2>0, <2>4 DEF GetInstance, ModuleType
    <3> QED BY <2>4, <3>1 DEF GetInstance, ModuleType, CallType, HistoryType, PCs, guest
  <2>5. CASE AssignRequest(c)
    <3>1. runner' \in [Calls -> Runners]
      BY <2>0, <2>5, Touched DEF AssignRequest
    <3> QED BY <2>5, <3>1 DEF AssignRequest, ModuleType, CallType, HistoryType, PCs, guest
  <2>6. CASE Instantiate(c)
    <3>1. runner' \in [Calls -> Runners]
      BY <2>0, <2>6, Instantiated DEF Instantiate
    <3> QED BY <2>6, <3>1 DEF Instantiate, ModuleType, CallType, HistoryType, PCs, guest
  <2>7. CASE InstantiateFails(c)
    <3>1. runner' \in [Calls -> Runners] /\ End(c)
      BY <2>0, <2>7, Touched DEF InstantiateFails
    <3> QED BY <2>7, <3>1, Ended DEF InstantiateFails, ModuleType, CallType, HistoryType
  <2>8. CASE GuestReturns(c)
    BY <2>8, Ended DEF GuestReturns, ModuleType, CallType, HistoryType
  <2>9. CASE ValidationError(c)
    <3>1. runner' \in [Calls -> Runners]
      BY <2>0, <2>9, Touched DEF ValidationError
    <3> QED BY <2>9, <3>1 DEF ValidationError, ModuleType, CallType, HistoryType
  <2>10. CASE GetSpec(c)
    <3>1. /\ pc[c] = "run" /\ runner[on[c]].sync \in Calls \cup {None}
          /\ runner[on[c]].validation \in Calls \cup {None}
      BY <2>0, <2>10 DEF GetSpec, CallType, Runners
    <3> QED BY <2>10, <3>1 DEF GetSpec, ModuleType, CallType, HistoryType
  <2>11. ASSUME NEW m \in Methods, Access(c, m) PROVE Typed'
    <3>1. pc[c] = "run" /\ runner[on[c]].sync \in Calls \cup {None}
      BY <2>0, <2>11 DEF Access, CallType, Runners
    <3>2. CASE End(c)
      BY <2>11, <3>2, Ended DEF Access, ModuleType, CallType, HistoryType
    <3>3. CASE ~End(c)
      <4>1. got' = [got EXCEPT ![c] = [from |-> runner[on[c]].sync, method |-> m]]
        BY <2>11, <3>3 DEF Access
      <4>2. got' \in [Calls -> [from : Calls \cup {None}, method : Methods \cup {None}]]
        BY <3>1, <4>1 DEF HistoryType
      <4> QED BY <2>11, <3>3, <4>2 DEF Access, ModuleType, CallType, HistoryType
    <3> QED BY <3>2, <3>3
  <2> QED BY <1>2, <2>1, <2>2, <2>3, <2>4, <2>5, <2>6, <2>7, <2>8, <2>9, <2>10, <2>11 DEF Call
<1>3. CASE UNCHANGED vars
  BY <1>3 DEF vars, guest, Typed, ModuleType, CallType, HistoryType
<1> QED BY <1>1, <1>2, <1>3 DEF Next

-----------------------------------------------------------------------------
(* The way of a call. *)

(***************************************************************************)
(* The steps of a call, by what they do to its own variables.              *)
(***************************************************************************)
Same(c, fs) ==
  /\ "kind" \in fs => kind'[c] = kind[c]
  /\ "obj" \in fs => obj'[c] = obj[c]
  /\ "on" \in fs => on'[c] = on[c]
  /\ "runner" \in fs => runner' = runner
  /\ "instance" \in fs => instance' = instance

OnItsWay(c) ==
  \/ /\ pc[c] = "idle" /\ pc'[c] = "begin" /\ kind'[c] \in Kinds[c] /\ objects # <<>>
     /\ obj'[c] = Len(objects) /\ Same(c, {"on", "runner", "instance"})
  \/ NewRunner(c) /\ pc'[c] = "made" /\ Same(c, {"kind", "obj", "on", "instance"})
  \/ /\ pc[c] = "made" /\ pc'[c] = "set" /\ instance' = [instance EXCEPT ![obj[c]] = c]
     /\ Same(c, {"kind", "obj", "on", "runner"})
  \/ /\ pc[c] = "set" /\ pc'[c] = (IF kind[c] = "sync" THEN "assign" ELSE "instantiate")
     /\ on'[c] = instance[obj[c]] /\ Same(c, {"kind", "obj", "runner", "instance"})

OnItsRunner(c) ==
  \/ AssignRequest(c) /\ pc'[c] = "instantiate" /\ Same(c, {"kind", "obj", "on", "instance"})
  \/ Instantiate(c) /\ pc'[c] = "run" /\ Same(c, {"kind", "obj", "on", "instance"})
  \/ /\ InstantiateFails(c) /\ pc'[c] = "done" /\ obj'[c] = 0
     /\ Same(c, {"kind", "on", "instance"})
  \/ ValidationError(c) /\ pc'[c] = pc[c] /\ Same(c, {"kind", "obj", "on", "instance"})
  \/ /\ pc[c] = "run" /\ Same(c, {"kind", "on", "runner", "instance"})
     /\ \/ pc'[c] = "done" /\ obj'[c] = 0
        \/ pc'[c] = pc[c] /\ obj'[c] = obj[c]

LEMMA CallCases ==
  ASSUME Typed, NEW c \in Calls, Call(c)
  PROVE  OnItsWay(c) \/ OnItsRunner(c)
<1> USE DEF Typed, CallType, Same
<1>0. /\ pc \in [Calls -> PCs] /\ kind \in [Calls -> AllKinds \cup {None}]
      /\ obj \in [Calls -> Nat] /\ on \in [Calls -> Calls \cup {None}]
  OBVIOUS
<1>1. ASSUME NEW k \in Kinds[c], Begin(c, k) PROVE OnItsWay(c)
  BY <1>0, <1>1 DEF Begin, OnItsWay
<1>2. CASE NewRunner(c)
  <2>1. pc'[c] = "made"
    BY <1>0, <1>2 DEF NewRunner
  <2> QED BY <1>2, <2>1 DEF NewRunner, OnItsWay
<1>3. CASE SetInstance(c)
  BY <1>0, <1>3 DEF SetInstance, OnItsWay
<1>4. CASE GetInstance(c)
  BY <1>0, <1>4 DEF GetInstance, OnItsWay
<1>5. CASE AssignRequest(c)
  <2>1. pc'[c] = "instantiate"
    BY <1>0, <1>5 DEF AssignRequest
  <2> QED BY <1>5, <2>1 DEF AssignRequest, OnItsRunner
<1>6. CASE Instantiate(c)
  <2>1. pc'[c] = "run"
    BY <1>0, <1>6 DEF Instantiate
  <2> QED BY <1>6, <2>1 DEF Instantiate, OnItsRunner
<1>7. CASE InstantiateFails(c)
  <2>1. pc'[c] = "done" /\ obj'[c] = 0
    BY <1>0, <1>7 DEF InstantiateFails, End
  <2> QED BY <1>7, <2>1 DEF InstantiateFails, OnItsRunner
<1>8. CASE ValidationError(c)
  BY <1>8 DEF ValidationError, OnItsRunner
<1>9. CASE GetSpec(c)
  BY <1>9 DEF GetSpec, OnItsRunner
<1>10. CASE GuestReturns(c)
  BY <1>0, <1>10 DEF GuestReturns, End, OnItsRunner
<1>11. ASSUME NEW m \in Methods, Access(c, m) PROVE OnItsRunner(c)
  BY <1>0, <1>11 DEF Access, End, OnItsRunner
<1> QED BY <1>1, <1>2, <1>3, <1>4, <1>5, <1>6, <1>7, <1>8, <1>9, <1>10, <1>11 DEF Call

(***************************************************************************)
(* No step takes back what a call has got on its way.                      *)
(***************************************************************************)
LEMMA Forward ==
  ASSUME Typed, WayInv, NEW c \in Calls, Call(c)
  PROVE  /\ \A d \in Calls :
              /\ pc[d] \notin {"idle", "begin", "made"} => pc'[d] \notin {"idle", "begin", "made"}
              /\ pc[d] \notin {"idle", "begin"} => runner'[d].load = runner[d].load
              /\ on[d] # None => on'[d] = on[d] /\ kind'[d] = kind[d]
              /\ on'[d] # on[d] => pc[d] = "set" /\ d = c /\ on'[d] = instance[obj[d]]
         /\ \A i \in 1..Len(instance) :
              \/ instance'[i] = instance[i]
              \/ instance'[i] = c /\ i = obj[c] /\ pc[c] = "made" /\ pc'[c] = "set"
         /\ Len(instance') = Len(instance)
<1>0. /\ \A d \in Calls \ {c} : pc'[d] = pc[d] /\ kind'[d] = kind[d] /\ on'[d] = on[d]
      /\ pc[c] \in {"idle", "begin", "made", "set"} => on[c] = None
      /\ pc[c] \in {"assign", "instantiate", "run"} => on[c] # None /\ on[c] \in Calls
      /\ pc[c] = "made" => obj[c] \in 1..Len(instance)
  <2>1. pc[c] \in {"assign", "instantiate", "run"} => on[c] # None
    BY DEF WayInv
  <2>2. pc[c] = "made" => obj[c] \in 1..Len(objects)
    BY DEF WayInv
  <2>3. on[c] \in Calls \cup {None} /\ Len(instance) = Len(objects)
    BY DEF Typed, CallType, ModuleType
  <2>4. pc[c] \in {"idle", "begin", "made", "set"} => on[c] = None
    BY DEF WayInv
  <2>5. \A d \in Calls \ {c} : pc'[d] = pc[d] /\ kind'[d] = kind[d] /\ on'[d] = on[d]
    BY CallKeeps DEF Typed
  <2> QED BY <2>1, <2>2, <2>3, <2>4, <2>5
<1>1. \A d \in Calls : pc[d] \notin {"idle", "begin"} => runner'[d].load = runner[d].load
  <2>1. CASE OnItsWay(c)
    <3>1. runner' = runner \/ (NewRunner(c) /\ pc[c] = "begin")
      BY <2>1 DEF OnItsWay, Same, NewRunner
    <3> QED BY <3>1, Made
  <2>2. CASE OnItsRunner(c)
    <3>1. pc[c] \in {"assign", "instantiate", "run"}
      BY <2>2 DEF OnItsRunner, AssignRequest, Instantiate, InstantiateFails, ValidationError
    <3>2. on[c] \in Calls
      BY <1>0, <3>1
    <3>3. CASE AssignRequest(c) \/ InstantiateFails(c) \/ ValidationError(c)
      BY <3>2, <3>3, Touched
    <3>4. CASE Instantiate(c)
      BY <3>2, <3>4, Instantiated
    <3>5. CASE runner' = runner
      BY <3>5
    <3> QED BY <2>2, <3>3, <3>4, <3>5 DEF OnItsRunner, Same
  <2> QED BY <2>1, <2>2, CallCases
<1>2. CASE OnItsWay(c)
  BY <1>0, <1>1, <1>2 DEF OnItsWay, Same, NewRunner, Typed, ModuleType
<1>3. CASE OnItsRunner(c)
  BY <1>0, <1>1, <1>3
  DEF OnItsRunner, Same, AssignRequest, Instantiate, InstantiateFails, ValidationError
<1> QED BY <1>2, <1>3, CallCases

LEMMA WayStep ==
  ASSUME Typed, WayInv, [Next]_vars
  PROVE  WayInv'
<1>1. ASSUME NEW m \in Modules, NEW docs \in BOOLEAN, AddWASI(m, docs) PROVE WayInv'
  <2>1. /\ UNCHANGED <<runner, kind, pc, obj, on>>
        /\ Len(loads) \in Nat /\ Len(loads') \in Nat /\ Len(loads) <= Len(loads')
        /\ Len(objects) \in Nat /\ Len(objects') \in Nat /\ Len(objects) <= Len(objects')
        /\ Len(instance) = Len(objects) /\ loads' # <<>>
        /\ \A i \in 1..Len(instance) : instance'[i] = instance[i]
        /\ \A i \in 1..Len(instance') : i \in 1..Len(instance) \/ instance'[i] = None
    BY <1>1, Added DEF Typed, ModuleType
  <2>2. \A i \in 1..Len(instance') :
          instance'[i] # None => pc'[instance'[i]] \notin {"idle", "begin", "made"}
    BY <2>1 DEF WayInv
  <2>3. \A c \in Calls :
          /\ pc[c] \notin {"idle", "done"} => obj[c] \in 1..Len(objects')
          /\ pc[c] = "set" => instance'[obj[c]] # None
          /\ pc[c] \notin {"idle", "begin"} => runner[c].load \in 1..Len(loads')
    <3> SUFFICES ASSUME NEW c \in Calls
                 PROVE  /\ pc[c] \notin {"idle", "done"} => obj[c] \in 1..Len(objects')
                        /\ pc[c] = "set" => instance'[obj[c]] # None
                        /\ pc[c] \notin {"idle", "begin"} => runner[c].load \in 1..Len(loads')
      OBVIOUS
    <3>1. /\ pc[c] \notin {"idle", "done"} => obj[c] \in 1..Len(objects)
          /\ pc[c] = "set" => instance[obj[c]] # None
          /\ pc[c] \notin {"idle", "begin"} => runner[c].load \in 1..Len(loads)
      BY DEF WayInv
    <3> QED BY <2>1, <3>1
  <2> QED BY <2>1, <2>2, <2>3 DEF WayInv
<1>2. ASSUME NEW c \in Calls, Call(c) PROVE WayInv'
  <2>0. /\ loads' = loads /\ objects' = objects /\ Len(objects) \in Nat /\ Len(loads) \in Nat
        /\ pc[c] = "idle" => on[c] = None
        /\ pc[c] \in {"assign", "instantiate", "run"} => on[c] # None
        /\ pc[c] \in {"made", "set"} => obj[c] \in 1..Len(instance)
        /\ Len(instance) = Len(objects) /\ None \notin Calls
    <3>1. Len(objects) \in Nat /\ Len(loads) \in Nat /\ Len(instance) = Len(objects)
      BY DEF Typed, ModuleType
    <3>2. /\ pc[c] = "idle" => on[c] = None
          /\ pc[c] \in {"assign", "instantiate", "run"} => on[c] # None
      BY DEF WayInv
    <3>3. pc[c] \in {"made", "set"} => obj[c] \in 1..Len(objects)
      BY DEF WayInv
    <3> QED BY <1>2, <3>1, <3>2, <3>3, CallKeeps, CallsAssumption DEF Typed
  <2>1. \A i \in 1..Len(instance') :
          instance'[i] # None => pc'[instance'[i]] \notin {"idle", "begin", "made"}
    <3> SUFFICES ASSUME NEW i \in 1..Len(instance), instance'[i] # None
                 PROVE  pc'[instance'[i]] \notin {"idle", "begin", "made"}
      BY <1>2, Forward
    <3>1. CASE instance'[i] = instance[i]
      <4>1. instance[i] \in Calls /\ pc[instance[i]] \notin {"idle", "begin", "made"}
        BY <3>1 DEF WayInv, Typed, ModuleType
      <4> QED BY <1>2, <3>1, <4>1, Forward
    <3>2. CASE instance'[i] = c /\ pc'[c] = "set"
      BY <3>2
    <3> QED BY <1>2, <3>1, <3>2, Forward
  <2>2. ASSUME NEW d \in Calls, on'[d] # None
        PROVE  pc'[on'[d]] \notin {"idle", "begin", "made"}
    <3>1. on[d] # None => on[d] \in Calls /\ pc[on[d]] \notin {"idle", "begin", "made"}
      BY DEF WayInv, Typed, CallType
    <3>2. CASE on'[d] = on[d]
      BY <1>2, <2>2, <3>1, <3>2, Forward
    <3>3. CASE on'[d] # on[d]
      <4>1. d = c /\ pc[c] = "set" /\ on'[c] = instance[obj[c]]
        BY <1>2, <3>3, Forward
      <4>2. obj[c] \in 1..Len(instance) /\ instance[obj[c]] \in Calls
        BY <2>0, <2>2, <4>1 DEF Typed, ModuleType
      <4>3. pc[instance[obj[c]]] \notin {"idle", "begin", "made"}
        BY <2>2, <4>1, <4>2 DEF WayInv
      <4> QED BY <1>2, <4>1, <4>2, <4>3, Forward
    <3> QED BY <3>2, <3>3
  <2>3. ASSUME NEW d \in Calls \ {c}
        PROVE  /\ pc'[d] = pc[d] /\ kind'[d] = kind[d] /\ obj'[d] = obj[d] /\ on'[d] = on[d]
               /\ pc[d] \notin {"idle", "begin"} => runner'[d].load = runner[d].load
               /\ pc[d] = "set" => instance'[obj[d]] # None
    <3>1. /\ pc'[d] = pc[d] /\ kind'[d] = kind[d] /\ obj'[d] = obj[d] /\ on'[d] = on[d]
          /\ pc[d] \notin {"idle", "begin"} => runner'[d].load = runner[d].load
      BY <1>2, CallKeeps, Forward DEF Typed
    <3>2. pc[d] = "set" => obj[d] \in 1..Len(objects) /\ instance[obj[d]] # None
      BY DEF WayInv
    <3> QED BY <1>2, <2>0, <3>1, <3>2, Forward
  <2>4. /\ pc'[c] # "idle" => /\ kind'[c] \in AllKinds
                              /\ c \in WorkerCalls => kind'[c] \in {"sync", "delete"}
                              /\ c \in WebhookCalls => kind'[c] \in {"default", "validate"}
        /\ pc'[c] \notin {"idle", "done"} => obj'[c] \in 1..Len(objects)
        /\ pc'[c] = "set" => instance'[obj'[c]] # None
        /\ pc'[c] \in {"idle", "begin", "made", "set"} => on'[c] = None
        /\ pc'[c] \in {"assign", "instantiate", "run"} => on'[c] # None
        /\ pc'[c] = "assign" => kind'[c] = "sync"
        /\ pc'[c] \notin {"idle", "begin"} => runner'[c].load \in 1..Len(loads)
    <3>0. /\ pc[c] # "idle" => /\ kind[c] \in AllKinds
                               /\ c \in WorkerCalls => kind[c] \in {"sync", "delete"}
                               /\ c \in WebhookCalls => kind[c] \in {"default", "validate"}
          /\ pc[c] \notin {"idle", "done"} => obj[c] \in 1..Len(objects)
          /\ pc[c] = "set" => instance[obj[c]] # None
          /\ pc[c] \in {"idle", "begin", "made", "set"} => on[c] = None
          /\ pc[c] \notin {"idle", "begin"} => runner[c].load \in 1..Len(loads)
          /\ pc[c] \in PCs
      BY DEF WayInv, Typed, CallType
    <3>1. pc[c] \notin {"idle", "begin"} => runner'[c].load = runner[c].load
      BY <1>2, Forward
    <3>2. CASE pc[c] = "idle" /\ OnItsWay(c)
      <4>1. /\ pc'[c] = "begin" /\ kind'[c] \in Kinds[c] /\ on'[c] = on[c]
            /\ obj'[c] = Len(objects) /\ objects # <<>>
        BY <3>2 DEF OnItsWay, Same, NewRunner
      <4>2. Len(objects) \in 1..Len(objects)
        BY <2>0, <4>1, EmptySeq DEF Typed, ModuleType
      <4> QED BY <3>0, <3>2, <4>1, <4>2, KindsType
    <3>3. CASE NewRunner(c) /\ OnItsWay(c)
      <4>1. /\ pc[c] = "begin" /\ pc'[c] = "made" /\ kind'[c] = kind[c] /\ obj'[c] = obj[c]
            /\ on'[c] = on[c] /\ runner'[c].load = Len(loads)
        BY <3>3, Made DEF OnItsWay, Same, NewRunner
      <4>2. Len(loads) \in 1..Len(loads)
        <5>1. objects # <<>> /\ loads \in Seq(Modules)
          BY <2>0, <3>0, <4>1, EmptySeq DEF Typed, ModuleType
        <5> QED BY <5>1, EmptySeq DEF WayInv
      <4> QED BY <3>0, <4>1, <4>2
    <3>4. CASE pc[c] = "made" /\ OnItsWay(c)
      <4>1. /\ pc'[c] = "set" /\ instance' = [instance EXCEPT ![obj[c]] = c]
            /\ kind'[c] = kind[c] /\ obj'[c] = obj[c] /\ on'[c] = on[c]
        BY <3>4 DEF OnItsWay, Same, NewRunner
      <4>2. instance'[obj'[c]] = c
        BY <2>0, <3>4, <4>1 DEF Typed, ModuleType
      <4> QED BY <2>0, <3>0, <3>1, <3>4, <4>1, <4>2
    <3>5. CASE pc[c] = "set" /\ OnItsWay(c)
      <4>1. /\ pc'[c] = (IF kind[c] = "sync" THEN "assign" ELSE "instantiate")
            /\ on'[c] = instance[obj[c]] /\ kind'[c] = kind[c] /\ obj'[c] = obj[c]
        BY <3>5 DEF OnItsWay, Same, NewRunner
      <4> QED BY <3>0, <3>1, <3>5, <4>1
    <3>6. CASE OnItsRunner(c)
      <4>1. /\ pc[c] \in {"assign", "instantiate", "run"}
            /\ pc'[c] \in {"instantiate", "run", "done"} /\ kind'[c] = kind[c] /\ on'[c] = on[c]
            /\ obj'[c] = obj[c] \/ pc'[c] = "done"
        BY <3>6
        DEF OnItsRunner, Same, AssignRequest, Instantiate, InstantiateFails, ValidationError
      <4> QED BY <2>0, <3>0, <3>1, <4>1
    <3> QED BY <1>2, <3>2, <3>3, <3>4, <3>5, <3>6, CallCases DEF OnItsWay
  <2>5. objects' # <<>> => loads' # <<>>
    BY <2>0 DEF WayInv
  <2> QED BY <2>0, <2>1, <2>2, <2>3, <2>4, <2>5 DEF WayInv
<1>3. CASE UNCHANGED vars
  BY <1>3 DEF vars, WayInv
<1> QED BY <1>1, <1>2, <1>3 DEF Next

-----------------------------------------------------------------------------
(* The worker. *)

(***************************************************************************)
(* The calls of the reconciler follow each other, and no two of them are   *)
(* ever on one runner: between the two accesses to the field of a call the *)
(* field has its own runner, or that of a webhook that came in between,    *)
(* which no earlier call of the worker can have met.                       *)
(***************************************************************************)
WorkersAlone ==
  \A c, d \in WorkerCalls : c # d =>
    /\ Busy(c) => ~Busy(d)
    /\ on[c] # None => on[c] # on[d]
    /\ pc[c] = "set" => on[d] # instance[obj[c]]

LEMMA WorkersStep ==
  ASSUME Typed, WayInv, WorkersAlone, [Next]_vars
  PROVE  WorkersAlone'
<1>0. WorkerCalls \subseteq Calls /\ None \notin Calls
  BY CallsAssumption DEF Calls
<1>1. ASSUME NEW m \in Modules, NEW docs \in BOOLEAN, AddWASI(m, docs) PROVE WorkersAlone'
  <2>1. \A c \in WorkerCalls : pc[c] = "set" => instance'[obj[c]] = instance[obj[c]]
    <3> SUFFICES ASSUME NEW c \in WorkerCalls, pc[c] = "set"
                 PROVE  instance'[obj[c]] = instance[obj[c]]
      OBVIOUS
    <3>1. obj[c] \in 1..Len(instance)
      BY <1>0 DEF WayInv, Typed, ModuleType
    <3> QED BY <1>1, <3>1, Added
  <2> QED BY <1>1, <2>1, Added DEF WorkersAlone, Busy
<1>2. ASSUME NEW a \in Calls, Call(a) PROVE WorkersAlone'
  <2> SUFFICES ASSUME NEW c \in WorkerCalls, NEW d \in WorkerCalls, c # d
               PROVE  /\ ~(Busy(c)' /\ Busy(d)')
                      /\ on'[c] # None => on'[c] # on'[d]
                      /\ pc'[c] = "set" => on'[d] # instance'[obj'[c]]
    BY DEF WorkersAlone, Busy
  <2>0. /\ c \in Calls /\ d \in Calls
        /\ ~(Busy(c) /\ Busy(d))
        /\ on[c] # None => on[c] # on[d]
        /\ on[d] # None => on[d] # on[c]
        /\ pc[c] = "set" => on[d] # instance[obj[c]]
        /\ pc[d] = "set" => on[c] # instance[obj[d]]
    BY <1>0 DEF WorkersAlone
  <2>1. ~(Busy(c)' /\ Busy(d)')
    <3>1. ASSUME NEW e \in WorkerCalls, NEW f \in WorkerCalls, e # f, Busy(e)', ~Busy(e)
          PROVE  ~Busy(f)'
      <4>1. e = a /\ pc[a] = "idle" /\ pc'[f] = pc[f]
        <5>1. e = a
          BY <1>0, <1>2, <3>1, CallKeeps DEF Busy, Typed
        <5>2. pc[a] = "idle"
          BY <1>2, <3>1, <5>1, CallCases
          DEF Busy, OnItsWay, OnItsRunner, NewRunner, AssignRequest, Instantiate,
              InstantiateFails, ValidationError
        <5> QED BY <1>0, <1>2, <3>1, <5>1, <5>2, CallKeeps DEF Typed
      <4>2. \E k \in Kinds[a] : Begin(a, k)
        BY <1>2, <4>1 DEF Call, NewRunner, SetInstance, GetInstance, AssignRequest,
           Instantiate, InstantiateFails, GetSpec, ValidationError, Access, GuestReturns
      <4>3. ~Busy(f)
        BY <3>1, <4>1, <4>2 DEF Begin
      <4> QED BY <4>1, <4>3 DEF Busy
    <3> QED BY <2>0, <3>1
  <2>2. \A e \in Calls : on'[e] # on[e] => e = a /\ pc[e] = "set" /\ on'[e] = instance[obj[e]]
    BY <1>2, Forward
  <2>3. on'[c] # None => on'[c] # on'[d]
    <3>1. c # a \/ d # a
      OBVIOUS
    <3> QED BY <2>0, <2>2, <3>1
  <2>4. ASSUME pc'[c] = "set" PROVE on'[d] # instance'[obj'[c]]
    <3>1. CASE a = c
      <4>1. /\ pc[c] = "made" /\ instance' = [instance EXCEPT ![obj[c]] = c]
            /\ obj'[c] = obj[c] /\ on'[d] = on[d]
        <5>1. pc[c] = "made" /\ instance' = [instance EXCEPT ![obj[c]] = c] /\ obj'[c] = obj[c]
          BY <1>2, <2>4, <3>1, CallCases
          DEF OnItsWay, OnItsRunner, NewRunner, AssignRequest, Instantiate,
              InstantiateFails, ValidationError, Same
        <5> QED BY <1>2, <2>0, <3>1, <5>1, CallKeeps DEF Typed
      <4>2. obj[c] \in 1..Len(instance)
        BY <2>0, <4>1 DEF WayInv, Typed, ModuleType
      <4>3. instance'[obj'[c]] = c
        BY <4>1, <4>2
      <4>4. on[d] # c
        BY <1>0, <2>0, <4>1 DEF WayInv
      <4> QED BY <4>1, <4>3, <4>4
    <3>2. CASE a # c
      <4>1. pc[c] = "set" /\ obj'[c] = obj[c]
        BY <1>2, <2>0, <2>4, <3>2, CallKeeps DEF Typed
      <4>2. obj[c] \in 1..Len(instance) /\ instance[obj[c]] # None
        BY <2>0, <4>1 DEF WayInv, Typed, ModuleType
      <4>3. CASE instance'[obj[c]] = instance[obj[c]]
        <5>1. ~Busy(d)
          BY <2>0, <4>1 DEF Busy
        <5>2. pc[d] # "set" /\ d \in Calls
          BY <1>0, <5>1 DEF Busy
        <5>3. on'[d] = on[d]
          BY <2>2, <5>2
        <5> QED BY <2>0, <4>1, <4>3, <5>3
      <4>4. CASE instance'[obj[c]] = a /\ pc[a] = "made"
        <5>1. on[d] # a
          BY <1>0, <2>0, <4>4 DEF WayInv
        <5>2. on'[d] = on[d]
          <6>1. d \in Calls /\ (d = a => pc[d] # "set")
            BY <1>0, <4>4
          <6> QED BY <2>2, <6>1
        <5> QED BY <4>1, <4>4, <5>1, <5>2
      <4> QED BY <1>2, <4>2, <4>3, <4>4, Forward
    <3> QED BY <3>1, <3>2
  <2> QED BY <2>1, <2>3, <2>4
<1>3. CASE UNCHANGED vars
  BY <1>3 DEF vars, WorkersAlone, Busy
<1> QED BY <1>1, <1>2, <1>3 DEF Next

-----------------------------------------------------------------------------
(* The guests. *)

(***************************************************************************)
(* What a runner has: errors only of the guest that runs on it, and a      *)
(* request that is that of a Sync which goes to it, or of the guest that   *)
(* had the only instance it will ever have.                                *)
(***************************************************************************)
RunnerInv ==
  \A r \in Calls :
    /\ ~runner[r].host => runner[r].errors = {}
    /\ runner[r].sync # None =>
         /\ on[runner[r].sync] = r
         /\ \/ kind[runner[r].sync] = "sync"
            \/ runner[r].host /\ \A d \in Calls \ {runner[r].sync} : on[d] = r => pc[d] # "run"

(***************************************************************************)
(* What a guest can count on: it has its runner to itself as a guest, and  *)
(* the runner has a request for it.                                        *)
(***************************************************************************)
GuestInv ==
  \A c \in Calls :
    /\ pc[c] = "run" =>
         /\ runner[on[c]].host
         /\ \A d \in Calls \ {c} : on[d] = on[c] => pc[d] # "run"
         /\ c \in WorkerCalls => runner[on[c]].sync = c
         /\ kind[c] = "default" => runner[on[c]].sync # None
         /\ kind[c] = "validate" => runner[on[c]].validation = c
    /\ pc[c] # "run" => got[c] = Nothing /\ c \notin complained
    /\ pc[c] = "instantiate" /\ kind[c] = "sync" /\ ~runner[on[c]].host => runner[on[c]].sync = c
    /\ since[c] <= Len(loads)

(***************************************************************************)
(* The steps of a call once more, by what they do to the runners, to what  *)
(* the guest has been given and to what it has complained of.              *)
(***************************************************************************)
KeepsHistory(a) ==
  got'[a] = got[a] /\ since'[a] = since[a] /\ (a \in complained' <=> a \in complained)

ClearsHistory(a) ==
  pc'[a] = "done" /\ got'[a] = Nothing /\ since'[a] = 0 /\ a \notin complained'

OthersKeep(a) == \A r \in Calls \ {on[a]} : runner'[r] = runner[r]

Walks(a) ==
  /\ pc[a] \in {"idle", "begin", "made", "set"}
  /\ pc'[a] \in {"begin", "made", "set", "assign", "instantiate"}
  /\ pc'[a] = "instantiate" => kind'[a] # "sync"
  /\ got'[a] = got[a] /\ (a \in complained' <=> a \in complained)
  /\ since'[a] \in {since[a], Len(loads)}
  /\ \/ runner' = runner
     \/ /\ pc[a] = "begin"
        /\ \A r \in Calls \ {a} : runner'[r] = runner[r]
        /\ runner'[a].errors = {} /\ runner'[a].sync = None

Assigns(a) ==
  /\ pc[a] = "assign" /\ pc'[a] = "instantiate" /\ KeepsHistory(a) /\ OthersKeep(a)
  /\ runner'[on[a]].sync = a /\ runner'[on[a]].validation = runner[on[a]].validation
  /\ runner'[on[a]].host = runner[on[a]].host /\ runner'[on[a]].errors = runner[on[a]].errors

Starts(a) ==
  /\ pc[a] = "instantiate" /\ pc'[a] = "run" /\ KeepsHistory(a) /\ OthersKeep(a)
  /\ ~runner[on[a]].host /\ runner'[on[a]].host
  /\ runner[on[a]].load = Len(loads)
  /\ runner'[on[a]].errors = runner[on[a]].errors
  /\ runner'[on[a]].sync = IF kind[a] \in {"sync", "validate"} THEN runner[on[a]].sync ELSE a
  /\ runner'[on[a]].validation = IF kind[a] = "validate" THEN a ELSE runner[on[a]].validation

StartFails(a) ==
  /\ pc[a] = "instantiate" /\ ClearsHistory(a) /\ OthersKeep(a)
  /\ runner[on[a]].host => runner'[on[a]].host
  /\ runner'[on[a]].errors = runner[on[a]].errors /\ runner'[on[a]].sync = runner[on[a]].sync
  /\ runner'[on[a]].validation = runner[on[a]].validation

Complains(a) ==
  /\ pc[a] = "run" /\ pc'[a] = "run" /\ kind[a] = "validate" /\ OthersKeep(a)
  /\ got'[a] = got[a] /\ since'[a] = since[a] /\ a \in complained'
  /\ runner'[on[a]].errors = runner[on[a]].errors \cup {a}
  /\ runner'[on[a]].host = runner[on[a]].host /\ runner'[on[a]].sync = runner[on[a]].sync
  /\ runner'[on[a]].validation = runner[on[a]].validation

Reads(a) ==
  /\ pc[a] = "run" /\ pc'[a] = "run" /\ runner' = runner
  /\ since'[a] = since[a] /\ (a \in complained' <=> a \in complained)
  /\ \/ /\ got'[a].method = None
        /\ got'[a].from = IF runner[on[a]].sync # None THEN runner[on[a]].sync
                                                       ELSE runner[on[a]].validation
     \/ /\ got'[a].from = runner[on[a]].sync /\ runner[on[a]].sync # None
        /\ got'[a].method \in Permissions(runner[on[a]])

Returns(a) == pc[a] = "run" /\ runner' = runner /\ ClearsHistory(a)

LEMMA CallEffects ==
  ASSUME Typed, WayInv, NEW a \in Calls, Call(a)
  PROVE  \/ Walks(a) \/ Assigns(a) \/ Starts(a) \/ StartFails(a)
         \/ Complains(a) \/ Reads(a) \/ Returns(a)
<1>0. /\ pc[a] \in {"assign", "instantiate", "run"} => on[a] \in Calls
      /\ CallType /\ HistoryType /\ loads \in Seq(Modules)
  BY DEF WayInv, Typed, CallType, ModuleType
<1> USE DEF OthersKeep, KeepsHistory, ClearsHistory
<1>1. ASSUME NEW k \in Kinds[a], Begin(a, k) PROVE Walks(a)
  BY <1>0, <1>1 DEF Begin, Walks, CallType, HistoryType, Current
<1>2. CASE NewRunner(a)
  <2>1. pc'[a] = "made"
    BY <1>0, <1>2 DEF NewRunner, CallType
  <2> QED BY <1>2, <2>1, Made DEF NewRunner, Walks, guest
<1>3. CASE SetInstance(a)
  BY <1>0, <1>3 DEF SetInstance, Walks, CallType, guest
<1>4. CASE GetInstance(a)
  BY <1>0, <1>4 DEF GetInstance, Walks, CallType, guest
<1>5. CASE AssignRequest(a)
  <2>1. pc[a] = "assign" /\ pc'[a] = "instantiate" /\ UNCHANGED <<got, since, complained>>
    BY <1>0, <1>5 DEF AssignRequest, CallType, guest
  <2> QED BY <1>0, <1>5, <2>1, Touched DEF Assigns
<1>6. CASE Instantiate(a)
  <2>1. /\ pc[a] = "instantiate" /\ pc'[a] = "run" /\ UNCHANGED <<got, since, complained>>
        /\ ~runner[on[a]].host /\ runner[on[a]].load = Len(loads)
    BY <1>0, <1>6 DEF Instantiate, CallType, guest, Closed, Current
  <2> QED BY <1>0, <1>6, <2>1, Instantiated DEF Starts
<1>7. CASE InstantiateFails(a)
  <2>1. pc[a] = "instantiate" /\ End(a)
    BY <1>7 DEF InstantiateFails
  <2> QED BY <1>0, <1>7, <2>1, Touched, Ended DEF StartFails
<1>8. CASE ValidationError(a)
  <2>1. /\ pc[a] = "run" /\ pc' = pc /\ kind[a] = "validate" /\ UNCHANGED <<got, since>>
        /\ a \in complained'
    BY <1>8 DEF ValidationError
  <2> QED BY <1>0, <1>8, <2>1, Touched DEF Complains
<1>9. CASE GetSpec(a)
  BY <1>0, <1>9 DEF GetSpec, Reads, HistoryType
<1>10. CASE GuestReturns(a)
  BY <1>0, <1>10, Ended DEF GuestReturns, Returns
<1>11. ASSUME NEW m \in Methods, Access(a, m) PROVE Reads(a) \/ Returns(a)
  BY <1>0, <1>11, Ended DEF Access, Reads, Returns, HistoryType
<1> QED BY <1>1, <1>2, <1>3, <1>4, <1>5, <1>6, <1>7, <1>8, <1>9, <1>10, <1>11 DEF Call

\* What every step of a call leaves of the other calls, and of what it has itself.
LEMMA Around ==
  ASSUME Typed, WayInv, NEW a \in Calls, Call(a)
  PROVE  /\ \A d \in Calls \ {a} :
              /\ pc'[d] = pc[d] /\ kind'[d] = kind[d] /\ on'[d] = on[d] /\ got'[d] = got[d]
              /\ since'[d] = since[d] /\ (d \in complained' <=> d \in complained)
         /\ \A d \in Calls : on[d] # None => on'[d] = on[d] /\ kind'[d] = kind[d]
         /\ pc[a] \in {"assign", "instantiate", "run"} => on[a] \in Calls /\ on'[a] = on[a]
         /\ pc[a] = "assign" => kind[a] = "sync"
         /\ \A d \in Calls : on[d] # None => pc[on[d]] \notin {"idle", "begin", "made"}
         /\ loads' = loads
<1>1. /\ \A d \in Calls : on[d] # None => on'[d] = on[d] /\ kind'[d] = kind[d]
      /\ \A d \in Calls \ {a} : pc'[d] = pc[d] /\ kind'[d] = kind[d] /\ on'[d] = on[d]
      /\ \A d \in Calls \ {a} : got'[d] = got[d] /\ since'[d] = since[d]
      /\ \A d \in Calls \ {a} : (d \in complained' <=> d \in complained)
      /\ loads' = loads
  BY Forward, CallKeeps DEF Typed
<1>2. /\ pc[a] \in {"assign", "instantiate", "run"} => on[a] # None
      /\ pc[a] = "assign" => kind[a] = "sync"
      /\ \A d \in Calls : on[d] # None => pc[on[d]] \notin {"idle", "begin", "made"}
  BY DEF WayInv
<1>3. on[a] \in Calls \cup {None}
  BY DEF Typed, CallType
<1> QED BY <1>1, <1>2, <1>3

LEMMA RunnerStep ==
  ASSUME Typed, WayInv, RunnerInv, GuestInv, NEW a \in Calls, Call(a)
  PROVE  RunnerInv'
<1> SUFFICES ASSUME NEW r \in Calls
             PROVE  /\ ~runner'[r].host => runner'[r].errors = {}
                    /\ runner'[r].sync # None =>
                         /\ on'[runner'[r].sync] = r
                         /\ \/ kind'[runner'[r].sync] = "sync"
                            \/ /\ runner'[r].host
                               /\ \A d \in Calls \ {runner'[r].sync} : on'[d] = r => pc'[d] # "run"
  BY DEF RunnerInv
<1> DEFINE x == runner[r].sync
<1>1. /\ ~runner[r].host => runner[r].errors = {}
      /\ x # None => /\ on[x] = r /\ x \in Calls
                     /\ \/ kind[x] = "sync"
                        \/ runner[r].host /\ \A d \in Calls \ {x} : on[d] = r => pc[d] # "run"
  BY DEF RunnerInv, Typed, CallType, Runners
<1>2. x # None => on'[x] = r /\ kind'[x] = kind[x]
  BY <1>1, Around, CallsAssumption
<1>3. /\ \A d \in Calls \ {a} : pc'[d] = pc[d] /\ on'[d] = on[d]
      /\ pc[a] \in {"assign", "instantiate", "run"} => on[a] \in Calls /\ on'[a] = on[a]
      /\ pc[a] = "assign" => kind[a] = "sync" /\ kind'[a] = kind[a]
      /\ a # None
  BY Around, CallsAssumption
<1> HIDE DEF x
\* A runner that the step leaves alone, if the call that takes it does not start a guest.
<1>4. ASSUME runner'[r] = runner[r], pc'[a] = "run" /\ on'[a] = r => pc[a] = "run" /\ on[a] = r
      PROVE  /\ ~runner'[r].host => runner'[r].errors = {}
             /\ runner'[r].sync # None =>
                  /\ on'[runner'[r].sync] = r
                  /\ \/ kind'[runner'[r].sync] = "sync"
                     \/ /\ runner'[r].host
                        /\ \A d \in Calls \ {runner'[r].sync} : on'[d] = r => pc'[d] # "run"
  <2>1. runner'[r].sync = x
    BY <1>4 DEF x
  <2>2. ASSUME NEW d \in Calls, on'[d] = r, pc'[d] = "run" PROVE on[d] = r /\ pc[d] = "run"
    BY <1>3, <1>4, <2>2
  <2> QED BY <1>1, <1>2, <1>4, <2>1, <2>2
<1>5. CASE Walks(a)
  <2>1. CASE runner'[r] = runner[r]
    BY <1>4, <1>5, <2>1 DEF Walks
  <2>2. CASE runner'[r].errors = {} /\ runner'[r].sync = None
    BY <2>2
  <2> QED BY <1>5, <2>1, <2>2 DEF Walks
<1>6. CASE Reads(a) \/ Returns(a)
  BY <1>3, <1>4, <1>6 DEF Reads, Returns, ClearsHistory
<1>7. CASE (Assigns(a) \/ Starts(a) \/ StartFails(a) \/ Complains(a)) /\ r # on[a]
  <2>1. runner'[r] = runner[r]
    BY <1>7 DEF Assigns, Starts, StartFails, Complains, OthersKeep
  <2>2. pc[a] \in {"assign", "instantiate", "run"}
    BY <1>7 DEF Assigns, Starts, StartFails, Complains
  <2> QED BY <1>3, <1>4, <1>7, <2>1, <2>2
<1>8. CASE Assigns(a) /\ r = on[a]
  BY <1>1, <1>3, <1>8 DEF Assigns
<1>9. CASE Starts(a) /\ r = on[a]
  <2>1. \A d \in Calls \ {a} : on'[d] = r => pc'[d] # "run"
    BY <1>3, <1>9 DEF Starts, GuestInv
  <2>2. CASE runner'[r].sync = a
    BY <1>3, <1>9, <2>1, <2>2 DEF Starts
  <2>3. CASE runner'[r].sync = x
    <3>1. x # None => kind[x] = "sync"
      BY <1>1, <1>9 DEF Starts
    <3> QED BY <1>2, <1>9, <2>3, <3>1 DEF Starts
  <2> QED BY <1>9, <2>2, <2>3 DEF Starts, x
<1>10. CASE (StartFails(a) \/ Complains(a)) /\ r = on[a]
  <2>1. /\ runner'[r].sync = x /\ (runner[r].host => runner'[r].host)
        /\ ~runner'[r].host => runner'[r].errors = {}
    <3>1. CASE StartFails(a)
      BY <1>1, <1>10, <3>1 DEF StartFails, x
    <3>2. CASE Complains(a)
      <4>1. runner[r].host
        BY <1>10, <3>2 DEF Complains, GuestInv
      <4> QED BY <1>10, <3>2, <4>1 DEF Complains, x
    <3> QED BY <1>10, <3>1, <3>2
  <2>2. pc'[a] = "run" => pc[a] = "run"
    BY <1>10 DEF StartFails, Complains, ClearsHistory
  <2>3. on'[a] = on[a]
    BY <1>3, <1>10 DEF StartFails, Complains
  <2>4. ASSUME NEW d \in Calls, on'[d] = r, pc'[d] = "run" PROVE on[d] = r /\ pc[d] = "run"
    BY <1>3, <2>2, <2>3, <2>4
  <2> QED BY <1>1, <1>2, <2>1, <2>4
<1> QED BY <1>5, <1>6, <1>7, <1>8, <1>9, <1>10, CallEffects

\* A guest, as GuestInv has it.
GuestOf(c) ==
  pc[c] = "run" =>
    /\ runner[on[c]].host
    /\ \A d \in Calls \ {c} : on[d] = on[c] => pc[d] # "run"
    /\ c \in WorkerCalls => runner[on[c]].sync = c
    /\ kind[c] = "default" => runner[on[c]].sync # None
    /\ kind[c] = "validate" => runner[on[c]].validation = c

LEMMA GuestStep ==
  ASSUME Typed, WayInv, WorkersAlone, RunnerInv, GuestInv, NEW a \in Calls, Call(a)
  PROVE  GuestInv'
<1>0. /\ \A d \in Calls \ {a} :
           /\ pc'[d] = pc[d] /\ kind'[d] = kind[d] /\ on'[d] = on[d] /\ got'[d] = got[d]
           /\ since'[d] = since[d] /\ (d \in complained' <=> d \in complained)
      /\ pc[a] \in {"assign", "instantiate", "run"} =>
           on[a] \in Calls /\ on'[a] = on[a] /\ kind'[a] = kind[a]
      /\ pc[a] = "assign" => kind[a] = "sync"
      /\ loads' = loads /\ Len(loads) \in Nat
  BY Around, CallsAssumption DEF Typed, ModuleType
<1>1. ASSUME NEW c \in Calls
      PROVE  /\ GuestOf(c)
             /\ pc[c] # "run" => got[c] = Nothing /\ c \notin complained
             /\ pc[c] = "instantiate" /\ kind[c] = "sync" /\ ~runner[on[c]].host
                  => runner[on[c]].sync = c
             /\ since[c] <= Len(loads)
             /\ pc[c] \in {"instantiate", "run"} => on[c] \in Calls /\ on[c] # None
             /\ pc[c] \in {"instantiate", "run"} => pc[on[c]] \notin {"idle", "begin", "made"}
             /\ pc[c] # "idle" => /\ c \in WorkerCalls => kind[c] \in {"sync", "delete"}
                                  /\ c \in WebhookCalls => kind[c] \in {"default", "validate"}
  <2>1. /\ GuestOf(c)
        /\ pc[c] # "run" => got[c] = Nothing /\ c \notin complained
        /\ pc[c] = "instantiate" /\ kind[c] = "sync" /\ ~runner[on[c]].host
             => runner[on[c]].sync = c
        /\ since[c] <= Len(loads)
    BY DEF GuestInv, GuestOf
  <2>2. /\ pc[c] \in {"instantiate", "run"} => on[c] # None
        /\ on[c] # None => pc[on[c]] \notin {"idle", "begin", "made"}
        /\ pc[c] # "idle" => /\ c \in WorkerCalls => kind[c] \in {"sync", "delete"}
                             /\ c \in WebhookCalls => kind[c] \in {"default", "validate"}
    BY DEF WayInv
  <2>3. on[c] \in Calls \cup {None}
    BY DEF Typed, CallType
  <2> QED BY <2>1, <2>2, <2>3
<1>2. Calls = WorkerCalls \cup WebhookCalls /\ WorkerCalls \cap WebhookCalls = {}
  BY CallsAssumption DEF Calls
\* Only a step of a worker's call sets a request that is another one's, and it never is on the
\* runner of another worker's call.
<1>3. ASSUME NEW c \in Calls, c # a, on[c] = on[a], Assigns(a) PROVE c \in WebhookCalls
  <2>1. on[c] # None /\ a \in WorkerCalls
    BY <1>0, <1>1, <1>2, <1>3, CallsAssumption DEF Assigns, Calls
  <2> QED BY <1>2, <1>3, <2>1 DEF WorkersAlone
<1>4. ASSUME NEW c \in Calls
      PROVE  /\ pc'[c] # "run" => got'[c] = Nothing /\ c \notin complained'
             /\ since'[c] <= Len(loads')
  <2>1. CASE c # a
    BY <1>0, <1>1, <2>1
  <2>2. CASE c = a /\ (Walks(a) \/ Assigns(a) \/ Starts(a))
    BY <1>0, <1>1, <2>2 DEF Walks, Assigns, Starts, KeepsHistory
  <2>3. CASE c = a /\ (StartFails(a) \/ Returns(a) \/ Complains(a) \/ Reads(a))
    BY <1>0, <1>1, <2>3 DEF StartFails, Returns, Complains, Reads, ClearsHistory
  <2> QED BY <2>1, <2>2, <2>3, CallEffects
<1>5. ASSUME NEW c \in Calls, pc'[c] = "run"
      PROVE  /\ pc[c] = "run" \/ (c = a /\ Starts(a))
             /\ on[c] \in Calls /\ on'[c] = on[c] /\ kind'[c] = kind[c]
  <2>1. CASE c # a
    BY <1>0, <1>1, <1>5, <2>1
  <2>2. CASE c = a
    BY <1>0, <1>5, <2>2, CallEffects
    DEF Walks, Assigns, Starts, StartFails, Returns, Complains, Reads, ClearsHistory
  <2> QED BY <2>1, <2>2
\* What the step does to a runner that is on its way to a guest, or has one.
<1>6. ASSUME NEW r \in Calls, pc[r] \notin {"idle", "begin", "made"}
      PROVE  /\ runner[r].host => runner'[r].host
             /\ \/ /\ runner'[r].sync = runner[r].sync
                   /\ runner'[r].validation = runner[r].validation
                \/ /\ on[a] = r /\ Assigns(a) /\ runner'[r].sync = a
                   /\ runner'[r].validation = runner[r].validation
                \/ on[a] = r /\ Starts(a)
  <2>1. CASE Walks(a)
    BY <1>6, <2>1 DEF Walks
  <2>2. CASE Reads(a) \/ Returns(a)
    BY <2>2 DEF Reads, Returns
  <2>3. CASE (Assigns(a) \/ Starts(a) \/ StartFails(a) \/ Complains(a)) /\ r # on[a]
    BY <2>3 DEF Assigns, Starts, StartFails, Complains, OthersKeep
  <2>4. CASE (StartFails(a) \/ Complains(a)) /\ r = on[a]
    BY <2>4 DEF StartFails, Complains
  <2>5. CASE (Assigns(a) \/ Starts(a)) /\ r = on[a]
    BY <2>5 DEF Assigns, Starts
  <2> QED BY <2>1, <2>2, <2>3, <2>4, <2>5, CallEffects
<1>7. ASSUME NEW c \in Calls, pc'[c] = "run"
      PROVE  /\ runner'[on'[c]].host
             /\ \A d \in Calls \ {c} : on'[d] = on'[c] => pc'[d] # "run"
             /\ c \in WorkerCalls => runner'[on'[c]].sync = c
             /\ kind'[c] = "default" => runner'[on'[c]].sync # None
             /\ kind'[c] = "validate" => runner'[on'[c]].validation = c
  <2> DEFINE r == on[c]
  <2>1. r \in Calls /\ on'[c] = r /\ kind'[c] = kind[c]
    BY <1>5, <1>7
  <2>2. \A d \in Calls \ {c} : on'[d] = r /\ pc'[d] = "run" =>
          on[d] = r /\ (pc[d] = "run" \/ (d = a /\ Starts(a)))
    BY <1>5
  <2>3. CASE pc[c] = "run"
    <3>1. /\ runner[r].host /\ \A d \in Calls \ {c} : on[d] = r => pc[d] # "run"
          /\ c \in WorkerCalls => runner[r].sync = c
          /\ kind[c] = "default" => runner[r].sync # None
          /\ kind[c] = "validate" => runner[r].validation = c
          /\ pc[r] \notin {"idle", "begin", "made"}
      BY <1>1, <2>3 DEF GuestOf
    <3>2. ~(on[a] = r /\ Starts(a))
      BY <3>1 DEF Starts
    <3>3. /\ runner'[r].host /\ runner'[r].validation = runner[r].validation
          /\ runner'[r].sync = runner[r].sync \/ (on[a] = r /\ Assigns(a) /\ runner'[r].sync = a)
      BY <1>6, <2>1, <3>1, <3>2
    <3>4. on[a] = r /\ Assigns(a) => c \in WebhookCalls
      BY <1>3, <2>3 DEF Assigns
    <3>5. a # None
      BY CallsAssumption
    <3> QED BY <1>2, <2>1, <2>2, <3>1, <3>2, <3>3, <3>4, <3>5
  <2>4. CASE c = a /\ Starts(a)
    <3>1. /\ ~runner[r].host /\ runner'[r].host
          /\ runner'[r].sync = IF kind[c] \in {"sync", "validate"} THEN runner[r].sync ELSE c
          /\ kind[c] = "validate" => runner'[r].validation = c
          /\ pc[c] = "instantiate"
      BY <2>4 DEF Starts
    <3>2. kind[c] = "sync" => runner[r].sync = c
      BY <1>1, <3>1
    <3>3. \A d \in Calls \ {c} : on[d] = r => pc[d] # "run"
      BY <1>1, <3>1 DEF GuestOf
    <3>4. c \in WorkerCalls => kind[c] \in {"sync", "delete"}
      BY <1>1, <3>1
    <3>5. c # None
      BY CallsAssumption
    <3> QED BY <2>1, <2>2, <2>4, <3>1, <3>2, <3>3, <3>4, <3>5
  <2> QED BY <1>5, <1>7, <2>3, <2>4
<1>8. ASSUME NEW c \in Calls, pc'[c] = "instantiate", kind'[c] = "sync", ~runner'[on'[c]].host
      PROVE  runner'[on'[c]].sync = c
  <2>1. CASE c = a
    BY <1>0, <1>8, <2>1, CallEffects
    DEF Walks, Assigns, Starts, StartFails, Returns, Complains, Reads, ClearsHistory
  <2>2. CASE c # a
    <3>1. /\ pc[c] = "instantiate" /\ kind[c] = "sync" /\ on'[c] = on[c] /\ on[c] \in Calls
          /\ pc[on[c]] \notin {"idle", "begin", "made"}
      BY <1>0, <1>1, <1>8, <2>2
    <3>2. ~runner[on[c]].host /\ ~(on[a] = on[c] /\ Starts(a))
      BY <1>6, <1>8, <3>1 DEF Starts
    <3>3. ~(on[a] = on[c] /\ Assigns(a))
      <4>1. c \notin WebhookCalls
        BY <1>1, <3>1
      <4> QED BY <1>3, <2>2, <4>1
    <3> QED BY <1>1, <1>6, <3>1, <3>2, <3>3
  <2> QED BY <2>1, <2>2
<1> QED BY <1>4, <1>7, <1>8 DEF GuestInv

-----------------------------------------------------------------------------
(* What the guests are promised. *)

CallsInv == Typed /\ WayInv /\ WorkersAlone /\ RunnerInv /\ GuestInv

LEMMA CallsStep ==
  ASSUME CallsInv, [Next]_vars
  PROVE  CallsInv'
<1>1. Typed' /\ WayInv' /\ WorkersAlone'
  BY TypeStep, WayStep, WorkersStep DEF CallsInv
<1>2. ASSUME NEW m \in Modules, NEW docs \in BOOLEAN, AddWASI(m, docs)
      PROVE  RunnerInv' /\ GuestInv'
  <2>1. /\ UNCHANGED <<runner, kind, pc, obj, on, got, since, complained>>
        /\ Len(loads) \in Nat /\ Len(loads') \in Nat /\ Len(loads) <= Len(loads')
        /\ since \in [Calls -> Nat]
    BY <1>2, Added DEF CallsInv, Typed, HistoryType
  <2>2. RunnerInv'
    BY <2>1 DEF CallsInv, RunnerInv
  <2>3. \A c \in Calls : since[c] <= Len(loads')
    <3>1. \A c \in Calls : since[c] <= Len(loads) /\ since[c] \in Nat
      BY <2>1 DEF CallsInv, GuestInv
    <3> QED BY <2>1, <3>1
  <2> QED BY <2>1, <2>2, <2>3 DEF CallsInv, GuestInv
<1>3. ASSUME NEW a \in Calls, Call(a) PROVE RunnerInv' /\ GuestInv'
  BY <1>3, RunnerStep, GuestStep DEF CallsInv
<1>4. ASSUME UNCHANGED vars PROVE RunnerInv' /\ GuestInv'
  BY <1>4 DEF vars, guest, CallsInv, RunnerInv, GuestInv
<1> QED BY <1>1, <1>2, <1>3, <1>4 DEF Next, CallsInv

LEMMA CallsInit ==
  ASSUME Init
  PROVE  CallsInv
<1> USE DEF Init
<1>1. Typed
  BY CallsAssumption
  DEF Typed, ModuleType, CallType, HistoryType, NoRunner, Nothing, Runners, PCs
<1>2. WayInv
  BY DEF WayInv
<1>3. WorkersAlone
  BY CallsAssumption DEF WorkersAlone, Busy, Calls
<1>4. RunnerInv /\ GuestInv
  BY DEF RunnerInv, GuestInv, NoRunner
<1> QED BY <1>1, <1>2, <1>3, <1>4 DEF CallsInv

(***************************************************************************)
(* The calls' invariant: their types, how far each one is, that the        *)
(* worker's calls never meet on a runner, and what a runner has for its    *)
(* guest (Begin to Instantiate, and the guest's own calls).                *)
(***************************************************************************)
THEOREM CallsInvariant == Spec => []CallsInv
BY CallsInit, CallsStep, PTL DEF Spec

\* A call with a guest, after a step: it had one and has kept it, or the step started it.
LEMMA GuestRuns ==
  ASSUME CallsInv, NEW a \in Calls, Call(a), NEW c \in Calls, pc'[c] = "run"
  PROVE  /\ on[c] \in Calls /\ on'[c] = on[c] /\ kind'[c] = kind[c]
         /\ runner'[on[c]].load = runner[on[c]].load
         /\ since'[c] = since[c]
         /\ \/ c = a /\ Starts(a)
            \/ pc[c] = "run" /\ c = a /\ (Complains(a) \/ Reads(a))
            \/ /\ pc[c] = "run" /\ c # a /\ got'[c] = got[c]
               /\ c \in complained' <=> c \in complained
               /\ runner'[on[c]].errors = runner[on[c]].errors
<1>0. Typed /\ WayInv /\ GuestInv
  BY DEF CallsInv
<1>1. /\ \A d \in Calls \ {a} :
           /\ pc'[d] = pc[d] /\ kind'[d] = kind[d] /\ on'[d] = on[d] /\ got'[d] = got[d]
           /\ since'[d] = since[d] /\ (d \in complained' <=> d \in complained)
      /\ \A d \in Calls : on[d] # None => on'[d] = on[d] /\ kind'[d] = kind[d]
  BY <1>0, Around
<1>2. \/ c = a /\ (Starts(a) \/ Complains(a) \/ Reads(a)) /\ since'[c] = since[c]
         /\ pc[c] \in {"instantiate", "run"}
      \/ c # a /\ pc[c] = "run"
  BY <1>0, <1>1, CallEffects
  DEF Walks, Assigns, Starts, StartFails, Returns, Complains, Reads, ClearsHistory, KeepsHistory
<1>3. on[c] \in Calls /\ on[c] # None /\ pc[on[c]] \notin {"idle", "begin", "made"}
  <2>1. on[c] # None /\ (on[c] # None => pc[on[c]] \notin {"idle", "begin", "made"})
    BY <1>0, <1>2 DEF WayInv
  <2> QED BY <1>0, <2>1 DEF Typed, CallType
<1>4. runner'[on[c]].load = runner[on[c]].load
  BY <1>0, <1>3, Forward
<1>5. ASSUME c # a, pc[c] = "run" PROVE runner'[on[c]].errors = runner[on[c]].errors
  <2>1. on[a] = on[c] => pc[a] # "run"
    BY <1>0, <1>5 DEF GuestInv
  <2>2. CASE Walks(a)
    BY <1>3, <2>2 DEF Walks
  <2>3. CASE Reads(a) \/ Returns(a)
    BY <2>3 DEF Reads, Returns
  <2>4. CASE Complains(a)
    <3>1. on[a] # on[c]
      BY <2>1, <2>4 DEF Complains
    <3> QED BY <1>3, <2>4, <3>1 DEF Complains, OthersKeep
  <2>5. CASE Assigns(a) \/ Starts(a) \/ StartFails(a)
    BY <1>3, <2>5 DEF Assigns, Starts, StartFails, OthersKeep
  <2> QED BY <1>0, <2>2, <2>3, <2>4, <2>5, CallEffects
<1>6. pc[c] = "run" \/ Starts(a)
  BY <1>2 DEF Complains, Reads
<1> QED BY <1>1, <1>2, <1>3, <1>4, <1>5, <1>6 DEF Complains, Reads

(***************************************************************************)
(* A call never runs a module that is older than the one that was loaded   *)
(* when it began (Load closes the module that it replaces).                *)
(***************************************************************************)
THEOREM NeverOlder == Spec => []FreshModule
<1>1. ASSUME Init PROVE FreshModule
  BY <1>1 DEF Init, FreshModule
<1>2. ASSUME CallsInv, FreshModule, [Next]_vars PROVE FreshModule'
  <2>1. ASSUME NEW m \in Modules, NEW docs \in BOOLEAN, AddWASI(m, docs) PROVE FreshModule'
    BY <1>2, <2>1, Added DEF CallsInv, FreshModule
  <2>2. ASSUME NEW a \in Calls, Call(a) PROVE FreshModule'
    <3> SUFFICES ASSUME NEW c \in Calls, pc'[c] = "run"
                 PROVE  runner'[on'[c]].load >= since'[c]
      BY DEF FreshModule
    <3>1. /\ on'[c] = on[c] /\ runner'[on[c]].load = runner[on[c]].load /\ since'[c] = since[c]
          /\ pc[c] = "run" \/ (c = a /\ Starts(a))
      BY <1>2, <2>2, GuestRuns
    <3>2. since[c] <= Len(loads) /\ since[c] \in Nat /\ Len(loads) \in Nat
      BY <1>2 DEF CallsInv, GuestInv, Typed, HistoryType, ModuleType
    <3>3. pc[c] = "run" => runner[on[c]].load >= since[c]
      BY <1>2 DEF FreshModule
    <3>4. c = a /\ Starts(a) => runner[on[c]].load = Len(loads)
      BY DEF Starts
    <3> QED BY <3>1, <3>2, <3>3, <3>4
  <2>3. CASE UNCHANGED vars
    BY <1>2, <2>3 DEF vars, guest, FreshModule
  <2> QED BY <1>2, <2>1, <2>2, <2>3 DEF Next
<1> QED BY <1>1, <1>2, CallsInvariant, PTL DEF Spec

(***************************************************************************)
(* Concurrent validations never get each other's errors: those in the      *)
(* runner of a Validate are the ones its own guest complained of.          *)
(***************************************************************************)
THEOREM VerdictsApart == Spec => []VerdictOwn
<1>1. ASSUME Init PROVE VerdictOwn
  BY <1>1 DEF Init, VerdictOwn
<1>2. ASSUME CallsInv, VerdictOwn, [Next]_vars PROVE VerdictOwn'
  <2>1. ASSUME NEW m \in Modules, NEW docs \in BOOLEAN, AddWASI(m, docs) PROVE VerdictOwn'
    BY <1>2, <2>1, Added DEF CallsInv, VerdictOwn
  <2>2. ASSUME NEW a \in Calls, Call(a) PROVE VerdictOwn'
    <3> SUFFICES ASSUME NEW c \in Calls, pc'[c] = "run", kind'[c] = "validate"
                 PROVE  runner'[on'[c]].errors = complained' \cap {c}
      BY DEF VerdictOwn
    <3>1. /\ on'[c] = on[c] /\ kind[c] = "validate" /\ on[c] \in Calls
          /\ \/ c = a /\ Starts(a)
             \/ pc[c] = "run" /\ c = a /\ (Complains(a) \/ Reads(a))
             \/ /\ pc[c] = "run" /\ c # a /\ (c \in complained' <=> c \in complained)
                /\ runner'[on[c]].errors = runner[on[c]].errors
      BY <1>2, <2>2, GuestRuns
    <3>2. pc[c] = "run" => runner[on[c]].errors = complained \cap {c}
      BY <1>2, <3>1 DEF VerdictOwn
    <3>3. CASE c = a /\ Starts(a)
      <4>1. /\ runner'[on[c]].errors = runner[on[c]].errors /\ ~runner[on[c]].host
            /\ pc[c] # "run" /\ (c \in complained' <=> c \in complained)
        BY <3>3 DEF Starts, KeepsHistory
      <4>2. runner[on[c]].errors = {} /\ c \notin complained
        BY <1>2, <3>1, <4>1 DEF CallsInv, RunnerInv, GuestInv
      <4> QED BY <3>1, <4>1, <4>2
    <3>4. CASE pc[c] = "run" /\ c = a /\ Complains(a)
      BY <3>1, <3>2, <3>4 DEF Complains
    <3>5. CASE pc[c] = "run" /\ c = a /\ Reads(a)
      BY <3>1, <3>2, <3>5 DEF Reads
    <3> QED BY <3>1, <3>2, <3>3, <3>4, <3>5
  <2>3. CASE UNCHANGED vars
    BY <1>2, <2>3 DEF vars, guest, VerdictOwn
  <2> QED BY <1>2, <2>1, <2>2, <2>3 DEF Next
<1> QED BY <1>1, <1>2, CallsInvariant, PTL DEF Spec

\* What a guest has been given, after a step: nothing, if it does not run; what it had; or what
\* its runner has.
LEMMA GuestGets ==
  ASSUME CallsInv, NEW a \in Calls, Call(a), NEW c \in Calls
  PROVE  \/ got'[c] = Nothing
         \/ /\ pc'[c] = "run" /\ pc[c] = "run"
            /\ got'[c] = got[c] \/ (c = a /\ Reads(a))
<1>0. Typed /\ WayInv /\ GuestInv
  BY DEF CallsInv
<1>1. c # a => got'[c] = got[c] /\ pc'[c] = pc[c]
  BY <1>0, Around
<1>2. pc[c] # "run" => got[c] = Nothing
  BY <1>0 DEF GuestInv
<1>3. CASE c = a
  BY <1>0, <1>2, <1>3, CallEffects
  DEF Walks, Assigns, Starts, StartFails, Returns, Complains, Reads, ClearsHistory, KeepsHistory
<1> QED BY <1>1, <1>2, <1>3

\* A guest only uses the permissions that came with its own module.
OfModule ==
  \A c \in Calls : got[c].method # None => got[c].method \in loads[runner[on[c]].load].perms

LEMMA OwnPermissions == Spec => []OfModule
<1>0. Nothing.method = None
  BY DEF Nothing
<1>1. ASSUME Init PROVE OfModule
  BY <1>0, <1>1 DEF Init, OfModule
<1>2. ASSUME CallsInv, OfModule, [Next]_vars PROVE OfModule'
  <2>0. ASSUME NEW c \in Calls, got[c].method # None
        PROVE  /\ pc[c] = "run" /\ on[c] \in Calls
               /\ runner[on[c]].load \in 1..Len(loads)
               /\ got[c].method \in loads[runner[on[c]].load].perms
    <3>1. pc[c] = "run"
      BY <1>0, <1>2, <2>0 DEF CallsInv, GuestInv
    <3>2. on[c] # None /\ on[c] \in Calls
      BY <1>2, <3>1 DEF CallsInv, WayInv, Typed, CallType
    <3>3. pc[on[c]] \notin {"idle", "begin", "made"}
      BY <1>2, <3>1, <3>2 DEF CallsInv, WayInv
    <3>4. runner[on[c]].load \in 1..Len(loads)
      BY <1>2, <3>2, <3>3 DEF CallsInv, WayInv
    <3> QED BY <1>2, <2>0, <3>1, <3>2, <3>4 DEF OfModule
  <2>1. ASSUME NEW m \in Modules, NEW docs \in BOOLEAN, AddWASI(m, docs)
        PROVE  OfModule'
    <3>1. /\ UNCHANGED <<runner, on, got>>
          /\ \A i \in 1..Len(loads) : loads'[i] = loads[i]
      BY <1>2, <2>1, Added DEF CallsInv
    <3> QED BY <2>0, <3>1 DEF OfModule
  <2>2. ASSUME NEW a \in Calls, Call(a) PROVE OfModule'
    <3> SUFFICES ASSUME NEW c \in Calls, got'[c].method # None
                 PROVE  got'[c].method \in loads'[runner'[on'[c]].load].perms
      BY DEF OfModule
    <3>1. /\ pc'[c] = "run" /\ pc[c] = "run"
          /\ got'[c] = got[c] \/ (c = a /\ Reads(a))
      BY <1>0, <1>2, <2>2, GuestGets
    <3>2. on'[c] = on[c] /\ runner'[on[c]].load = runner[on[c]].load /\ loads' = loads
      BY <1>2, <2>2, <3>1, GuestRuns, Around DEF CallsInv
    <3>3. CASE got'[c] = got[c]
      BY <2>0, <3>2, <3>3
    <3>4. CASE c = a /\ Reads(a)
      BY <3>2, <3>4 DEF Reads, Permissions
    <3> QED BY <3>1, <3>3, <3>4
  <2>3. CASE UNCHANGED vars
    BY <1>2, <2>3 DEF vars, guest, OfModule
  <2> QED BY <1>2, <2>1, <2>2, <2>3 DEF Next
<1> QED BY <1>1, <1>2, CallsInvariant, PTL DEF Spec

(***************************************************************************)
(* A module that Load has put into its map is one that the Extension asked *)
(* for, and since then the Extension has not changed its tag up to the     *)
(* i-th call of AddWASI: the module that is loaded, up to the last call;   *)
(* one that a call may end up with, up to some call of AddWASI that is not *)
(* older than it.                                                          *)
(***************************************************************************)
WantedAs(l, i) == \E j \in 1..i : wanted[j] = loads[l] /\ SameTag(j, i)

Going(c) == pc[c] \notin {"idle", "done"}

TagInv ==
  /\ wanted \in Seq(Modules) /\ asked \in [Calls -> Nat]
  /\ \A c \in Calls : asked[c] <= Len(wanted)
  /\ loads # <<>> => WantedAs(Len(loads), Len(wanted))
  /\ \A c \in Calls : Going(c) =>
       /\ since[c] > 0
       /\ \A l \in since[c]..Len(loads) : \E i \in asked[c]..Len(wanted) : WantedAs(l, i)

\* AddWASI leaves what it was asked before, and what the map had.
LEMMA WantedBefore ==
  ASSUME Typed, wanted \in Seq(Modules), NEW m \in Modules, wanted' = Append(wanted, m),
         \A l \in 1..Len(loads) : loads'[l] = loads[l],
         NEW l \in 1..Len(loads), NEW i \in 0..Len(wanted), WantedAs(l, i)
  PROVE  WantedAs(l, i)'
<1>1. PICK j \in 1..i : wanted[j] = loads[l] /\ SameTag(j, i)
  BY DEF WantedAs
<1>2. Len(wanted) \in Nat /\ \A k \in 1..Len(wanted) : wanted'[k] = wanted[k]
  BY AppendedOne
<1>3. \A k \in j..i : k \in 1..Len(wanted)
  BY <1>2
<1>4. SameTag(j, i)' /\ wanted'[j] = loads'[l]
  BY <1>1, <1>2, <1>3 DEF SameTag
<1> QED BY <1>4 DEF WantedAs

\* A step of a call, by what it remembers.
LEMMA Remembers ==
  ASSUME Typed, TagInv, NEW c \in Calls, Call(c)
  PROVE  /\ wanted' = wanted /\ asked' \in [Calls -> Nat]
         /\ \A d \in Calls :
              \/ asked'[d] = asked[d] /\ since'[d] = since[d] /\ (Going(d)' => Going(d))
              \/ asked'[d] = 0 /\ ~Going(d)'
              \/ asked'[d] = Len(wanted) /\ since'[d] = Len(loads) /\ objects # <<>>
<1> DEFINE Told ==
      /\ wanted' = wanted /\ asked' \in [Calls -> Nat]
      /\ \A d \in Calls :
           \/ asked'[d] = asked[d] /\ since'[d] = since[d] /\ (Going(d)' => Going(d))
           \/ asked'[d] = 0 /\ ~Going(d)'
           \/ asked'[d] = Len(wanted) /\ since'[d] = Len(loads) /\ objects # <<>>
<1>0. /\ asked \in [Calls -> Nat] /\ since \in [Calls -> Nat] /\ pc \in [Calls -> PCs]
      /\ Len(wanted) \in Nat
  BY DEF Typed, CallType, HistoryType, TagInv
<1>1. ASSUME NEW k \in Kinds[c], Begin(c, k) PROVE Told
  BY <1>0, <1>1 DEF Begin, Going, Current
<1>2. CASE NewRunner(c) \/ SetInstance(c) \/ GetInstance(c) \/ AssignRequest(c) \/ Instantiate(c)
  BY <1>0, <1>2
  DEF NewRunner, SetInstance, GetInstance, AssignRequest, Instantiate, guest, Going
<1>3. ASSUME End(c), wanted' = wanted PROVE Told
  BY <1>0, <1>3 DEF End, Going
<1>4. CASE InstantiateFails(c) \/ GuestReturns(c)
  BY <1>3, <1>4 DEF InstantiateFails, GuestReturns
<1>5. CASE GetSpec(c) \/ ValidationError(c)
  BY <1>0, <1>5 DEF GetSpec, ValidationError, Going
<1>6. ASSUME NEW m \in Methods, Access(c, m) PROVE Told
  <2>1. wanted' = wanted
    BY <1>6 DEF Access
  <2>2. CASE ~End(c)
    BY <1>0, <1>6, <2>1, <2>2 DEF Access, Going
  <2> QED BY <1>3, <2>1, <2>2
<1> QED BY <1>1, <1>2, <1>4, <1>5, <1>6 DEF Call

LEMMA TagStep ==
  ASSUME CallsInv, CallsInv', TagInv, [Next]_vars
  PROVE  TagInv'
<1>0. Typed /\ WayInv /\ Len(loads) \in Nat /\ Len(wanted) \in Nat
  BY DEF CallsInv, Typed, ModuleType, TagInv
<1>1. ASSUME NEW m \in Modules, NEW docs \in BOOLEAN, AddWASI(m, docs) PROVE TagInv'
  <2>0. PICK n \in Nat : n = Len(wanted) + 1
    BY <1>0
  <2>9. PICK q \in Nat : q = Len(loads')
    BY <1>0, <1>1, Added
  <2>1. wanted' = Append(wanted, m) /\ UNCHANGED <<asked, since, pc>>
    BY <1>1 DEF AddWASI, guest
  <2>2. /\ wanted \in Seq(Modules) /\ wanted' \in Seq(Modules) /\ Len(wanted') = n
        /\ wanted'[n] = m /\ \A k \in 1..Len(wanted) : wanted'[k] = wanted[k]
    BY <2>0, <2>1, AppendedOne DEF TagInv
  <2>3. \A l \in 1..Len(loads) : loads'[l] = loads[l]
    BY <1>0, <1>1, Added
  <2>4. ASSUME NEW l \in 1..Len(loads), NEW i \in 0..Len(wanted), WantedAs(l, i)
        PROVE  WantedAs(l, i)'
    BY <1>0, <2>1, <2>2, <2>3, <2>4, WantedBefore
  <2>5. \/ loads' = loads /\ loads # <<>> /\ Last(loads).tag = m.tag
        \/ loads' = Append(loads, m)
    BY <1>1 DEF AddWASI, Load, Known
  <2>6. asked' \in [Calls -> Nat] /\ \A c \in Calls : asked'[c] <= Len(wanted) /\ asked'[c] <= n
    BY <1>0, <2>0, <2>1 DEF TagInv
  <2>7. WantedAs(q, n)'
    <3>1. CASE loads' = loads /\ loads # <<>> /\ Last(loads).tag = m.tag
      <4>1. PICK j \in 1..Len(wanted) : wanted[j] = loads[Len(loads)] /\ SameTag(j, Len(wanted))
        BY <3>1 DEF TagInv, WantedAs
      <4>2. loads[Len(loads)].tag = m.tag
        BY <1>0, <3>1 DEF Last
      <4>3. \A k \in j..n : wanted'[k].tag = wanted'[j].tag
        <5>1. \A k \in j..Len(wanted) : wanted'[k].tag = wanted'[j].tag
          BY <1>0, <2>2, <4>1 DEF SameTag
        <5>2. wanted'[n].tag = wanted'[j].tag
          BY <2>2, <4>1, <4>2
        <5> QED BY <1>0, <2>0, <5>1, <5>2
      <4>4. j \in 1..n /\ wanted'[j] = loads'[q]
        BY <1>0, <2>0, <2>2, <2>9, <3>1, <4>1
      <4> QED BY <4>3, <4>4 DEF WantedAs, SameTag
    <3>2. CASE loads' = Append(loads, m)
      <4>1. loads'[q] = m
        BY <1>0, <2>9, <3>2, AppendedOne DEF Typed, ModuleType
      <4> QED BY <1>0, <2>0, <2>2, <4>1 DEF WantedAs, SameTag
    <3> QED BY <2>5, <3>1, <3>2
  <2>8. ASSUME NEW c \in Calls, Going(c)', NEW l \in (since[c]..Len(loads))'
        PROVE  \E i \in asked[c]..n : WantedAs(l, i)'
    <3>0. /\ Going(c) /\ since'[c] = since[c] /\ since[c] \in Nat /\ asked[c] \in 0..Len(wanted)
          /\ Len(loads') \in Nat /\ since[c] > 0
      BY <1>0, <1>1, <2>1, <2>8, Added DEF Going, TagInv, Typed, HistoryType
    <3>1. CASE l \in 1..Len(loads)
      <4>1. PICK i \in asked[c]..Len(wanted) : WantedAs(l, i)
        BY <1>0, <2>8, <3>0, <3>1 DEF TagInv
      <4> QED BY <1>0, <2>0, <2>4, <3>0, <3>1, <4>1
    <3>2. CASE l \notin 1..Len(loads)
      <4>1. l = q
        BY <1>0, <2>5, <2>8, <2>9, <3>0, <3>2, AppendedOne DEF Typed, ModuleType
      <4> QED BY <2>0, <2>7, <3>0, <4>1
    <3> QED BY <3>1, <3>2
  <2>10. WantedAs(Len(loads), Len(wanted))'
    BY <2>2, <2>7, <2>9 DEF WantedAs, SameTag
  <2>11. \A c \in Calls : Going(c)' => since'[c] > 0
    BY <2>1 DEF TagInv, Going
  <2> QED BY <2>1, <2>2, <2>6, <2>8, <2>10, <2>11 DEF TagInv
<1>2. ASSUME NEW a \in Calls, Call(a) PROVE TagInv'
  <2>1. loads' = loads
    BY <1>0, <1>2, CallKeeps DEF Typed
  <2>2. wanted' = wanted /\ asked' \in [Calls -> Nat]
    BY <1>0, <1>2, Remembers
  <2>3. ASSUME NEW c \in Calls
        PROVE  /\ asked'[c] <= Len(wanted)
               /\ Going(c)' => since'[c] > 0 /\ \A l \in since'[c]..Len(loads) :
                    \E i \in asked'[c]..Len(wanted) : WantedAs(l, i)
    <3>1. \/ asked'[c] = asked[c] /\ since'[c] = since[c] /\ (Going(c)' => Going(c))
          \/ asked'[c] = 0 /\ ~Going(c)'
          \/ asked'[c] = Len(wanted) /\ since'[c] = Len(loads) /\ objects # <<>>
      BY <1>0, <1>2, Remembers
    <3>2. CASE asked'[c] = asked[c] /\ since'[c] = since[c] /\ (Going(c)' => Going(c))
      BY <3>2 DEF TagInv
    <3>3. CASE asked'[c] = 0 /\ ~Going(c)'
      BY <1>0, <3>3
    <3>4. CASE asked'[c] = Len(wanted) /\ since'[c] = Len(loads) /\ objects # <<>>
      <4>1. WantedAs(Len(loads), Len(wanted))
        BY <1>0, <3>4 DEF WayInv, TagInv
      <4>2. Len(loads) > 0
        BY <1>0, <3>4 DEF WayInv, Typed, ModuleType
      <4> QED BY <1>0, <3>4, <4>1, <4>2
    <3> QED BY <3>1, <3>2, <3>3, <3>4
  <2> QED BY <2>1, <2>2, <2>3 DEF TagInv, WantedAs, SameTag
<1>3. CASE UNCHANGED vars
  <2>1. UNCHANGED <<wanted, loads, asked, since, pc>>
    BY <1>3 DEF vars, guest
  <2>2. ASSUME NEW l, NEW i, WantedAs(l, i) PROVE WantedAs(l, i)'
    BY <2>1, <2>2 DEF WantedAs, SameTag
  <2>3. loads' # <<>> => WantedAs(Len(loads), Len(wanted))'
    BY <2>1 DEF TagInv, WantedAs, SameTag
  <2> QED BY <2>1, <2>2, <2>3 DEF TagInv, Going
<1> QED BY <1>1, <1>2, <1>3 DEF Next

(***************************************************************************)
(* While Load replaces modules and calls share runners, what a guest is    *)
(* allowed lags behind what the Extension lists only by edits that left    *)
(* its tag alone.                                                          *)
(***************************************************************************)
THEOREM TagsPermissions == Spec => []PermissionsOfTag
<1>1. ASSUME Init PROVE TagInv
  BY <1>1 DEF Init, TagInv, Going
<1>2. ASSUME CallsInv, FreshModule, OfModule, TagInv PROVE PermissionsOfTag
  <2> SUFFICES ASSUME NEW c \in Calls, got[c].method # None
               PROVE  \E i \in asked[c]..Len(wanted) : \E j \in 1..i :
                        got[c].method \in wanted[j].perms /\ SameTag(j, i)
    BY DEF PermissionsOfTag
  <2>1. pc[c] = "run"
    BY <1>2 DEF CallsInv, GuestInv, Nothing
  <2>2. on[c] # None /\ on[c] \in Calls
    BY <1>2, <2>1 DEF CallsInv, WayInv, Typed, CallType
  <2>3. pc[on[c]] \notin {"idle", "begin", "made"}
    BY <1>2, <2>1, <2>2 DEF CallsInv, WayInv
  <2>4. runner[on[c]].load \in 1..Len(loads)
    BY <1>2, <2>2, <2>3 DEF CallsInv, WayInv
  <2>5. runner[on[c]].load >= since[c] /\ since[c] \in Nat /\ Len(loads) \in Nat
    BY <1>2, <2>1 DEF FreshModule, CallsInv, Typed, HistoryType, ModuleType
  <2>6. PICK i \in asked[c]..Len(wanted) : WantedAs(runner[on[c]].load, i)
    BY <1>2, <2>1, <2>4, <2>5 DEF TagInv, Going
  <2>7. PICK j \in 1..i : wanted[j] = loads[runner[on[c]].load] /\ SameTag(j, i)
    BY <2>6 DEF WantedAs
  <2>8. got[c].method \in wanted[j].perms
    BY <1>2, <2>7 DEF OfModule
  <2> QED BY <2>7, <2>8
<1> QED BY <1>1, <1>2, TagStep, CallsInvariant, NeverOlder, OwnPermissions, PTL DEF Spec

(***************************************************************************)
(* Although all calls of an object write its field without a lock, a guest *)
(* of the reconciler is only given the request of its own call, and one of *)
(* a webhook another request only if a Sync ran into its runner.           *)
(***************************************************************************)
THEOREM RequestsKeptApart == Spec => []ReadsOwnRequest
<1>0. Nothing.from = None
  BY DEF Nothing
<1>1. ASSUME Init PROVE ReadsOwnRequest
  BY <1>0, <1>1 DEF Init, ReadsOwnRequest
<1>2. ASSUME CallsInv, ReadsOwnRequest, [Next]_vars PROVE ReadsOwnRequest'
  <2>1. ASSUME NEW m \in Modules, NEW docs \in BOOLEAN, AddWASI(m, docs) PROVE ReadsOwnRequest'
    BY <1>2, <2>1, Added DEF CallsInv, ReadsOwnRequest
  <2>2. ASSUME NEW a \in Calls, Call(a) PROVE ReadsOwnRequest'
    <3> SUFFICES ASSUME NEW c \in Calls, got'[c] # Nothing
                 PROVE  \/ got'[c].from \in {None, c}
                        \/ /\ c \in WebhookCalls /\ got'[c].from \in WorkerCalls
                           /\ kind'[got'[c].from] = "sync" /\ on'[got'[c].from] = on'[c]
      BY <1>0 DEF ReadsOwnRequest
    <3>1. /\ pc'[c] = "run" /\ pc[c] = "run"
          /\ got'[c] = got[c] \/ (c = a /\ Reads(a))
      BY <1>2, <2>2, GuestGets
    <3>2. on'[c] = on[c] /\ on[c] \in Calls
      BY <1>2, <2>2, <3>1, GuestRuns
    <3>3. /\ \A d \in Calls : on[d] # None => on'[d] = on[d] /\ kind'[d] = kind[d]
          /\ WorkerCalls \subseteq Calls /\ WebhookCalls \subseteq Calls /\ None \notin Calls
          /\ Calls = WorkerCalls \cup WebhookCalls
      BY <1>2, <2>2, Around, CallsAssumption DEF CallsInv, Calls
    <3>4. CASE got'[c] = got[c]
      <4>1. \/ got[c].from \in {None, c}
            \/ /\ c \in WebhookCalls /\ got[c].from \in WorkerCalls
               /\ kind[got[c].from] = "sync" /\ on[got[c].from] = on[c]
        BY <1>2 DEF ReadsOwnRequest
      <4> QED BY <3>2, <3>3, <3>4, <4>1
    <3>5. CASE c = a /\ Reads(a)
      <4> DEFINE x == runner[on[c]].sync
      <4>1. /\ c \in WorkerCalls => x = c
            /\ kind[c] = "default" => x # None
            /\ kind[c] = "validate" => runner[on[c]].validation = c
            /\ pc[c] = "run"
        BY <1>2, <3>1 DEF CallsInv, GuestInv
      <4>2. c \in WebhookCalls => kind[c] \in {"default", "validate"}
        BY <1>2, <3>1 DEF CallsInv, WayInv
      <4>3. got'[c].from = x \/ (x = None /\ got'[c].from = runner[on[c]].validation)
        BY <3>5 DEF Reads
      <4>4. x # None => /\ x \in Calls /\ on[x] = on[c]
                        /\ kind[x] = "sync" \/ x = c
        <5>1. x \in Calls \cup {None}
          BY <1>2, <3>2 DEF CallsInv, Typed, CallType, Runners
        <5>2. x # None => /\ on[x] = on[c]
                          /\ kind[x] = "sync" \/ \A d \in Calls \ {x} : on[d] = on[c] => pc[d] # "run"
          BY <1>2, <3>2 DEF CallsInv, RunnerInv
        <5> QED BY <3>1, <5>1, <5>2
      <4>5. x # None /\ kind[x] = "sync" => x \in WorkerCalls
        <5>1. x # None => pc[x] # "idle"
          <6>1. x # None => on[x] # None
            BY <3>2, <3>3, <4>4
          <6> QED BY <1>2, <4>4, <6>1 DEF CallsInv, WayInv
        <5>2. x # None /\ x \in WebhookCalls => kind[x] \in {"default", "validate"}
          BY <1>2, <3>3, <5>1 DEF CallsInv, WayInv
        <5> QED BY <3>3, <4>4, <5>2
      <4> HIDE DEF x
      <4>6. CASE x # None
        <5>1. on'[x] = on'[c] /\ kind'[x] = kind[x] /\ got'[c].from = x
          BY <3>2, <3>3, <4>3, <4>4, <4>6
        <5> QED BY <3>3, <4>1, <4>4, <4>5, <4>6, <5>1
      <4>7. CASE x = None
        BY <3>3, <4>1, <4>2, <4>3, <4>7
      <4> QED BY <4>6, <4>7
    <3> QED BY <3>1, <3>4, <3>5
  <2>3. CASE UNCHANGED vars
    BY <1>2, <2>3 DEF vars, guest, ReadsOwnRequest
  <2> QED BY <1>2, <2>1, <2>2, <2>3 DEF Next
<1> QED BY <1>1, <1>2, CallsInvariant, PTL DEF Spec
-----------------------------------------------------------------------------
(* The stream of a call of Sync: WasiStream, for guests with any number of  *)
(* messages.                                                                *)

StreamType == StreamTypeOK /\ StreamInv

(***************************************************************************)
(* Every step preserves the types and the invariant of the stream.         *)
(***************************************************************************)
LEMMA StreamStep ==
  ASSUME StreamType, [StreamNext]_streamVars
  PROVE  StreamType'
<1> USE StreamAssumption DEF StreamType, StreamTypeOK, StreamInv,
            InOrder, EndOfStream, ErrorIsGenuine
<1>1. CASE Send
  BY <1>1 DEF Send
<1>2. CASE Reuse
  BY <1>2 DEF Reuse
<1>3. CASE SyncReturns
  BY <1>3 DEF SyncReturns
<1>4. CASE CloseMsgs
  BY <1>4 DEF CloseMsgs
<1>5. CASE CloseErrs
  BY <1>5 DEF CloseErrs
<1>6. CASE RecvMsg
  BY <1>6 DEF RecvMsg
<1>7. CASE RecvMsgsClosed
  BY <1>7 DEF RecvMsgsClosed
<1>8. CASE RecvErr
  BY <1>8 DEF RecvErr
<1>9. CASE RecvErrsClosed
  BY <1>9 DEF RecvErrsClosed
<1>10. CASE Stop
  BY <1>10 DEF Stop
<1>11. CASE UNCHANGED streamVars
  BY <1>11 DEF streamVars
<1> QED
  BY <1>1, <1>2, <1>3, <1>4, <1>5, <1>6, <1>7, <1>8, <1>9, <1>10, <1>11
  DEF StreamNext, Producer, Recv

(***************************************************************************)
(* The stream's invariant: whatever the select statement picks, messages   *)
(* are received in order and without a gap, the end of the stream comes    *)
(* after the guest has returned, and misses at most its last message.      *)
(***************************************************************************)
THEOREM StreamInvariant == StreamSpec => [](StreamTypeOK /\ StreamInv)
<1>1. StreamInit => StreamType
  <2> SUFFICES ASSUME StreamInit PROVE StreamType
    OBVIOUS
  <2>1. total \in 0..MaxMsgs /\ sent \in 0..MaxMsgs /\ received \in Nat /\ buf \in 0..MaxMsgs
    BY StreamAssumption, SMT DEF StreamInit
  <2>2. /\ fails \in BOOLEAN /\ err \in BOOLEAN
        /\ msgsClosed \in BOOLEAN /\ errsClosed \in BOOLEAN
        /\ producer \in {"guest", "closeMsgs", "closeErrs", "end"}
        /\ consumer \in {"recv", "eof", "error", "stopped"}
        /\ overwritten \subseteq Patches
    BY Zenon DEF StreamInit
  <2>3. StreamTypeOK
    BY <2>1, <2>2, Zenon DEF StreamTypeOK
  <2>4. StreamInv
    BY StreamAssumption DEF StreamInit, StreamInv, InOrder, EndOfStream, ErrorIsGenuine
  <2> QED BY <2>3, <2>4 DEF StreamType
<1>2. StreamType /\ [StreamNext]_streamVars => StreamType'
  BY StreamStep
<1>3. StreamType => StreamTypeOK /\ StreamInv
  BY DEF StreamType
<1> QED BY <1>1, <1>2, <1>3, PTL DEF StreamSpec

(***************************************************************************)
(* An end of stream that Recv reports misses at most the last message.     *)
(***************************************************************************)
THEOREM EndOfStreamHolds == StreamSpec => []EndOfStream
<1>1. StreamTypeOK /\ StreamInv => EndOfStream
  BY DEF StreamInv
<1> QED BY <1>1, StreamInvariant, PTL

(***************************************************************************)
(* Messages are received in order, without a gap and without a repetition. *)
(***************************************************************************)
THEOREM InOrderHolds == StreamSpec => []InOrder
<1>1. StreamTypeOK /\ StreamInv => InOrder
  BY DEF StreamInv
<1> QED BY <1>1, StreamInvariant, PTL
=============================================================================
