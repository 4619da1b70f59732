------------------------ MODULE ExtensionServerProofs ------------------------
(***************************************************************************)
(* Theorems about ExtensionServer, for any number of calls, revisions,     *)
(* deaths and failures: what an answered Sync has done, and what a stop of *)
(* the server does not do.                                                 *)
(***************************************************************************)
EXTENDS ExtensionServer, TLAPS

-----------------------------------------------------------------------------
(* What the calls are doing. *)

(***************************************************************************)
(* A call: what it asks for, and where it may be.  A Sync or Delete that   *)
(* still has its handler is the one the operator waits for, and one that   *)
(* has got to the cluster is of a revision that has a spec, or has none.   *)
(***************************************************************************)
ForOperator(call) == call.method \in {"Sync", "Delete"}

CallOK(c) ==
  calls[c] # None =>
    /\ calls[c].rev \in DOMAIN Revisions /\ calls[c].rev <= want
    /\ calls[c].base <= version
    /\ ForOperator(calls[c]) =>
         /\ calls[c].req = SyncRequest(SpecAt(calls[c].rev))
         /\ calls[c].method = "Delete" <=> Revisions[calls[c].rev] \in {Empty, Gone}
         /\ calls[c].pc # "lost" => op = c
    /\ ~ForOperator(calls[c]) => calls[c].pc \in {"sent", "decode"} /\ op # c
    /\ calls[c].pc \in {"get", "create", "update"} => calls[c].method = "Sync"
    /\ calls[c].pc = "delete" => calls[c].method = "Delete"
    /\ calls[c].pc \in {"get", "create", "update", "lost"} /\ calls[c].method = "Sync" =>
         Revisions[calls[c].rev] \in Specs
    /\ calls[c].pc \in {"sent", "decode", "get", "create"} => calls[c].base = 0

CallsInv ==
  /\ \A c \in Slots : CallOK(c)
  /\ op # None => /\ done < want /\ done < calls[op].rev /\ result = None
                  /\ calls[op] # None /\ ForOperator(calls[op]) /\ calls[op].pc # "lost"

(***************************************************************************)
(* What the worker has to write is of a revision that is not yet done.     *)
(***************************************************************************)
ResultInv ==
  result # None => /\ op = None /\ done < result.rev
                   /\ result.rev \in DOMAIN Revisions /\ result.rev <= want

(***************************************************************************)
(* What was answered is there, and no write that is still on its way can   *)
(* be accepted any more but a Delete: a Create finds an Ingress, and an    *)
(* Update was read from an older one.  It is so from the answer until the  *)
(* worker calls again.                                                     *)
(***************************************************************************)
Last == IF result # None THEN result.rev ELSE done
Settled ==
  op = None /\ (result # None \/ done = want) /\ Revisions[Last] \in Specs /\ ~late

Routed ==
  Settled =>
    /\ ingress # None /\ ingress.rules = Revisions[Last]
    /\ \A c \in Slots : At(c, {"lost"}) => calls[c].base < ingress.version

LEMMA Revised ==
  /\ DOMAIN Revisions \subseteq Nat
  /\ \A r \in DOMAIN Revisions : r >= 1 /\ Revisions[r] \in Specs \cup {Bad, Empty, Gone}
  /\ 1 \in DOMAIN Revisions
<1>1. Revisions \in Seq(Specs \cup {Bad, Empty, Gone}) /\ Revisions # <<>>
  BY ServerAssumption
<1> QED BY <1>1

\* What a call of the operator carries.
LEMMA SpecAtIs ==
  ASSUME NEW rev \in DOMAIN Revisions
  PROVE  /\ SpecAt(rev) \in Specs \cup {Bad, Empty}
         /\ Revisions[rev] # Gone => SpecAt(rev) = Revisions[rev]
<1>1. Revisions \in Seq(Specs \cup {Bad, Empty, Gone})
  BY ServerAssumption
<1>2. Revisions[rev] = Gone => rev - 1 \in DOMAIN Revisions /\ Revisions[rev - 1] # Gone
  <2>1. Revisions[rev] = Gone => rev > 1 /\ Revisions[rev - 1] # Gone
    BY RevisionsAssumption
  <2> QED BY <1>1, <2>1
<1> QED BY <1>2, Revised DEF SpecAt

LEMMA OutcomeIs ==
  ASSUME NEW call \in Calls, NEW ok \in BOOLEAN
  PROVE  /\ Outcome(call, ok) \in Results \cup {None}
         /\ Outcome(call, ok) # None => Outcome(call, ok).rev = call.rev
         /\ ok => Outcome(call, ok) # None
         /\ ~ok /\ Outcome(call, ok) # None => Revisions[call.rev] = Empty
<1>1. \A b \in BOOLEAN : [rev |-> call.rev, listed |-> b] \in Results
  BY DEF Calls, Results
<1>2. \A b \in BOOLEAN : [rev |-> call.rev, listed |-> b] # None
  BY <1>1, NoneAssumption
<1> QED BY <1>1, <1>2 DEF Outcome

LEMMA ServerInit ==
  ASSUME Init
  PROVE  TypeOK /\ CallsInv /\ ResultInv /\ Routed
<1>1. 1 \in DOMAIN Revisions
  BY Revised
<1>2. TypeOK
  <2>1. listed \in BOOLEAN
    BY DEF Init
  <2>2. spent \in [{"faults", "ends", "webhooks"} -> Nat]
    BY DEF Init
  <2> QED BY <1>1, <2>1, <2>2 DEF Init, TypeOK
<1>3. CallsInv /\ ResultInv
  BY DEF Init, CallsInv, CallOK, ResultInv
<1>4. ~Settled
  BY DEF Init, Settled
<1> QED BY <1>2, <1>3, <1>4 DEF Routed

\* The handler of c moves on.
LEMMA Moved ==
  ASSUME TypeOK, NEW c \in Slots, calls[c] # None, NEW p \in {"sent", "lost"} \cup Running,
         calls' = [calls EXCEPT ![c].pc = p]
  PROVE  /\ calls' \in [Slots -> Calls \cup {None}]
         /\ \A d \in Slots \ {c} : calls'[d] = calls[d]
         /\ calls'[c].pc = p /\ calls'[c].method = calls[c].method
         /\ calls'[c].rev = calls[c].rev /\ calls'[c].req = calls[c].req
         /\ calls'[c].base = calls[c].base
<1> DEFINE moved == [calls[c] EXCEPT !.pc = p]
<1>1. calls \in [Slots -> Calls \cup {None}] /\ calls[c] \in Calls
  BY DEF TypeOK
<1>2. /\ moved \in Calls /\ moved.pc = p /\ moved.method = calls[c].method
      /\ moved.rev = calls[c].rev /\ moved.req = calls[c].req /\ moved.base = calls[c].base
  BY <1>1 DEF Calls
<1>3. calls' = [calls EXCEPT ![c] = moved]
  OBVIOUS
<1> HIDE DEF moved
<1> QED BY <1>1, <1>2, <1>3

\* A call that is cut: it is gone, or on its way.
LEMMA CutIs ==
  ASSUME NEW call \in Calls \cup {None}
  PROVE  /\ Cut(call) \in Calls \cup {None}
         /\ Cut(call) # None =>
              /\ call # None /\ call.pc \in Writes \cup {"lost"}
              /\ Cut(call).pc = "lost" /\ Cut(call).method = call.method
              /\ Cut(call).rev = call.rev /\ Cut(call).req = call.req
              /\ Cut(call).base = call.base
<1> DEFINE sent == [call EXCEPT !.pc = "lost"]
<1>1. Cut(call) = IF call # None /\ call.pc \in Writes \cup {"lost"} THEN sent ELSE None
  BY DEF Cut
<1>2. call # None => /\ sent \in Calls
                     /\ sent.pc = "lost" /\ sent.method = call.method
                     /\ sent.rev = call.rev /\ sent.req = call.req /\ sent.base = call.base
  BY DEF Calls
<1> HIDE DEF sent
<1> QED BY <1>1, <1>2

-----------------------------------------------------------------------------
(* The steps. *)

ServerInv == TypeOK /\ CallsInv /\ ResultInv /\ Routed

\* The call that the operator waits for, and any other one.
LEMMA OfOperator ==
  ASSUME ServerInv, NEW c \in Slots, calls[c] # None
  PROVE  /\ calls[c] \in Calls /\ CallOK(c) /\ c # None
         /\ calls[c].pc \in {"get", "create", "update", "delete"} => op = c /\ ForOperator(calls[c])
         /\ op = c => /\ done < want /\ result = None
                      /\ ForOperator(calls[c]) /\ calls[c].pc # "lost"
         /\ calls[c].rev \in Nat /\ calls[c].rev <= want
         /\ calls[c].base \in Nat /\ calls[c].base <= version
<1>1. calls[c] \in Calls /\ c # None
  BY ServerAssumption DEF ServerInv, TypeOK
<1>2. CallOK(c) /\ (op # None => /\ done < want /\ result = None
                                 /\ ForOperator(calls[op]) /\ calls[op].pc # "lost")
  BY DEF ServerInv, CallsInv
<1> QED BY <1>1, <1>2 DEF CallOK, ForOperator, Calls

\* A call of the operator is of a revision that is not yet done.
LEMMA NotYetDone ==
  ASSUME ServerInv, NEW c \in Slots, calls[c] # None, op = c
  PROVE  done < calls[c].rev
BY ServerAssumption DEF ServerInv, CallsInv

\* A call ends, without an answer for the operator or with one.
LEMMA Ends ==
  ASSUME ServerInv, NEW c \in Slots, calls[c] # None, NEW ok \in BOOLEAN, Answer(c, ok),
         UNCHANGED <<want, status>>, version' \in Nat, version <= version'
  PROVE  /\ calls' \in [Slots -> Calls \cup {None}] /\ op' \in Slots \cup {None}
         /\ result' \in Results \cup {None}
         /\ CallsInv' /\ ResultInv'
         /\ calls'[c] = None /\ \A d \in Slots \ {c} : calls'[d] = calls[d]
         /\ op = c => op' = None /\ result' = Outcome(calls[c], ok)
         /\ op # c => op' = op /\ result' = result
<1>0. /\ calls \in [Slots -> Calls \cup {None}] /\ op \in Slots \cup {None}
      /\ result \in Results \cup {None} /\ calls[c] \in Calls
      /\ done \in Nat /\ done <= want /\ version \in Nat /\ want \in Nat
      /\ UNCHANGED <<want, done, listed>> /\ c # None
  BY Revised, ServerAssumption DEF ServerInv, TypeOK, status
<1>1. /\ calls'[c] = None /\ \A d \in Slots \ {c} : calls'[d] = calls[d]
      /\ calls' \in [Slots -> Calls \cup {None}]
  BY <1>0 DEF Answer
<1>2. /\ op = c => op' = None /\ result' = Outcome(calls[c], ok)
      /\ op # c => op' = op /\ result' = result
  BY DEF Answer
<1>3. result' \in Results \cup {None} /\ op' \in Slots \cup {None}
  BY <1>0, <1>2, OutcomeIs
<1>4. ASSUME NEW d \in Slots PROVE CallOK(d)'
  <2>1. CASE d = c
    BY <1>1, <2>1 DEF CallOK
  <2>2. CASE d # c /\ calls[d] # None
    <3>1. calls'[d] = calls[d] /\ d # None /\ calls[d].base \in Nat /\ CallOK(d)
      BY <1>1, <2>2, OfOperator
    <3>2. (op' = d <=> op = d)
      BY <1>2, <2>2, <3>1
    <3>3. calls[d].base <= version => calls[d].base <= version'
      BY <1>0, <3>1
    <3> QED BY <1>0, <2>2, <3>1, <3>2, <3>3 DEF CallOK
  <2>3. CASE d # c /\ calls[d] = None
    BY <1>1, <2>3 DEF CallOK
  <2> QED BY <2>1, <2>2, <2>3
<1>5. op' # None => /\ done' < want' /\ result' = None
                    /\ done' < calls'[op'].rev
                    /\ calls'[op'] # None /\ ForOperator(calls'[op']) /\ calls'[op'].pc # "lost"
  <2>1. op' # None => op' = op /\ op # c /\ result' = result /\ calls'[op'] = calls[op]
    BY <1>0, <1>1, <1>2
  <2>2. op # None => /\ done < want /\ done < calls[op].rev /\ result = None
                     /\ calls[op] # None /\ ForOperator(calls[op]) /\ calls[op].pc # "lost"
    BY DEF ServerInv, CallsInv
  <2> QED BY <1>0, <2>1, <2>2
<1>6. CallsInv'
  BY <1>4, <1>5 DEF CallsInv
<1>7. ResultInv'
  <2>1. CASE op = c
    <3>1. result' # None => result'.rev = calls[c].rev /\ op' = None
      BY <1>0, <1>2, <2>1, OutcomeIs
    <3>2. /\ calls[c].rev \in DOMAIN Revisions /\ calls[c].rev <= want
          /\ done < calls[c].rev
      BY <2>1, OfOperator, NotYetDone DEF CallOK
    <3> QED BY <1>0, <3>1, <3>2 DEF ResultInv
  <2>2. CASE op # c
    BY <1>0, <1>2, <2>2 DEF ServerInv, ResultInv
  <2> QED BY <2>1, <2>2
<1> QED BY <1>1, <1>2, <1>3, <1>6, <1>7

\* The lost writes are no problem as long as there is no new one.
LEMMA StaysRouted ==
  ASSUME ServerInv, Settled' => Settled /\ Last' = Last, UNCHANGED ingress,
         \A c \in Slots : Settled /\ At(c, {"lost"})' => At(c, {"lost"}) /\ calls'[c].base = calls[c].base
  PROVE  Routed'
BY DEF ServerInv, Routed

\* An answer that is an error, or not for the operator.
LEMMA AnswerStep ==
  ASSUME ServerInv, NEW c \in Slots, calls[c] # None, NEW ok \in BOOLEAN, Answer(c, ok),
         op = c => ~ok, UNCHANGED <<want, status, server, cluster>>,
         spent' \in [{"faults", "ends", "webhooks"} -> Nat]
  PROVE  ServerInv'
<1>0. /\ version \in Nat /\ done \in Nat /\ want \in Nat /\ UNCHANGED <<want, done, listed>>
      /\ UNCHANGED <<ingress, version, late>>
  BY Revised DEF ServerInv, TypeOK, status, cluster
<1>1. /\ calls' \in [Slots -> Calls \cup {None}] /\ op' \in Slots \cup {None}
      /\ result' \in Results \cup {None} /\ CallsInv' /\ ResultInv'
      /\ calls'[c] = None /\ \A d \in Slots \ {c} : calls'[d] = calls[d]
      /\ op = c => op' = None /\ result' = Outcome(calls[c], ok)
      /\ op # c => op' = op /\ result' = result
  BY <1>0, Ends
<1>2. TypeOK'
  BY <1>0, <1>1 DEF ServerInv, TypeOK
<1>3. Settled' => Settled /\ Last' = Last
  <2>1. CASE op = c
    <3>1. done < want /\ calls[c] \in Calls /\ Empty \notin Specs
      BY <2>1, OfOperator, ServerAssumption
    <3>2. result' # None => Revisions[result'.rev] = Empty
      BY <1>1, <2>1, <3>1, OutcomeIs
    <3> QED BY <1>0, <3>1, <3>2 DEF Settled, Last
  <2>2. CASE op # c
    BY <1>0, <1>1, <2>2 DEF Settled, Last
  <2> QED BY <2>1, <2>2
<1>4. Routed'
  BY <1>0, <1>1, <1>3, StaysRouted DEF At
<1> QED BY <1>1, <1>2, <1>4 DEF ServerInv

\* Processes die: the calls of D are cut.
LEMMA CutStep ==
  ASSUME ServerInv, NEW D \in SUBSET Slots,
         calls' = [c \in Slots |-> IF c \in D THEN Cut(calls[c]) ELSE calls[c]],
         op' = IF op \in D THEN None ELSE op,
         \/ result' = None
         \/ op \in D /\ result' = Outcome(calls[op], FALSE)
         \/ op \notin D /\ result' = result,
         UNCHANGED <<want, status, cluster>>, server' \in {"down", "serving", "draining"},
         spent' \in [{"faults", "ends", "webhooks"} -> Nat]
  PROVE  ServerInv'
<1>0. /\ calls \in [Slots -> Calls \cup {None}] /\ op \in Slots \cup {None} /\ None \notin Slots
      /\ \A c \in Slots : CallOK(c)
      /\ UNCHANGED <<want, done, listed, ingress, version, late>>
      /\ done \in Nat /\ want \in Nat /\ result \in Results \cup {None}
  BY ServerAssumption, Revised DEF ServerInv, TypeOK, CallsInv, status, cluster
<1>00. /\ result' \in Results \cup {None}
       /\ result' # None => \/ result' = result /\ op' = op
                            \/ /\ op \in D /\ op' = None
                               /\ Revisions[result'.rev] = Empty /\ result'.rev = calls[op].rev
  <2>1. op \in D => calls[op] \in Calls
    BY <1>0 DEF ServerInv, CallsInv
  <2>2. op \in D => /\ Outcome(calls[op], FALSE) \in Results \cup {None}
                   /\ (Outcome(calls[op], FALSE) # None =>
                         /\ Outcome(calls[op], FALSE).rev = calls[op].rev
                         /\ Revisions[calls[op].rev] = Empty)
    BY <2>1, OutcomeIs
  <2> QED BY <1>0, <2>2
<1>1. ASSUME NEW c \in Slots
      PROVE  /\ calls'[c] \in Calls \cup {None}
             /\ c \notin D => calls'[c] = calls[c]
             /\ c \in D /\ calls'[c] # None =>
                  /\ calls[c] # None /\ calls[c].pc \in Writes \cup {"lost"}
                  /\ calls'[c].pc = "lost" /\ calls'[c].method = calls[c].method
                  /\ calls'[c].rev = calls[c].rev /\ calls'[c].req = calls[c].req
                  /\ calls'[c].base = calls[c].base
  <2>1. calls'[c] = IF c \in D THEN Cut(calls[c]) ELSE calls[c]
    OBVIOUS
  <2>2. calls[c] \in Calls \cup {None}
    BY <1>0
  <2> HIDE DEF Cut
  <2> QED BY <2>1, <2>2, CutIs
<1>2. calls' \in [Slots -> Calls \cup {None}]
  <2>1. calls' = [c \in Slots |-> calls'[c]]
    OBVIOUS
  <2> QED BY <1>1, <2>1
<1>3. TypeOK'
  BY <1>0, <1>00, <1>2 DEF ServerInv, TypeOK
<1>4. ASSUME NEW c \in Slots PROVE CallOK(c)'
  <2>1. CASE c \notin D /\ calls[c] # None
    <3>1. calls'[c] = calls[c] /\ CallOK(c) /\ (op = c => op' = c) /\ (op # c => op' # c)
      BY <1>0, <1>1, <2>1
    <3> QED BY <1>0, <2>1, <3>1 DEF CallOK
  <2>2. CASE c \in D /\ calls'[c] # None
    <3>1. /\ calls[c] # None /\ calls[c].pc \in Writes \cup {"lost"}
          /\ calls'[c].pc = "lost" /\ calls'[c].method = calls[c].method
          /\ calls'[c].rev = calls[c].rev /\ calls'[c].req = calls[c].req
          /\ calls'[c].base = calls[c].base
      BY <1>1, <2>2
    <3>2. CallOK(c) /\ UNCHANGED <<want, version>>
      BY <1>0
    <3> QED BY <3>1, <3>2 DEF CallOK, ForOperator, Writes
  <2>3. CASE calls'[c] = None
    BY <2>3 DEF CallOK
  <2> QED BY <1>1, <2>1, <2>2, <2>3
<1>5. op' # None => op' = op /\ calls'[op] = calls[op] /\ (result = None => result' = None)
  BY <1>0, <1>00, <1>1
<1>6. CallsInv'
  BY <1>0, <1>4, <1>5 DEF ServerInv, CallsInv
<1>60. ResultInv'
  <2>1. CASE result' = result /\ op' = op
    BY <1>0, <2>1 DEF ServerInv, ResultInv
  <2>2. CASE /\ op \in D /\ op' = None /\ result'.rev = calls[op].rev
    <3>1. op \in Slots /\ calls[op] # None /\ op # None
      BY <1>0, <2>2 DEF ServerInv, CallsInv
    <3>2. done < calls[op].rev /\ CallOK(op)
      BY <1>0, <3>1, NotYetDone
    <3> QED BY <1>0, <2>2, <3>1, <3>2 DEF ResultInv, CallOK
  <2> QED BY <1>00, <2>1, <2>2 DEF ResultInv
<1>7. Settled' => Settled /\ Last' = Last
  <2>1. op # None \/ result # None => done < want
    BY <1>0 DEF ServerInv, CallsInv, ResultInv, Results
  <2>2. CASE result' = None
    BY <1>0, <2>1, <2>2 DEF Settled, Last
  <2>3. CASE result' # None
    <3>1. Empty \notin Specs
      BY ServerAssumption
    <3> QED BY <1>0, <1>00, <2>3, <3>1 DEF Settled, Last
  <2> QED BY <2>2, <2>3
<1>8. ASSUME NEW c \in Slots, Settled, At(c, {"lost"})'
      PROVE  At(c, {"lost"}) /\ calls'[c].base = calls[c].base
  <2>1. CASE c \notin D
    BY <1>1, <1>8, <2>1 DEF At
  <2>2. CASE c \in D
    <3>1. calls[c] # None /\ calls[c].pc \in Writes \cup {"lost"} /\ calls'[c].base = calls[c].base
      BY <1>1, <1>8, <2>2 DEF At
    <3>2. calls[c].pc \notin Writes
      <4>1. op # c
        BY <1>0, <1>8 DEF Settled
      <4> QED BY <3>1, <4>1, OfOperator DEF Writes
    <3> QED BY <3>1, <3>2 DEF At
  <2> QED BY <2>1, <2>2
<1>9. Routed'
  BY <1>0, <1>7, <1>8, StaysRouted
<1> QED BY <1>3, <1>6, <1>60, <1>9 DEF ServerInv

\* All calls of a server that dies are cut.
LEMMA DieStep ==
  ASSUME ServerInv, Die, spent' \in [{"faults", "ends", "webhooks"} -> Nat]
  PROVE  ServerInv'
<1> DEFINE D == {c \in Slots : At(c, Running)}
<1>0. op \in Slots \cup {None} /\ None \notin Slots
  BY ServerAssumption DEF ServerInv, TypeOK
<1>1. /\ op' = IF op \in D THEN None ELSE op
      /\ \/ op \in D /\ result' = Outcome(calls[op], FALSE)
         \/ op \notin D /\ result' = result
  BY <1>0 DEF Die
<1>2. calls' = [c \in Slots |-> IF c \in D THEN Cut(calls[c]) ELSE calls[c]]
  BY DEF Die
<1>3. UNCHANGED <<want, status, cluster>> /\ server' = "down"
  BY DEF Die
<1>4. D \in SUBSET Slots
  OBVIOUS
<1> HIDE DEF D
<1> QED BY <1>1, <1>2, <1>3, <1>4, CutStep

\* A handler goes on to p.
LEMMA GotoStep ==
  ASSUME ServerInv, NEW c \in Slots, At(c, {"sent", "decode", "get"}), NEW p \in Running,
         Goto(c, p), UNCHANGED <<want, status, server, cluster, spent>>,
         p # "decode" => ForOperator(calls[c]),
         p = "decode" => calls[c].pc = "sent",
         p \in {"get", "create", "update"} =>
           calls[c].method = "Sync" /\ Revisions[calls[c].rev] \in Specs,
         p = "delete" => calls[c].method = "Delete", p # "update"
  PROVE  ServerInv'
<1>0. calls[c] # None /\ calls[c] \in Calls /\ CallOK(c) /\ p \in {"sent", "lost"} \cup Running
  BY OfOperator DEF At
<1>1. /\ calls' \in [Slots -> Calls \cup {None}]
      /\ \A d \in Slots \ {c} : calls'[d] = calls[d]
      /\ calls'[c].pc = p /\ calls'[c].method = calls[c].method
      /\ calls'[c].rev = calls[c].rev /\ calls'[c].req = calls[c].req
      /\ calls'[c].base = calls[c].base
      /\ UNCHANGED <<op, result, want, done, listed, ingress, version, late>>
  BY <1>0, Moved DEF Goto, ServerInv, status, cluster
<1>2. TypeOK'
  BY <1>1 DEF ServerInv, TypeOK
<1>3. p # "lost" /\ p # "sent"
  BY DEF Running, Writes
<1>4. CallOK(c)'
  BY <1>0, <1>1, <1>3 DEF CallOK, ForOperator, At, Running, Writes
<1>5. calls'[c] # None
  <2>1. calls'[c] \in Calls
    <3>1. calls' = [calls EXCEPT ![c].pc = p] /\ calls \in [Slots -> Calls \cup {None}]
      BY DEF Goto, ServerInv, TypeOK
    <3> DEFINE new == [calls[c] EXCEPT !.pc = p]
    <3>2. new \in Calls
      BY <1>0 DEF Calls
    <3>3. calls' = [calls EXCEPT ![c] = new]
      BY <3>1
    <3> HIDE DEF new
    <3> QED BY <3>1, <3>2, <3>3
  <2> QED BY <2>1, NoneAssumption
<1>6. CallsInv'
  <2>1. \A d \in Slots \ {c} : CallOK(d)'
    BY <1>1 DEF ServerInv, CallsInv, CallOK
  <2>2. op # None => /\ done < want /\ done < calls'[op].rev /\ result = None
                     /\ calls'[op] # None /\ ForOperator(calls'[op]) /\ calls'[op].pc # "lost"
    <3>1. op # None => /\ op \in Slots /\ done < want /\ done < calls[op].rev /\ result = None
                       /\ calls[op] # None /\ ForOperator(calls[op]) /\ calls[op].pc # "lost"
      BY DEF ServerInv, TypeOK, CallsInv
    <3> QED BY <1>1, <1>3, <1>5, <3>1 DEF ForOperator
  <2> QED BY <1>1, <1>4, <2>1, <2>2 DEF CallsInv
<1>7. Routed'
  BY <1>1, <1>3, StaysRouted DEF At, Settled, Last
<1>8. ResultInv'
  BY <1>1 DEF ServerInv, ResultInv
<1> QED BY <1>2, <1>6, <1>7, <1>8 DEF ServerInv

LEMMA Spending ==
  ASSUME ServerInv, NEW what \in {"faults", "ends", "webhooks"}, NEW limit, Spend(what, limit)
  PROVE  spent' \in [{"faults", "ends", "webhooks"} -> Nat] /\ spent' # spent
<1>1. spent \in [{"faults", "ends", "webhooks"} -> Nat]
  BY DEF ServerInv, TypeOK
<1>2. spent' = [spent EXCEPT ![what] = @ + 1]
  BY DEF Spend
<1>3. spent'[what] = spent[what] + 1 /\ spent[what] \in Nat
  BY <1>1, <1>2
<1> QED BY <1>1, <1>2, <1>3

\* What Decode makes of the spec of the operator's call.
LEMMA Decoded ==
  ASSUME NEW s \in Specs \cup {Bad, Empty}, NEW empty \in {Nil, Zero}
  PROVE  /\ Decode(s, empty) = Fails <=> s = Bad
         /\ GetSpec(SyncRequest(s)) = s
<1>1. SyncRequest(s) # None
  <2>1. SyncRequest(s) \in SyncRequests
    BY DEF SyncRequest, SyncRequests, Owner
  <2> QED BY <2>1, NoneAssumption
<1>2. Bad # Empty /\ Bad \notin Specs /\ Empty \notin Specs /\ Fails \notin Specs
  BY ServerAssumption
<1>3. Decode(s, empty) = Fails <=> s = Bad
  BY <1>2 DEF Decode, Nil, Zero, Fails
<1> QED BY <1>1, <1>3 DEF GetSpec, SyncRequest

LEMMA DecodeStep ==
  ASSUME ServerInv, NEW c \in Slots, DecodeObject(c)
  PROVE  /\ ServerInv'
         /\ op = c /\ op' = None /\ result' # Outcome(calls[c], TRUE) => SpecAt(calls[c].rev) = Bad
<1> DEFINE rev == calls[c].rev
<1>1. /\ calls[c] # None /\ calls[c].pc = "decode" /\ ForOperator(calls[c])
      /\ UNCHANGED <<want, status, server, cluster, spent>> /\ At(c, {"sent", "decode", "get"})
  BY DEF DecodeObject, At, ForOperator
<1>2. /\ calls[c].req = SyncRequest(SpecAt(rev)) /\ rev \in DOMAIN Revisions
      /\ calls[c].method = "Delete" <=> Revisions[rev] \in {Empty, Gone}
  BY <1>1, OfOperator DEF CallOK
<1>3. /\ Revisions[rev] \in Specs \cup {Bad, Empty, Gone} /\ SpecAt(rev) \in Specs \cup {Bad, Empty}
      /\ Revisions[rev] # Gone => SpecAt(rev) = Revisions[rev]
  BY <1>2, Revised, SpecAtIs
<1>4. GetSpec(calls[c].req) = SpecAt(rev)
  BY <1>2, <1>3, Decoded
<1>5. CASE SpecAt(rev) = Bad
  <2>1. Answer(c, FALSE)
    BY <1>3, <1>4, <1>5, Decoded DEF DecodeObject
  <2>2. spent' \in [{"faults", "ends", "webhooks"} -> Nat]
    BY <1>1 DEF ServerInv, TypeOK
  <2>3. ServerInv'
    BY <1>1, <2>1, <2>2, AnswerStep
  <2> QED BY <1>5, <2>3
<1>6. CASE SpecAt(rev) # Bad
  <2>1. Goto(c, IF calls[c].method = "Sync" THEN "get" ELSE "delete")
    BY <1>3, <1>4, <1>6, Decoded DEF DecodeObject
  <2>2. CASE calls[c].method = "Sync"
    <3>1. Revisions[rev] \in Specs /\ Goto(c, "get")
      BY <1>2, <1>3, <1>6, <2>1, <2>2
    <3>2. ServerInv'
      BY <1>1, <2>2, <3>1, GotoStep DEF Running
    <3> QED BY <1>1, <3>1, <3>2, OfOperator DEF Goto
  <2>3. CASE calls[c].method = "Delete"
    <3>1. Goto(c, "delete")
      BY <2>1, <2>3
    <3>2. ServerInv'
      BY <1>1, <2>3, <3>1, GotoStep DEF Running, Writes
    <3> QED BY <1>1, <3>1, <3>2, OfOperator DEF Goto
  <2> QED BY <1>1, <2>2, <2>3 DEF ForOperator
<1> QED BY <1>5, <1>6

LEMMA AcceptStep ==
  ASSUME ServerInv, NEW c \in Slots, Accept(c)
  PROVE  ServerInv'
<1>1. /\ calls[c] # None /\ calls[c].pc = "sent" /\ UNCHANGED <<want, status, server, cluster, spent>>
      /\ At(c, {"sent", "decode", "get"})
  BY DEF Accept, At
<1>2. CASE server = "serving"
  <2>1. Goto(c, "decode")
    BY <1>2 DEF Accept, Goto
  <2> QED BY <1>1, <2>1, GotoStep DEF Running
<1>3. CASE server # "serving"
  <2>1. Answer(c, FALSE)
    BY <1>3 DEF Accept
  <2>2. spent' \in [{"faults", "ends", "webhooks"} -> Nat]
    BY <1>1 DEF ServerInv, TypeOK
  <2> QED BY <1>1, <2>1, <2>2, AnswerStep
<1> QED BY <1>2, <1>3

LEMMA WebhookHandlers ==
  ASSUME ServerInv, NEW c \in Slots, Default(c) \/ Validate(c)
  PROVE  ServerInv'
<1>1. /\ calls[c] # None /\ ~ForOperator(calls[c]) /\ spent' = spent
      /\ spent' \in [{"faults", "ends", "webhooks"} -> Nat]
  BY DEF Default, Validate, At, ForOperator, ServerInv, TypeOK
<1>2. op # c
  BY <1>1, OfOperator
<1>3. Die \/ \E ok \in BOOLEAN : Answer(c, ok) /\ UNCHANGED <<want, status, server, cluster>>
  <2>1. CASE Default(c)
    <3> DEFINE ok == ~HasWebhooks \/ Decode(GetSpec(calls[c].req), Nil) # Fails
    <3>1. Answer(c, ok) /\ UNCHANGED <<want, status, server, cluster>>
      BY <2>1 DEF Default
    <3>2. ok \in BOOLEAN
      OBVIOUS
    <3> QED BY <3>1, <3>2
  <2>2. CASE Validate(c)
    <3> DEFINE objects == {Decode(GetSpec(calls[c].req.sync), Zero),
                           Decode(GetSpec(calls[c].req.old), Zero)}
               ok == ~HasWebhooks \/ Fails \notin objects
    <3>1. Die \/ (Answer(c, ok) /\ UNCHANGED <<want, status, server, cluster>>)
      BY <2>2 DEF Validate
    <3>2. ok \in BOOLEAN
      OBVIOUS
    <3> QED BY <3>1, <3>2
  <2> QED BY <2>1, <2>2
<1>4. CASE Die
  BY <1>1, <1>4, DieStep
<1>5. ASSUME NEW ok \in BOOLEAN, Answer(c, ok), UNCHANGED <<want, status, server, cluster>> PROVE ServerInv'
  BY <1>1, <1>2, <1>5, AnswerStep
<1> QED BY <1>3, <1>4, <1>5

LEMMA GetStep ==
  ASSUME ServerInv, NEW c \in Slots, Get(c)
  PROVE  ServerInv'
<1>1. /\ calls[c] # None /\ calls[c].pc = "get" /\ UNCHANGED <<want, status, server, cluster>>
      /\ At(c, {"sent", "decode", "get"})
  BY DEF Get, At
<1>2. /\ calls[c] \in Calls /\ CallOK(c) /\ calls[c].method = "Sync" /\ op = c
      /\ Revisions[calls[c].rev] \in Specs /\ done < want /\ done < calls[c].rev
      /\ result = None
  BY <1>1, OfOperator, NotYetDone DEF CallOK
<1>3. spent \in [{"faults", "ends", "webhooks"} -> Nat]
  BY DEF ServerInv, TypeOK
<1>4. CASE Spend("faults", MaxFaults) /\ Answer(c, FALSE)
  BY <1>1, <1>4, Spending, AnswerStep
<1>5. CASE ingress = None /\ Goto(c, "create") /\ UNCHANGED spent
  BY <1>1, <1>2, <1>5, GotoStep DEF Running, Writes, ForOperator
<1>6. CASE /\ ingress # None /\ UNCHANGED <<op, result, spent>>
           /\ calls' = [calls EXCEPT ![c].pc = "update", ![c].base = ingress.version]
  <2> DEFINE new == [calls[c] EXCEPT !.pc = "update", !.base = ingress.version]
  <2>1. calls' = [calls EXCEPT ![c] = new] /\ calls \in [Slots -> Calls \cup {None}]
    BY <1>6 DEF ServerInv, TypeOK
  <2>2. ingress.version \in Nat /\ ingress.version <= version
    BY <1>6 DEF ServerInv, TypeOK, Ingresses
  <2>3. /\ new \in Calls /\ new.pc = "update" /\ new.base = ingress.version
        /\ new.method = calls[c].method /\ new.rev = calls[c].rev /\ new.req = calls[c].req
    BY <1>2, <2>2 DEF Calls, Running, Writes
  <2> HIDE DEF new
  <2>4. /\ calls' \in [Slots -> Calls \cup {None}] /\ calls'[c] = new
        /\ \A d \in Slots \ {c} : calls'[d] = calls[d]
    BY <2>1, <2>3
  <2>5. new # None
    BY <2>3, NoneAssumption
  <2>6. TypeOK'
    BY <1>1, <1>6, <2>4 DEF ServerInv, TypeOK, cluster, status
  <2>60. ResultInv'
    BY <1>1, <1>6 DEF ServerInv, ResultInv, status
  <2>7. \A d \in Slots : CallOK(d)'
    <3>1. \A d \in Slots \ {c} : CallOK(d)'
      BY <1>1, <1>6, <2>4 DEF ServerInv, CallsInv, CallOK, cluster
    <3>2. CallOK(c)'
      BY <1>1, <1>2, <1>6, <2>2, <2>3, <2>4 DEF CallOK, ForOperator, cluster
    <3> QED BY <3>1, <3>2
  <2>8. CallsInv'
    BY <1>1, <1>2, <1>6, <2>3, <2>4, <2>5, <2>7 DEF CallsInv, ForOperator, status
  <2>9. Routed'
    BY <1>1, <1>6, <2>3, <2>4, StaysRouted DEF At, Settled, Last, cluster, status
  <2> QED BY <2>6, <2>60, <2>8, <2>9 DEF ServerInv
<1> QED BY <1>4, <1>5, <1>6 DEF Get

\* A write that takes effect.
LEMMA Effective ==
  ASSUME ServerInv, NEW c \in Slots, NEW pc \in Writes, calls[c] # None, Effect(calls[c], pc),
         pc # "delete" => calls[c].req = SyncRequest(Revisions[calls[c].rev])
                          /\ Revisions[calls[c].rev] \in Specs
  PROVE  /\ version' \in Nat /\ version <= version'
         /\ ingress' \in Ingresses \cup {None} /\ (ingress' # None => ingress'.version <= version')
         /\ pc # "delete" => /\ ingress' # None /\ ingress'.rules = Revisions[calls[c].rev]
                             /\ ingress'.version = version + 1
         /\ pc = "delete" /\ calls[c].pc = "lost" => late'
         /\ late => late'
<1>1. version \in Nat /\ ingress \in Ingresses \cup {None}
  BY DEF ServerInv, TypeOK
<1>2. late' = (late \/ (pc = "delete" /\ calls[c].pc = "lost"))
  BY DEF Effect
<1>3. pc = "delete" => ingress' = None /\ version' = version
  BY DEF Effect
<1>4. ASSUME pc # "delete"
      PROVE  /\ version' = version + 1 /\ ingress' \in Ingresses /\ ingress' # None
             /\ ingress'.rules = Revisions[calls[c].rev] /\ ingress'.version = version + 1
  <2>1. GetSpec(calls[c].req) = Revisions[calls[c].rev]
    BY <1>4, Decoded, ServerAssumption
  <2>2. /\ ingress' = [rules |-> Revisions[calls[c].rev], version |-> version + 1]
        /\ version' = version + 1
    BY <1>4, <2>1 DEF Effect, Store
  <2>3. ingress' \in Ingresses
    BY <1>1, <1>4, <2>2 DEF Ingresses
  <2>4. ingress' # None
    BY <2>3, NoneAssumption
  <2> QED BY <2>2, <2>3, <2>4
<1>5. /\ pc = "delete" /\ calls[c].pc = "lost" => late'
      /\ late => late'
  BY <1>2
<1> QED BY <1>1, <1>3, <1>4, <1>5

LEMMA WriteStep ==
  ASSUME ServerInv, NEW c \in Slots, NEW pc \in Writes, Write(c, pc)
  PROVE  ServerInv'
<1>1. /\ calls[c] # None /\ calls[c].pc = pc /\ UNCHANGED <<want, status, server>> /\ pc # "lost"
  BY DEF Write, At, Writes
<1>2. /\ op = c /\ CallOK(c) /\ done < want /\ calls[c] \in Calls
      /\ calls[c].rev \in DOMAIN Revisions /\ calls[c].req = SyncRequest(SpecAt(calls[c].rev))
      /\ calls[c].method = "Delete" <=> Revisions[calls[c].rev] \in {Empty, Gone}
      /\ pc = "delete" => calls[c].method = "Delete"
      /\ pc # "delete" => Revisions[calls[c].rev] \in Specs
  BY <1>1, OfOperator DEF CallOK, Writes
<1>3. /\ spent \in [{"faults", "ends", "webhooks"} -> Nat] /\ version \in Nat /\ done \in Nat
      /\ want \in Nat /\ {Empty, Gone} \cap Specs = {} /\ UNCHANGED <<done, listed>>
      /\ ingress \in Ingresses \cup {None} /\ (ingress # None => ingress.version <= version)
  BY <1>1, Revised, ServerAssumption DEF ServerInv, TypeOK, status
<1>30. pc # "delete" => calls[c].req = SyncRequest(Revisions[calls[c].rev])
  BY <1>2, <1>3, SpecAtIs
\* Whatever becomes of the write, the call ends.
<1>4. ASSUME NEW ok \in BOOLEAN, Answer(c, ok), UNCHANGED cluster \/ Effect(calls[c], pc),
             spent' \in [{"faults", "ends", "webhooks"} -> Nat]
      PROVE  /\ TypeOK' /\ CallsInv' /\ ResultInv' /\ result' = Outcome(calls[c], ok)
             /\ \A d \in Slots \ {c} : calls'[d] = calls[d]
             /\ calls'[c] = None
  <2>1. /\ version' \in Nat /\ version <= version'
        /\ ingress' \in Ingresses \cup {None} /\ (ingress' # None => ingress'.version <= version')
    BY <1>1, <1>2, <1>3, <1>30, <1>4, Effective DEF cluster
  <2>2. /\ calls' \in [Slots -> Calls \cup {None}] /\ op' \in Slots \cup {None}
        /\ result' \in Results \cup {None} /\ CallsInv' /\ ResultInv'
        /\ calls'[c] = None /\ \A d \in Slots \ {c} : calls'[d] = calls[d]
        /\ result' = Outcome(calls[c], ok)
    BY <1>1, <1>2, <1>4, <2>1, Ends
  <2>3. TypeOK'
    BY <1>1, <1>3, <1>4, <2>1, <2>2 DEF ServerInv, TypeOK
  <2> QED BY <2>2, <2>3
\* An answer that is no Sync's.
<1>40. ASSUME result' = None \/ (result' # None /\ Revisions[result'.rev] \notin Specs)
       PROVE  Routed'
  BY <1>1, <1>2, <1>3, <1>40 DEF Routed, Settled, Last
<1>5. CASE Spend("faults", MaxFaults) /\ Answer(c, FALSE)
  <2>1. UNCHANGED cluster \/ Effect(calls[c], pc)
    BY <1>5 DEF Write, Spend
  <2>2. TypeOK' /\ CallsInv' /\ ResultInv' /\ result' = Outcome(calls[c], FALSE)
    BY <1>4, <1>5, <2>1, Spending
  <2>3. result' # None => Revisions[result'.rev] \notin Specs
    BY <1>2, <1>3, <2>2, OutcomeIs
  <2> QED BY <1>40, <2>2, <2>3 DEF ServerInv
<1>6. CASE ~Accepted(calls[c], pc) /\ Answer(c, pc = "delete") /\ UNCHANGED <<cluster, spent>>
  <2>1. /\ TypeOK' /\ CallsInv' /\ ResultInv' /\ result' = Outcome(calls[c], pc = "delete")
    BY <1>3, <1>4, <1>6
  <2>2. result' # None => Revisions[result'.rev] \notin Specs
    BY <1>2, <1>3, <2>1, OutcomeIs
  <2> QED BY <1>40, <2>1, <2>2 DEF ServerInv
<1>7. CASE Effect(calls[c], pc) /\ Answer(c, TRUE) /\ UNCHANGED spent
  <2>1. /\ TypeOK' /\ CallsInv' /\ ResultInv' /\ result' = Outcome(calls[c], TRUE)
        /\ \A d \in Slots \ {c} : calls'[d] = calls[d]
        /\ calls'[c] = None
    BY <1>3, <1>4, <1>7
  <2>2. result' # None /\ Last' = calls[c].rev
    BY <1>2, <2>1, OutcomeIs DEF Last
  <2>20. Settled' => pc # "delete"
    BY <1>2, <1>3, <2>2 DEF Settled
  <2>3. pc # "delete" => /\ ingress' # None /\ ingress'.rules = Revisions[calls[c].rev]
                         /\ ingress'.version = version + 1
    BY <1>1, <1>2, <1>30, <1>7, Effective
  <2>4. \A d \in Slots : At(d, {"lost"})' => calls'[d].base < version + 1
    <3> SUFFICES ASSUME NEW d \in Slots, At(d, {"lost"})'
                 PROVE  calls'[d].base < version + 1
      OBVIOUS
    <3>1. calls'[d] = calls[d] /\ calls[d] # None
      BY <2>1 DEF At
    <3>2. calls[d].base \in Nat /\ calls[d].base <= version
      BY <3>1, OfOperator
    <3> QED BY <1>3, <3>1, <3>2
  <2>5. Routed'
    BY <2>2, <2>20, <2>3, <2>4 DEF Routed
  <2> QED BY <2>1, <2>5 DEF ServerInv
<1> QED BY <1>5, <1>6, <1>7 DEF Write

LEMMA ArriveStep ==
  ASSUME ServerInv, NEW c \in Slots, Arrive(c)
  PROVE  ServerInv'
<1> DEFINE pc == IF calls[c].method = "Delete" THEN "delete"
                 ELSE IF calls[c].base = 0 THEN "create" ELSE "update"
<1>1. /\ calls[c] # None /\ calls[c].pc = "lost"
      /\ UNCHANGED <<want, done, listed, op, result, server, spent>>
      /\ calls' = [calls EXCEPT ![c] = None] /\ pc \in Writes
      /\ (Accepted(calls[c], pc) /\ Effect(calls[c], pc)) \/ UNCHANGED cluster
  BY DEF Arrive, At, Writes, status
<1>2. /\ CallOK(c) /\ calls[c] \in Calls /\ op # c
      /\ calls[c].method # "Delete" =>
           /\ calls[c].req = SyncRequest(Revisions[calls[c].rev])
           /\ Revisions[calls[c].rev] \in Specs
  <2>1. CallOK(c) /\ calls[c] \in Calls /\ op # c
    BY <1>1, OfOperator
  <2>2. ForOperator(calls[c])
    BY <1>1, <2>1 DEF CallOK
  <2>3. calls[c].method # "Delete" =>
          /\ calls[c].rev \in DOMAIN Revisions /\ Revisions[calls[c].rev] \in Specs
          /\ calls[c].req = SyncRequest(SpecAt(calls[c].rev))
    BY <1>1, <2>1, <2>2 DEF CallOK, ForOperator
  <2> QED BY <2>1, <2>3, SpecAtIs, ServerAssumption
<1>3. /\ version \in Nat /\ calls \in [Slots -> Calls \cup {None}]
      /\ ingress \in Ingresses \cup {None} /\ (ingress # None => ingress.version <= version)
  BY DEF ServerInv, TypeOK
<1>4. pc = "delete" <=> calls[c].method = "Delete"
  OBVIOUS
<1>5. pc # "delete" /\ Accepted(calls[c], pc) =>
        ingress = None \/ (ingress # None /\ ingress.version = calls[c].base)
  BY <1>1 DEF Accepted, Writes
<1> HIDE DEF pc
<1>6. /\ version' \in Nat /\ version <= version'
      /\ ingress' \in Ingresses \cup {None} /\ (ingress' # None => ingress'.version <= version')
  BY <1>1, <1>2, <1>3, <1>4, Effective DEF cluster
<1>7. /\ calls'[c] = None /\ \A d \in Slots \ {c} : calls'[d] = calls[d]
      /\ calls' \in [Slots -> Calls \cup {None}]
  BY <1>1, <1>3
<1>8. TypeOK'
  BY <1>1, <1>6, <1>7 DEF ServerInv, TypeOK
<1>9. CallsInv'
  <2>1. ASSUME NEW d \in Slots PROVE CallOK(d)'
    <3>1. CASE calls'[d] = None
      BY <3>1 DEF CallOK
    <3>2. CASE calls'[d] # None
      <4>1. calls'[d] = calls[d] /\ calls[d] # None
        BY <1>7, <3>2
      <4>2. CallOK(d) /\ calls[d].base \in Nat /\ calls[d].base <= version'
        BY <1>3, <1>6, <4>1, OfOperator
      <4> QED BY <1>1, <4>1, <4>2 DEF CallOK
    <3> QED BY <3>1, <3>2
  <2>2. op # None => /\ done < want /\ done < calls'[op].rev /\ result = None
                     /\ calls'[op] # None /\ ForOperator(calls'[op]) /\ calls'[op].pc # "lost"
    BY <1>2, <1>7 DEF ServerInv, CallsInv, TypeOK
  <2> QED BY <1>1, <2>1, <2>2 DEF CallsInv
<1>10. Routed'
  <2>1. CASE UNCHANGED cluster
    <3>1. Settled' => Settled /\ Last' = Last
      BY <1>1, <2>1 DEF Settled, Last, cluster
    <3> QED BY <1>1, <1>7, <2>1, <3>1, StaysRouted DEF At, cluster
  <2>2. CASE Accepted(calls[c], pc) /\ Effect(calls[c], pc)
    <3>1. (pc = "delete" => late') /\ (late => late')
      BY <1>1, <1>2, <1>4, <2>2, Effective
    <3>2. Settled' => Settled /\ pc # "delete"
      BY <1>1, <3>1 DEF Settled, Last
    <3>3. Settled => ingress # None /\ calls[c].base < ingress.version
      BY <1>1 DEF ServerInv, Routed, At
    <3>4. ingress # None => ingress.version \in Nat /\ calls[c].base \in Nat
      BY <1>2, <1>3 DEF Ingresses, Calls
    <3>5. ~Settled'
      BY <1>5, <2>2, <3>2, <3>3, <3>4
    <3> QED BY <3>5 DEF Routed
  <2> QED BY <1>1, <2>1, <2>2
<1>11. ResultInv'
  BY <1>1 DEF ServerInv, ResultInv
<1> QED BY <1>8, <1>9, <1>10, <1>11 DEF ServerInv

\* A new call in a slot that is free.
LEMMA NewCall ==
  ASSUME ServerInv, NEW c \in Slots, calls[c] = None, NEW call \in Calls,
         calls' = [calls EXCEPT ![c] = call], UNCHANGED <<want, status, result, server, cluster>>,
         spent' \in [{"faults", "ends", "webhooks"} -> Nat],
         call.pc = "sent", call.base = 0, call.rev = want,
         \/ /\ op = None /\ result = None /\ op' = c /\ done < want /\ ForOperator(call)
            /\ call.req = SyncRequest(SpecAt(want))
            /\ call.method = "Delete" <=> Revisions[want] \in {Empty, Gone}
         \/ op' = op /\ ~ForOperator(call)
  PROVE  ServerInv'
<1>0. /\ calls \in [Slots -> Calls \cup {None}] /\ want \in DOMAIN Revisions /\ version \in Nat
      /\ want \in Nat /\ done \in Nat /\ None \notin Slots /\ call # None
      /\ op \in Slots \cup {None} /\ UNCHANGED <<done, listed>>
  BY Revised, ServerAssumption, NoneAssumption DEF ServerInv, TypeOK, status
<1>1. /\ calls'[c] = call /\ \A d \in Slots \ {c} : calls'[d] = calls[d]
      /\ calls' \in [Slots -> Calls \cup {None}]
  BY <1>0
<1>2. TypeOK'
  BY <1>0, <1>1 DEF ServerInv, TypeOK, cluster
<1>3. op # None => op \in Slots \ {c} /\ op' = op
  BY <1>0 DEF ServerInv, CallsInv
<1>4. CallOK(c)'
  BY <1>0, <1>1, <1>3 DEF CallOK, ForOperator, cluster
<1>5. ASSUME NEW d \in Slots \ {c} PROVE CallOK(d)'
  <2>1. CallOK(d) /\ calls'[d] = calls[d]
    BY <1>1 DEF ServerInv, CallsInv
  <2>2. op = d => op' = d
    BY <1>0, <1>3
  <2>3. op' = d => op = d
    BY <1>3
  <2> QED BY <2>1, <2>2, <2>3 DEF CallOK, cluster
<1>6. op' # None => /\ done < want /\ done < calls'[op'].rev /\ result = None
                    /\ calls'[op'] # None /\ ForOperator(calls'[op']) /\ calls'[op'].pc # "lost"
  <2>1. op # None => /\ done < want /\ done < calls[op].rev /\ result = None
                     /\ calls[op] # None /\ ForOperator(calls[op]) /\ calls[op].pc # "lost"
    BY DEF ServerInv, CallsInv
  <2> QED BY <1>0, <1>1, <1>3, <2>1
<1>7. CallsInv'
  BY <1>0, <1>4, <1>5, <1>6 DEF CallsInv
<1>8. Settled' => Settled /\ Last' = Last
  BY <1>0 DEF Settled, Last, cluster
<1>9. Routed'
  BY <1>1, <1>8, StaysRouted DEF At, cluster
<1>10. ResultInv'
  BY <1>0 DEF ServerInv, ResultInv
<1> QED BY <1>2, <1>7, <1>9, <1>10 DEF ServerInv

LEMMA OperatorStep ==
  ASSUME ServerInv, Reconcile
  PROVE  ServerInv'
<1>1. /\ op = None /\ result = None /\ done # want
      /\ UNCHANGED <<want, done, listed, status, server, cluster, spent>>
      /\ want \in DOMAIN Revisions /\ want \in Nat /\ done \in Nat /\ done < want
      /\ spent \in [{"faults", "ends", "webhooks"} -> Nat]
  BY Revised DEF Reconcile, ServerInv, TypeOK, status
<1>2. CASE NothingToDelete(want) /\ result' = [rev |-> want, listed |-> FALSE] /\ UNCHANGED <<op, calls>>
  <2>1. result' \in Results /\ result' # None /\ result'.rev = want
    <3>1. FALSE \in BOOLEAN
      OBVIOUS
    <3>2. result' = [rev |-> want, listed |-> FALSE] /\ want \in Nat
      BY <1>1, <1>2
    <3>3. result' \in Results /\ result'.rev = want
      BY <3>1, <3>2 DEF Results
    <3> QED BY <3>3, NoneAssumption
  <2>2. Revisions[want] \notin Specs
    BY <1>2, ServerAssumption DEF NothingToDelete
  <2>3. TypeOK'
    BY <1>1, <1>2, <2>1 DEF ServerInv, TypeOK, cluster
  <2>4. CallsInv'
    BY <1>1, <1>2 DEF ServerInv, CallsInv, CallOK, cluster
  <2>5. ResultInv'
    BY <1>1, <1>2, <2>1 DEF ResultInv
  <2>6. Routed'
    BY <1>1, <2>1, <2>2 DEF Routed, Settled, Last
  <2> QED BY <2>3, <2>4, <2>5, <2>6 DEF ServerInv
<1>3. ASSUME NEW c \in Slots \ Waiting, op' = c, UNCHANGED result,
             calls' = [calls EXCEPT ![c] =
               Call(IF Revisions[want] \in {Empty, Gone} THEN "Delete" ELSE "Sync", want,
                    SyncRequest(SpecAt(want)))]
      PROVE  ServerInv'
  <2> DEFINE call == Call(IF Revisions[want] \in {Empty, Gone} THEN "Delete" ELSE "Sync", want,
                          SyncRequest(SpecAt(want)))
  <2>1. SyncRequest(SpecAt(want)) \in SyncRequests
    BY <1>1, SpecAtIs DEF SyncRequest, SyncRequests
  <2>2. /\ call \in Calls /\ call.pc = "sent" /\ call.base = 0 /\ call.rev = want
        /\ call.req = SyncRequest(SpecAt(want)) /\ ForOperator(call)
        /\ call.method = "Delete" <=> Revisions[want] \in {Empty, Gone}
    BY <1>1, <2>1 DEF Call, Calls, ForOperator
  <2>3. calls[c] = None /\ c \in Slots
    BY DEF Waiting
  <2>4. calls' = [calls EXCEPT ![c] = call]
    BY <1>3
  <2> HIDE DEF call
  <2> QED BY <1>1, <1>3, <2>2, <2>3, <2>4, NewCall
<1> QED BY <1>1, <1>2, <1>3 DEF Reconcile

LEMMA RecordStep ==
  ASSUME ServerInv, Record
  PROVE  ServerInv'
<1>1. /\ result # None /\ result' = None /\ result \in Results /\ op = None
      /\ UNCHANGED <<want, op, calls, server, cluster, ingress, version, late>>
      /\ want \in Nat /\ done \in Nat /\ done < result.rev /\ result.rev <= want
      /\ result.rev \in Nat /\ result.listed \in BOOLEAN
  BY Revised DEF Record, ServerInv, TypeOK, ResultInv, Results, cluster
<1>2. spent' \in [{"faults", "ends", "webhooks"} -> Nat]
  BY Spending DEF Record, ServerInv, TypeOK
<1>3. \/ result.rev = want /\ done' = want /\ listed' = result.listed
      \/ done' = done /\ listed' = listed
  BY DEF Record, status
<1>4. TypeOK'
  BY <1>1, <1>2, <1>3 DEF ServerInv, TypeOK
<1>5. CallsInv'
  BY <1>1 DEF ServerInv, CallsInv, CallOK
<1>6. ResultInv'
  BY <1>1 DEF ResultInv
<1>7. Settled' => Settled /\ Last' = Last
  BY <1>1, <1>3 DEF Settled, Last
<1>8. Routed'
  BY <1>1, <1>7, StaysRouted DEF At
<1> QED BY <1>4, <1>5, <1>6, <1>8 DEF ServerInv

LEMMA WebhookStep ==
  ASSUME ServerInv, Webhook
  PROVE  ServerInv'
<1>0. /\ UNCHANGED <<want, status, op, result, server, cluster>> /\ want \in Nat
      /\ spent' \in [{"faults", "ends", "webhooks"} -> Nat]
  BY Spending, Revised DEF Webhook, ServerInv, TypeOK
<1>1. PICK c \in Slots \ Waiting :
        \/ \E req \in ValidationRequests :
             calls' = [calls EXCEPT ![c] = Call("Validate", want, req)]
        \/ \E s \in Shown :
             calls' = [calls EXCEPT ![c] = Call("Default", want, SyncRequest(s))]
  BY DEF Webhook
<1>2. \E method \in {"Validate", "Default"}, req \in SyncRequests \cup ValidationRequests :
        calls' = [calls EXCEPT ![c] = Call(method, want, req)]
  <2>1. \A s \in Shown : SyncRequest(s) \in SyncRequests
    BY ServerAssumption DEF SyncRequest, SyncRequests
  <2> QED BY <1>1, <2>1
<1>3. PICK method \in {"Validate", "Default"}, req \in SyncRequests \cup ValidationRequests :
        calls' = [calls EXCEPT ![c] = Call(method, want, req)]
  BY <1>2
<1> DEFINE call == Call(method, want, req)
<1>4. /\ call \in Calls /\ call.pc = "sent" /\ call.base = 0 /\ call.rev = want
      /\ ~ForOperator(call)
  BY <1>0 DEF Call, Calls, ForOperator
<1>5. calls[c] = None /\ c \in Slots
  BY DEF Waiting
<1>6. calls' = [calls EXCEPT ![c] = call]
  BY <1>3
<1> HIDE DEF call
<1> QED BY <1>0, <1>4, <1>5, <1>6, NewCall

LEMMA EditStep ==
  ASSUME ServerInv, Edit
  PROVE  ServerInv'
<1>0. /\ want' = want + 1 /\ want' \in DOMAIN Revisions /\ want \in Nat /\ done \in Nat
      /\ done <= want /\ UNCHANGED <<done, listed, op, result, calls, server, cluster, spent>>
  BY Revised DEF Edit, ServerInv, TypeOK, status
<1>1. TypeOK'
  BY <1>0 DEF ServerInv, TypeOK, cluster
<1>2. \A c \in Slots : CallOK(c)'
  <2> SUFFICES ASSUME NEW c \in Slots PROVE CallOK(c)'
    OBVIOUS
  <2>1. CallOK(c) /\ (calls[c] # None => calls[c].rev \in Nat)
    BY OfOperator DEF ServerInv, CallsInv
  <2> QED BY <1>0, <2>1 DEF CallOK, cluster
<1>3. CallsInv'
  BY <1>0, <1>2 DEF ServerInv, CallsInv
<1>4. ResultInv'
  <2>1. result # None => result.rev \in Nat
    BY Revised DEF ServerInv, ResultInv
  <2> QED BY <1>0, <2>1 DEF ServerInv, ResultInv
<1>5. Settled' => Settled /\ Last' = Last
  BY <1>0 DEF Settled, Last, cluster
<1>6. Routed'
  BY <1>0, <1>5, StaysRouted DEF At, cluster
<1> QED BY <1>1, <1>3, <1>4, <1>6 DEF ServerInv

LEMMA ServerStep ==
  ASSUME ServerInv, [Next]_vars
  PROVE  ServerInv'
<1>0. spent \in [{"faults", "ends", "webhooks"} -> Nat]
  BY DEF ServerInv, TypeOK
\* A step of the server's that no call notices.
<1>1. ASSUME UNCHANGED <<want, status, op, result, calls, cluster>>,
             server' \in {"down", "serving", "draining"},
             spent' \in [{"faults", "ends", "webhooks"} -> Nat]
      PROVE  ServerInv'
  <2>1. UNCHANGED <<want, done, listed, op, result, calls, ingress, version, late>>
    BY <1>1 DEF status, cluster
  <2>2. TypeOK'
    BY <1>1, <2>1 DEF ServerInv, TypeOK
  <2>3. CallsInv' /\ ResultInv'
    BY <2>1 DEF ServerInv, CallsInv, CallOK, ResultInv
  <2>4. Routed'
    BY <2>1 DEF ServerInv, Routed, Settled, Last, At
  <2> QED BY <2>2, <2>3, <2>4 DEF ServerInv
<1>2. CASE Boot \/ Drained
  BY <1>0, <1>1, <1>2 DEF Boot, Drained
<1>3. CASE Stop
  <2>1. spent' \in [{"faults", "ends", "webhooks"} -> Nat]
    BY <1>3, Spending DEF Stop
  <2> QED BY <1>1, <1>3, <2>1 DEF Stop
<1>4. CASE ServerDies
  <2>1. spent' \in [{"faults", "ends", "webhooks"} -> Nat]
    BY <1>4, Spending DEF ServerDies
  <2> QED BY <1>4, <2>1, DieStep DEF ServerDies
<1>5. CASE OperatorDies
  <2>1. spent' \in [{"faults", "ends", "webhooks"} -> Nat]
    BY <1>5, Spending DEF OperatorDies
  <2>2. /\ op' = IF op \in Slots THEN None ELSE op
        /\ calls' = [c \in Slots |-> IF c \in Slots THEN Cut(calls[c]) ELSE calls[c]]
        /\ result' = None
        /\ UNCHANGED <<want, status, server, cluster>> /\ server \in {"down", "serving", "draining"}
    BY <1>5 DEF OperatorDies, ServerInv, TypeOK
  <2>3. Slots \in SUBSET Slots
    OBVIOUS
  <2> QED BY <2>1, <2>2, <2>3, CutStep
<1>6. CASE Edit \/ Webhook \/ Reconcile \/ Record
  BY <1>6, EditStep, WebhookStep, OperatorStep, RecordStep
<1>7. ASSUME NEW c \in Slots, Handle(c) \/ Arrive(c) PROVE ServerInv'
  BY <1>7, AcceptStep, DecodeStep, WebhookHandlers, GetStep, WriteStep, ArriveStep DEF Handle
<1>8. CASE UNCHANGED vars
  <2>1. /\ UNCHANGED <<want, status, op, result, calls, server, cluster, spent>>
        /\ server \in {"down", "serving", "draining"}
    BY <1>8 DEF vars, status, cluster, ServerInv, TypeOK
  <2> QED BY <1>0, <1>1, <2>1
<1> QED BY <1>2, <1>3, <1>4, <1>5, <1>6, <1>7, <1>8 DEF Next, Disturb

-----------------------------------------------------------------------------
(* The theorems. *)

\* The types, what the calls are doing, and what has been answered.
THEOREM ServerInvariant == Spec => []ServerInv
<1>1. Init => ServerInv
  BY ServerInit DEF ServerInv
<1>2. ServerInv /\ [Next]_vars => ServerInv'
  BY ServerStep
<1> QED BY <1>1, <1>2, PTL DEF Spec

\* Whatever the operator, the server and the API server do: when the status has
\* the hash of what the user wrote last, the Ingress has its rules, if no Delete
\* has arrived after its call had ended (reconciler.go, Reconcile; server.go,
\* Sync; ingress.go, Sync).
THEOREM AnsweredStands == Spec => []AnsweredMeansRouted
<1>1. ASSUME ServerInv PROVE AnsweredMeansRouted
  <2> SUFFICES ASSUME done = want, Revisions[want] \in Specs, ~late
               PROVE  ingress # None /\ ingress.rules = Revisions[want]
    BY DEF AnsweredMeansRouted
  <2>1. op = None /\ result = None
    <3>1. done \in Nat /\ want \in Nat /\ result \in Results \cup {None}
      BY <1>1, Revised DEF ServerInv, TypeOK
    <3>2. result # None => result.rev \in Nat
      BY <3>1 DEF Results
    <3> QED BY <1>1, <3>1, <3>2 DEF ServerInv, CallsInv, ResultInv
  <2>2. Settled /\ Last = want
    BY <2>1 DEF Settled, Last
  <2> QED BY <1>1, <2>2 DEF ServerInv, Routed
<1> QED BY <1>1, ServerInvariant, PTL

\* A step that takes the call of the operator away without the answer that it
\* waits for.
LEMMA WhyCut ==
  ASSUME ServerInv, [Next]_vars, NEW c \in Slots,
         op = c, op' = None, result' # Outcome(calls[c], TRUE), calls[c].pc # "sent"
  PROVE  \/ spent' # spent
         \/ SpecAt(calls[c].rev) = Bad
         \/ \E d \in Slots : At(d, {"decode"}) /\ calls[d].method = "Validate"
         \/ calls[c].pc = "create" /\ ingress # None
         \/ calls[c].pc = "update" /\ (ingress = None \/ ingress.version # calls[c].base)
<1>1. c # None /\ op' # op
  BY ServerAssumption
<1>2. CASE Edit \/ Webhook \/ Reconcile \/ Record \/ Boot \/ Drained \/ Stop \/ UNCHANGED vars
  BY <1>1, <1>2 DEF Edit, Webhook, Reconcile, Record, Boot, Drained, Stop, vars
<1>3. CASE OperatorDies \/ ServerDies
  BY <1>3, Spending DEF OperatorDies, ServerDies
<1>4. ASSUME NEW d \in Slots, Arrive(d) PROVE FALSE
  BY <1>1, <1>4 DEF Arrive
<1>5. ASSUME NEW d \in Slots, NEW ok \in BOOLEAN, Answer(d, ok)
      PROVE  d = c /\ ~ok
  BY <1>1, <1>5 DEF Answer
<1>6. ASSUME NEW d \in Slots, Accept(d) PROVE FALSE
  <2>1. d = c \/ UNCHANGED op
    BY <1>5, <1>6 DEF Accept
  <2> QED BY <1>1, <1>6, <2>1 DEF Accept, At
<1>7. ASSUME NEW d \in Slots, DecodeObject(d) PROVE SpecAt(calls[c].rev) = Bad
  <2>1. d = c
    BY <1>1, <1>5, <1>7 DEF DecodeObject, Goto
  <2> QED BY <1>7, <2>1, DecodeStep
<1>8. ASSUME NEW d \in Slots, Default(d) PROVE FALSE
  <2> DEFINE ok == ~HasWebhooks \/ Decode(GetSpec(calls[d].req), Nil) # Fails
  <2>1. calls[d] # None /\ ~ForOperator(calls[d]) /\ Answer(d, ok)
    BY <1>8 DEF Default, At, ForOperator
  <2>2. ok \in BOOLEAN
    OBVIOUS
  <2> HIDE DEF ok
  <2> QED BY <1>5, <2>1, <2>2, OfOperator
<1>9. ASSUME NEW d \in Slots, Validate(d)
      PROVE  At(d, {"decode"}) /\ calls[d].method = "Validate"
  BY <1>9 DEF Validate
<1>10. ASSUME NEW d \in Slots, Get(d) PROVE spent' # spent
  BY <1>1, <1>10, Spending DEF Get, Goto
<1>11. ASSUME NEW d \in Slots, NEW pc \in Writes, Write(d, pc)
       PROVE  \/ spent' # spent
              \/ calls[c].pc = "create" /\ ingress # None
              \/ calls[c].pc = "update" /\ (ingress = None \/ ingress.version # calls[c].base)
  <2>1. CASE Spend("faults", MaxFaults)
    BY <2>1, Spending
  <2>2. CASE Accepted(calls[d], pc) /\ Answer(d, TRUE)
    BY <1>5, <2>2
  <2>3. CASE ~Accepted(calls[d], pc) /\ Answer(d, pc = "delete")
    <3>1. d = c /\ pc # "delete" /\ calls[c].pc = pc
      BY <1>5, <1>11, <2>3 DEF Write, At
    <3> QED BY <2>3, <3>1 DEF Accepted, Writes
  <2> QED BY <1>11, <2>1, <2>2, <2>3 DEF Write
<1>12. ASSUME NEW d \in Slots, Handle(d)
       PROVE  \/ spent' # spent
              \/ SpecAt(calls[c].rev) = Bad
              \/ \E e \in Slots : At(e, {"decode"}) /\ calls[e].method = "Validate"
              \/ calls[c].pc = "create" /\ ingress # None
              \/ calls[c].pc = "update" /\ (ingress = None \/ ingress.version # calls[c].base)
  BY <1>6, <1>7, <1>8, <1>9, <1>10, <1>11, <1>12 DEF Handle
<1> QED BY <1>2, <1>3, <1>4, <1>12 DEF Next, Disturb

\* A stop of the server cuts no call that it has taken: GracefulStop waits for
\* the handlers (server.go, Serve).
THEOREM StopCutsNothing == Spec => NoCallCut
<1>1. ServerInv /\ [Next]_vars =>
        [\A c \in Slots :
           (op = c /\ op' = None /\ result' # Outcome(calls[c], TRUE) /\ calls[c].pc # "sent")
             => \/ spent' # spent
                \/ SpecAt(calls[c].rev) = Bad
                \/ \E d \in Slots : At(d, {"decode"}) /\ calls[d].method = "Validate"
                \/ calls[c].pc = "create" /\ ingress # None
                \/ calls[c].pc = "update" /\ (ingress = None \/ ingress.version # calls[c].base)]_vars
  BY WhyCut
<1> QED BY <1>1, ServerInvariant, PTL DEF Spec, NoCallCut
=============================================================================
