----------------------------- MODULE WasiStream -----------------------------
(***************************************************************************)
(* The response stream of a WASI extension (internal/waruntime/runner.go): *)
(* Runner.Sync starts a goroutine that calls the guest's Sync function;    *)
(* the host functions addEnv, addLabel, mergePatch... send on a channel    *)
(* with room for one message; an error of the guest goes to a second       *)
(* channel; both are closed when the guest returns.  response.Recv, called *)
(* by ExtensionController.runExtension until it returns an error, selects  *)
(* between the two channels.                                               *)
(*                                                                         *)
(* Messages are numbered in the order in which the guest sends them.       *)
(***************************************************************************)
EXTENDS Naturals

CONSTANTS
  MaxMsgs,  \* most messages a guest sends
  Patches,  \* the messages that are merge patches: views of guest memory
  MayReuse, \* may the guest write to memory that it passed to mergePatch?
  MayStop   \* may the reader stop before the end of the stream?

ASSUME StreamAssumption ==
  /\ MaxMsgs \in Nat
  /\ Patches \subseteq Nat \ {0}
  /\ MayReuse \in BOOLEAN
  /\ MayStop \in BOOLEAN

VARIABLES
  total,     \* how many messages this guest sends
  fails,     \* does its Sync function return an error?
  producer,  \* the goroutine: "guest", then "closeMsgs", "closeErrs", "end"
  sent,      \* messages sent
  buf,       \* the message in the channel, 0 for none
  err,       \* is there an error in the errors channel?
  msgsClosed, errsClosed,
  received,  \* messages received, in order
  consumer,  \* "recv", and "eof", "error" or "stopped" at its end
  overwritten \* the patches whose memory the guest has used again

streamVars == <<total, fails, producer, sent, buf, err, msgsClosed, errsClosed,
                received, consumer, overwritten>>

StreamInit ==
  /\ total \in 0..MaxMsgs
  /\ fails \in BOOLEAN
  /\ producer = "guest"
  /\ sent = 0 /\ buf = 0 /\ received = 0
  /\ err = FALSE
  /\ msgsClosed = FALSE /\ errsClosed = FALSE
  /\ consumer = "recv"
  /\ overwritten = {}

-----------------------------------------------------------------------------
(* The goroutine. *)

\* A host function sends on r.msgs, and blocks while the channel is full.
Send ==
  /\ producer = "guest"
  /\ sent < total
  /\ buf = 0
  /\ sent' = sent + 1
  /\ buf' = sent'
  /\ UNCHANGED <<total, fails, producer, err, msgsClosed, errsClosed, received,
                 consumer, overwritten>>

\* The guest goes on, and uses the memory of a patch it has sent.
Reuse ==
  /\ MayReuse
  /\ producer = "guest"
  /\ \E m \in Patches \cap 1..sent :
       /\ m \notin overwritten
       /\ overwritten' = overwritten \cup {m}
  /\ UNCHANGED <<total, fails, producer, sent, buf, err, msgsClosed,
                 errsClosed, received, consumer>>

\* Mutant: the error is sent without a look at whether it is nil.
SyncReturnsNilError ==
  /\ producer = "guest"
  /\ sent = total
  /\ producer' = "closeMsgs"
  /\ err' = TRUE
  /\ UNCHANGED <<total, fails, sent, buf, msgsClosed, errsClosed, received,
                 consumer, overwritten>>

\* Mutant: the goroutine does not wait for the guest.
SyncReturnsEarly ==
  /\ producer = "guest"
  /\ producer' = "closeMsgs"
  /\ err' = fails
  /\ UNCHANGED <<total, fails, sent, buf, msgsClosed, errsClosed, received,
                 consumer, overwritten>>

\* The guest's function returns.
SyncReturns ==
  /\ producer = "guest"
  /\ sent = total
  /\ producer' = "closeMsgs"
  /\ err' = fails
  /\ UNCHANGED <<total, fails, sent, buf, msgsClosed, errsClosed, received,
                 consumer, overwritten>>

\* Mutant: the goroutine hangs before it closes the channels.
CloseMsgsNever ==
  /\ producer = "closeMsgs"
  /\ UNCHANGED streamVars

CloseMsgs ==
  /\ producer = "closeMsgs"
  /\ msgsClosed' = TRUE
  /\ producer' = "closeErrs"
  /\ UNCHANGED <<total, fails, sent, buf, err, errsClosed, received, consumer, overwritten>>

\* Mutant: the errors channel is left open, and with it the goroutine.
CloseErrsNever ==
  /\ producer = "closeErrs"
  /\ UNCHANGED streamVars

CloseErrs ==
  /\ producer = "closeErrs"
  /\ errsClosed' = TRUE
  /\ producer' = "end"
  /\ UNCHANGED <<total, fails, sent, buf, err, msgsClosed, received, consumer, overwritten>>

-----------------------------------------------------------------------------
(* response.Recv: select takes any case that is ready, and a closed channel *)
(* is ready once it is empty.                                               *)

RecvMsg ==
  /\ consumer = "recv"
  /\ buf # 0
  /\ received' = received + 1
  /\ buf' = 0
  /\ UNCHANGED <<total, fails, producer, sent, err, msgsClosed, errsClosed,
                 consumer, overwritten>>

RecvMsgsClosed ==
  /\ consumer = "recv"
  /\ buf = 0 /\ msgsClosed
  /\ consumer' = "eof"
  /\ UNCHANGED <<total, fails, producer, sent, buf, err, msgsClosed,
                 errsClosed, received, overwritten>>

RecvErr ==
  /\ consumer = "recv"
  /\ err
  /\ err' = FALSE
  /\ consumer' = "error"
  /\ UNCHANGED <<total, fails, producer, sent, buf, msgsClosed, errsClosed,
                 received, overwritten>>

RecvErrsClosed ==
  /\ consumer = "recv"
  /\ ~err /\ errsClosed
  /\ consumer' = "eof"
  /\ UNCHANGED <<total, fails, producer, sent, buf, err, msgsClosed,
                 errsClosed, received, overwritten>>

\* runExtension returns when Changeset.Add refuses a message: nobody calls Recv
\* any more.
Stop ==
  /\ MayStop
  /\ consumer = "recv" /\ received > 0
  /\ consumer' = "stopped"
  /\ UNCHANGED <<total, fails, producer, sent, buf, err, msgsClosed,
                 errsClosed, received, overwritten>>

Producer == Send \/ SyncReturns \/ CloseMsgs \/ CloseErrs
Recv     == RecvMsg \/ RecvMsgsClosed \/ RecvErr \/ RecvErrsClosed

StreamNext == Producer \/ Reuse \/ Recv \/ Stop

StreamSpec == StreamInit /\ [][StreamNext]_streamVars

\* Both goroutines are scheduled, and a guest's function returns.
FairStream == StreamSpec /\ WF_streamVars(Producer) /\ WF_streamVars(Recv)

-----------------------------------------------------------------------------
(* Properties. *)

\* Every variable keeps its type.
StreamTypeOK ==
  /\ total \in 0..MaxMsgs /\ sent \in 0..MaxMsgs /\ received \in Nat
  /\ buf \in 0..MaxMsgs
  /\ fails \in BOOLEAN /\ err \in BOOLEAN
  /\ msgsClosed \in BOOLEAN /\ errsClosed \in BOOLEAN
  /\ producer \in {"guest", "closeMsgs", "closeErrs", "end"}
  /\ consumer \in {"recv", "eof", "error", "stopped"}
  /\ overwritten \subseteq Patches

\* Messages are received in the order in which they were sent, none twice, and
\* none is lost between two that are received: what was sent is what was
\* received and at most one more, which is in the channel.
InOrder ==
  /\ buf # 0 => buf = received + 1
  /\ sent = received + (IF buf = 0 THEN 0 ELSE 1)

\* What an end of stream is worth: it comes only after the guest's function
\* has returned, and at most the last message is missing.
EndOfStream ==
  consumer = "eof" => producer # "guest" /\ sent = total /\ received + 1 >= total

\* Recv returns an error only for a guest that failed.
ErrorIsGenuine == consumer = "error" => fails

\* At the end of the stream, every message has been received.
AllReceived == consumer = "eof" => received = total

\* A guest that failed is not taken for one that is through.
FailureSeen == consumer = "eof" => ~fails

\* What Changeset.Apply is going to use of a patch that was received is what
\* the guest passed to mergePatch.
PatchIntact == \A m \in Patches \cap 1..received : m \notin overwritten

\* The stream ends for its reader.
StreamEnds == <>(consumer # "recv")

\* The goroutine ends, and with it the guest's module is closed, but for one
\* case: a reader that stopped, a full channel, and a guest with more to send.
GoroutineEnds ==
  <>(producer = "end" \/ (consumer = "stopped" /\ buf # 0 /\ sent < total))

\* The invariant that the steps preserve.
StreamInv ==
  /\ InOrder
  /\ sent <= total
  /\ producer # "guest" => sent = total
  /\ msgsClosed => producer \in {"closeErrs", "end"}
  /\ errsClosed => producer = "end"
  /\ err => fails
  /\ EndOfStream
  /\ ErrorIsGenuine
=============================================================================
