----------------------------- MODULE FileTransferProofs -----------------------------
(***************************************************************************)
(* The two ends of a transfer agree on how it has ended, for a file of any *)
(* number of chunks, any buffer threshold, and whatever is lost on the     *)
(* way.                                                                    *)
(*                                                                         *)
(* The steps of the sender's loop and those of the receiver are first      *)
(* reduced to what the invariants see of them (LoopStep, ReceiverStep);    *)
(* two invariants follow, SenderInv of the sender alone and MutualInv of   *)
(* both ends and the frames between them.                                  *)
(***************************************************************************)
EXTENDS FileTransferProperties, SequenceTheorems, TLAPS

ToReceiver == {"offer", "done", "abort"}
ToSender   == {"accept", "reject", "abort"}

Typing ==
  /\ position \in Nat
  /\ toReceiver \in Seq(ToReceiver)
  /\ toSender \in Seq(ToSender)

-----------------------------------------------------------------------------
(* The loop of the sender: it goes on, fails, or ends with file_done.      *)

GoesOn ==
  /\ step' \in {"reading", "waiting", "unopened"}
  /\ UNCHANGED <<sState, aborted, sPromise, listener, original, toReceiver>>

FailsInLoop ==
  /\ Fails /\ step' = "ended" /\ UNCHANGED aborted
  /\ toReceiver' = toReceiver \/ toReceiver' = Append(toReceiver, "abort")

EndsInLoop ==
  /\ sState' = "done" /\ step' = "ended" /\ UNCHANGED aborted
  /\ Cleanup
  /\ sPromise' = Settled(sPromise, "resolved")
  /\ toReceiver' = Append(toReceiver, "done")

LoopStep ==
  /\ step \in {"opening", "reading", "waiting"}
  /\ position' \in Nat
  /\ GoesOn \/ FailsInLoop \/ EndsInLoop
  /\ UNCHANGED <<receiver, toSender>>

LEMMA FinishIsLoopStep == Finish => FailsInLoop \/ EndsInLoop
BY DEF Finish, FailsInLoop, EndsInLoop

LEMMA ContinueIsLoopStep ==
  ASSUME NEW n \in Nat, Continue(n)
  PROVE  position' \in Nat /\ (GoesOn \/ FailsInLoop \/ EndsInLoop)
BY FinishIsLoopStep DEF Continue, FailsInLoop, GoesOn

LEMMA PutChunkIsLoopStep ==
  ASSUME Typing, NEW intact, PutChunk(intact)
  PROVE  position' \in Nat /\ (GoesOn \/ FailsInLoop \/ EndsInLoop)
<1>1. CASE sUp
  BY <1>1, ContinueIsLoopStep DEF PutChunk, SendMessageBinaryBulk, Typing
<1>2. CASE ~sUp
  BY <1>2 DEF PutChunk, SendMessageBinaryBulk, Catch, FailsInLoop, Typing
<1> QED BY <1>1, <1>2

LEMMA LoopSteps ==
  ASSUME Typing, Opens \/ Read \/ Buffer
  PROVE  LoopStep
<1>1. CASE Opened
  BY <1>1, ContinueIsLoopStep DEF Opened, LoopStep
<1>2. CASE ChunkRead
  <2>1. /\ step = "reading" /\ UNCHANGED <<receiver, toSender>>
        /\ \E intact \in {TRUE} \cup {~FileMayChange} :
             \/ PutChunk(intact)
             \/ /\ step' = "waiting"
                /\ UNCHANGED <<sState, position, aborted, sPromise, listener, original, toReceiver>>
    BY <1>2 DEF ChunkRead
  <2> QED BY <2>1, PutChunkIsLoopStep DEF LoopStep, GoesOn, Typing
<1>3. CASE EndOfFile
  BY <1>3, FinishIsLoopStep DEF EndOfFile, LoopStep, Typing
<1>4. CASE ReadFails
  BY <1>4 DEF ReadFails, Catch, LoopStep, FailsInLoop, Typing
<1>5. CASE BufferLow
  BY <1>5, PutChunkIsLoopStep DEF BufferLow, LoopStep
<1>6. CASE BackpressureTimeout
  BY <1>6 DEF BackpressureTimeout, Tell, Catch, LoopStep, FailsInLoop, Typing
<1>7. CASE OpenFails
  BY <1>7 DEF OpenFails, LoopStep, GoesOn, Typing
<1> QED BY <1>1, <1>2, <1>3, <1>4, <1>5, <1>6, <1>7 DEF Opens, Read, Buffer

-----------------------------------------------------------------------------
(* The receiver: what it tells the sender, and how it gets to its verdict. *)

Told(frame) == toSender' = Append(toSender, frame)

ReceiverStep ==
  /\ UNCHANGED sending
  /\ rState = "failed" => rState' = "failed"
  /\ streamFailed => streamFailed'
  /\ \/ UNCHANGED toSender
     \/ Told("accept")
     \/ rState' = "failed" /\ (Told("reject") \/ Told("abort"))
  /\ \/ UNCHANGED toReceiver
     \/ toReceiver # <<>> /\ toReceiver' = Tail(toReceiver)
  /\ \/ UNCHANGED <<rState, saved>>
     \/ rState' \notin {"verifying", "done"} /\ UNCHANGED saved
     \/ /\ rState' = "verifying" /\ UNCHANGED saved
        /\ toReceiver # <<>> /\ Head(toReceiver) = "done"
     \/ rState = "verifying" /\ rState' = "done" /\ (saved' = {Offered} \/ streamFailed')

\* All that was received is in the file unless writing it failed.
LEMMA WholeFile ==
  ASSUME ~streamFailed, Matches
  PROVE  Written = {Offered}
<1>1. Offered \in Seq(Chunk)
  BY TransferAssumption DEF Offered, Chunk
<1>2. SubSeq(Offered, 1, Len(Offered)) = Offered
  BY <1>1
<1> QED BY <1>2 DEF Written, Matches

LEMMA ReceiverSteps ==
  ASSUME Decides \/ TakeChunk \/ TakeControl \/ Verify
           \/ FileOpened \/ StreamFails \/ PartDeleted \/ WaitForDone
  PROVE  ReceiverStep
<1> USE DEF ReceiverStep, Told
<1>1. CASE Accept
  BY <1>1 DEF Accept, Ends, Tell, Settled, disk
<1>2. ASSUME NEW why, Decline(why), why \in {"rejected", "error"} PROVE ReceiverStep
  BY <1>2 DEF Decline, Ends, Tell, disk
<1>3. CASE TakeChunk
  BY <1>3 DEF TakeChunk, ChunkGap, Ends
<1>4. CASE TakeControl
  <2>1. CASE TakeOffer
    BY <1>4, <2>1 DEF TakeControl, TakeOffer, Ends, disk
  <2>2. CASE Head(toReceiver) = "done" /\ TakeDone
    BY <1>4, <2>2 DEF TakeControl, TakeDone, disk
  <2>3. CASE TakePeerAbort
    BY <1>4, <2>3 DEF TakeControl, TakePeerAbort, Ends
  <2> QED BY <1>4, <2>1, <2>2, <2>3 DEF TakeControl
<1>5. CASE Verify
  <2>1. CASE Keep
    <3>1. saved' = {Offered} \/ streamFailed'
      BY <1>5, <2>1, WholeFile DEF Verify, Keep
    <3> QED BY <1>5, <2>1, <3>1 DEF Verify, Keep
  <2>2. CASE RenameFails
    BY <1>5, <2>2 DEF Verify, RenameFails
  <2>3. CASE Mismatch
    BY <1>5, <2>3 DEF Verify, Mismatch, Ends, Tell
  <2> QED BY <1>5, <2>1, <2>2, <2>3 DEF Verify
<1>6. CASE FileOpened
  BY <1>6 DEF FileOpened
<1>7. CASE PartDeleted
  BY <1>7 DEF PartDeleted
<1>8. CASE WaitForDone
  BY <1>8 DEF WaitForDone, disk
<1>9. CASE StreamFails
  BY <1>9 DEF StreamFails
<1> QED BY <1>1, <1>2, <1>3, <1>4, <1>5, <1>6, <1>7, <1>8, <1>9 DEF Decides

\* What the channels do, and a stuttering step, touch neither end.
LEMMA QuietSteps ==
  ASSUME Flush \/ Lose \/ SessionLost \/ UNCHANGED vars
  PROVE  UNCHANGED <<sending, receiver, toReceiver, toSender>>
BY DEF Flush, Lose, SessionLost, vars

-----------------------------------------------------------------------------
(* The sender alone.  It listens only while send() is pending, and a       *)
(* callback it saves is never its own.                                     *)

Awaits == {"listening", "opening", "reading", "waiting"}

SenderInv ==
  /\ original # "sender"
  /\ listener = "sender" => sPromise = "waiting"
  /\ sState = "idle" => step = "none" /\ sPromise = "none" /\ ~aborted
  /\ step = "none" => listener # "sender"
  /\ step = "hashing" => sPromise = "waiting" /\ listener # "sender"
  /\ step \in Awaits => sPromise = "waiting" \/ aborted
  /\ step = "ended" => listener # "sender"
  /\ aborted => sPromise = "rejected"

LEMMA SenderStep ==
  ASSUME Typing, SenderInv, [Next]_vars
  PROVE  SenderInv'
<1> USE DEF SenderInv, Awaits
<1>1. CASE Send
  BY <1>1 DEF Send
<1>2. CASE HashFails
  BY <1>2 DEF HashFails, Catch, Fails, Cleanup, Settled
<1>3. CASE Offer
  BY <1>3 DEF Offer, Settled
<1>4. CASE HearControl
  <2>1. CASE listener = "sender" /\ TakeAbort
    BY <2>1 DEF TakeAbort, Fails, Cleanup, Settled, loop
  <2>2. CASE listener = "sender" /\ sState = "awaiting_accept" /\ TakeAnswer(Head(toSender))
    BY <2>2 DEF TakeAnswer, Fails, Cleanup, Settled
  <2>3. CASE UNCHANGED <<sState, loop, aborted, sPromise, listener, original>>
    BY <2>3 DEF loop
  <2> QED BY <1>4, <2>1, <2>2, <2>3 DEF HearControl
<1>5. CASE Opens \/ Read \/ Buffer
  <2>1. LoopStep
    BY <1>5, LoopSteps
  <2>2. CASE GoesOn
    BY <2>1, <2>2 DEF LoopStep, GoesOn
  <2>3. CASE FailsInLoop
    BY <2>1, <2>3 DEF LoopStep, FailsInLoop, Fails, Cleanup, Settled
  <2>4. CASE EndsInLoop
    BY <2>1, <2>4 DEF LoopStep, EndsInLoop, Cleanup, Settled
  <2> QED BY <2>1, <2>2, <2>3, <2>4 DEF LoopStep
<1>6. CASE UNCHANGED sending
  BY <1>6 DEF sending, loop
<1> QED
  BY <1>1, <1>2, <1>3, <1>4, <1>5, <1>6, ReceiverSteps, QuietSteps
     DEF Next, Hashed, ReceiverStep

-----------------------------------------------------------------------------
(* Both ends.  A refusal or an abort is on its way only when the receiver  *)
(* has failed for good, and file_done only when the sender's loop is over  *)
(* and has reported success, or was aborted by a receiver that has failed. *)

Refused(queue) == \E i \in 1..Len(queue) : queue[i] # "accept"
Announced(queue) == \E i \in 1..Len(queue) : queue[i] = "done"
Succeeded == step = "ended" /\ (sPromise = "resolved" \/ rState = "failed")

MutualInv ==
  /\ Refused(toSender) => rState = "failed"
  /\ aborted => rState = "failed"
  /\ Announced(toReceiver) => Succeeded
  /\ rState \in {"verifying", "done"} => Succeeded
  /\ rState = "done" => saved = {Offered} \/ streamFailed

LEMMA RefusedQueue ==
  ASSUME NEW queue \in Seq(ToSender)
  PROVE  /\ queue # <<>> => (Refused(Tail(queue)) => Refused(queue))
         /\ queue # <<>> /\ Head(queue) # "accept" => Refused(queue)
         /\ Refused(Append(queue, "accept")) => Refused(queue)
BY DEF Refused, ToSender

LEMMA AnnouncedQueue ==
  ASSUME NEW queue \in Seq(ToReceiver)
  PROVE  /\ queue # <<>> => (Announced(Tail(queue)) => Announced(queue))
         /\ queue # <<>> /\ Head(queue) = "done" => Announced(queue)
         /\ \A frame \in {"offer", "abort"} : Announced(Append(queue, frame)) => Announced(queue)
BY DEF Announced, ToReceiver

\* The frames keep their types.
LEMMA TypingStep ==
  ASSUME Typing, [Next]_vars
  PROVE  Typing'
<1> USE DEF Typing, ToReceiver, ToSender
<1>1. CASE Send
  BY <1>1 DEF Send
<1>2. CASE HashFails
  BY <1>2 DEF HashFails, Catch
<1>3. CASE Offer
  <2>1. /\ UNCHANGED <<position, toSender>>
        /\ toReceiver' = toReceiver \/ toReceiver' = Append(toReceiver, "offer")
    BY <1>3 DEF Offer
  <2> QED BY <2>1
<1>4. CASE HearControl
  <2>1. toSender # <<>> /\ toSender' = Tail(toSender) /\ UNCHANGED <<position, toReceiver>>
    BY <1>4 DEF HearControl, TakeAbort, TakeAnswer, loop
  <2> QED BY <2>1
<1>5. CASE Opens \/ Read \/ Buffer
  <2>1. /\ position' \in Nat /\ UNCHANGED toSender
        /\ \/ UNCHANGED toReceiver
           \/ toReceiver' = Append(toReceiver, "abort")
           \/ toReceiver' = Append(toReceiver, "done")
    BY <1>5, LoopSteps DEF LoopStep, GoesOn, FailsInLoop, EndsInLoop
  <2>2. \A frame \in ToReceiver : Append(toReceiver, frame) \in Seq(ToReceiver)
    OBVIOUS
  <2> QED BY <2>1, <2>2
<1>6. CASE ReceiverStep
  <2>1. /\ UNCHANGED position
        /\ toReceiver' = toReceiver \/ (toReceiver # <<>> /\ toReceiver' = Tail(toReceiver))
        /\ \/ toSender' = toSender
           \/ toSender' = Append(toSender, "accept")
           \/ toSender' = Append(toSender, "reject")
           \/ toSender' = Append(toSender, "abort")
    BY <1>6 DEF ReceiverStep, Told, sending, loop
  <2>2. \A frame \in ToSender : Append(toSender, frame) \in Seq(ToSender)
    OBVIOUS
  <2>3. toReceiver # <<>> => Tail(toReceiver) \in Seq(ToReceiver)
    OBVIOUS
  <2>4. toReceiver' \in Seq(ToReceiver)
    BY <2>1, <2>3
  <2>5. toSender' \in Seq(ToSender)
    BY <2>1, <2>2
  <2> QED BY <2>1, <2>4, <2>5
<1>7. CASE UNCHANGED <<sending, receiver, toReceiver, toSender>>
  BY <1>7 DEF sending, loop
<1> QED BY <1>1, <1>2, <1>3, <1>4, <1>5, <1>6, <1>7, ReceiverSteps, QuietSteps DEF Next, Hashed

LEMMA MutualStep ==
  ASSUME Typing, SenderInv, MutualInv, [Next]_vars
  PROVE  MutualInv'
<1> USE DEF MutualInv, Succeeded
<1>1. CASE Send
  BY <1>1 DEF Send, receiver, disk, SenderInv
<1>2. CASE HashFails
  BY <1>2 DEF HashFails, Catch, Fails, receiver, disk, SenderInv
<1>3. CASE Offer
  BY <1>3, AnnouncedQueue DEF Offer, receiver, disk, SenderInv, Typing
<1>4. CASE HearControl
  <2>1. /\ toSender # <<>> /\ toSender' = Tail(toSender)
        /\ UNCHANGED <<rState, saved, streamFailed, toReceiver>>
    BY <1>4 DEF HearControl, receiver, disk
  <2>2. Refused(toSender)' => rState' = "failed"
    BY <2>1, RefusedQueue DEF Typing
  <2>3. CASE listener = "sender" /\ Head(toSender) = "abort" /\ TakeAbort
    <3>1. rState = "failed"
      BY <2>1, <2>3, RefusedQueue DEF Typing
    <3> QED BY <2>1, <2>2, <2>3, <3>1 DEF TakeAbort, loop, SenderInv
  <2>4. CASE listener = "sender" /\ TakeAnswer(Head(toSender))
    BY <2>1, <2>2, <2>4 DEF TakeAnswer, SenderInv
  <2>5. CASE UNCHANGED <<sState, loop, aborted, sPromise, listener, original>>
    BY <2>1, <2>2, <2>5 DEF loop
  <2> QED BY <1>4, <2>3, <2>4, <2>5 DEF HearControl
<1>5. CASE Opens \/ Read \/ Buffer
  <2>1. LoopStep
    BY <1>5, LoopSteps
  <2>2. ~Announced(toReceiver) /\ rState \notin {"verifying", "done"}
    BY <2>1 DEF LoopStep
  <2>3. UNCHANGED <<rState, saved, streamFailed, toSender>>
    BY <2>1 DEF LoopStep, receiver, disk
  <2>4. CASE GoesOn
    BY <2>2, <2>3, <2>4 DEF GoesOn
  <2>5. CASE FailsInLoop
    BY <2>2, <2>3, <2>5, AnnouncedQueue DEF FailsInLoop, Typing
  <2>6. CASE EndsInLoop
    <3>1. sPromise = "waiting" \/ aborted
      BY <2>1 DEF LoopStep, SenderInv, Awaits
    <3> QED BY <2>2, <2>3, <2>6, <3>1 DEF EndsInLoop, Settled
  <2> QED BY <2>1, <2>4, <2>5, <2>6 DEF LoopStep
<1>6. CASE ReceiverStep
  <2>1. UNCHANGED <<step, sPromise, aborted>>
    BY <1>6 DEF ReceiverStep, sending, loop
  <2>2. Succeeded => Succeeded'
    BY <1>6, <2>1 DEF ReceiverStep
  <2>3. Refused(toSender)' => rState' = "failed"
    BY <1>6, RefusedQueue DEF ReceiverStep, Told, Typing
  <2>4. Announced(toReceiver)' => Succeeded'
    BY <1>6, <2>2, AnnouncedQueue DEF ReceiverStep, Typing
  <2>5. /\ rState' \in {"verifying", "done"} => Succeeded'
        /\ rState' = "done" => saved' = {Offered} \/ streamFailed'
    BY <1>6, <2>2, AnnouncedQueue DEF ReceiverStep, Typing
  <2> QED BY <1>6, <2>1, <2>3, <2>4, <2>5 DEF ReceiverStep
<1>7. CASE UNCHANGED <<sending, receiver, toReceiver, toSender>>
  BY <1>7 DEF sending, loop, receiver, disk
<1> QED
  BY <1>1, <1>2, <1>3, <1>4, <1>5, <1>6, <1>7, ReceiverSteps, QuietSteps DEF Next, Hashed

-----------------------------------------------------------------------------

TransferInv == Typing /\ SenderInv /\ MutualInv

LEMMA TransferInvariant == Spec => []TransferInv
<1>1. Init => TransferInv
  BY DEF Init, TransferInv, Typing, SenderInv, Awaits, MutualInv, Succeeded,
         Refused, Announced, ToReceiver, ToSender
<1>2. TransferInv /\ [Next]_vars => TransferInv'
  BY TypingStep, SenderStep, MutualStep DEF TransferInv
<1> QED BY <1>1, <1>2, PTL DEF Spec

\* A sender that has heard file_abort (FileSender.#handleMessage), in whatever
\* await of send() or of its loop, has rejected and stays rejected: no later
\* end of the loop turns the promise to success.
THEOREM AbortIsFinal == Spec => []AbortMeansRejected
<1>1. TransferInv => AbortMeansRejected
  BY DEF TransferInv, SenderInv, AbortMeansRejected
<1> QED BY <1>1, TransferInvariant, PTL

\* When the receiver is done (FileReceiver.#handleFileDone), what it has saved
\* is the file that was offered, unless the end of it could not be written, and
\* send() of the other side has resolved, for any size of the file and whatever
\* chunks or sessions were lost.
THEOREM SuccessAgrees == Spec => []SuccessIsMutual
<1>1. TransferInv => SuccessIsMutual
  BY DEF TransferInv, MutualInv, Succeeded, SuccessIsMutual
<1> QED BY <1>1, TransferInvariant, PTL

-----------------------------------------------------------------------------
(* Types.  The sender reads only while there are chunks left to send.      *)

LoopInBounds == step \in {"reading", "waiting"} => position < Chunks

SenderTypes == SenderTypeOK /\ LoopInBounds

LEMMA CatchTypes ==
  ASSUME SenderTypes, Catch, readFailed' \in BOOLEAN
  PROVE  SenderTypes'
BY DEF Catch, Fails, Cleanup, Settled, SenderTypes, SenderTypeOK, LoopInBounds, PromiseState, SenderState

LEMMA FinishTypes ==
  ASSUME SenderTypes, Finish, position' \in 0..Chunks, UNCHANGED readFailed
  PROVE  SenderTypes'
BY DEF Finish, Fails, Cleanup, Settled, SenderTypes, SenderTypeOK, LoopInBounds, PromiseState, SenderState

LEMMA ContinueTypes ==
  ASSUME SenderTypes, NEW n \in 0..Chunks, Continue(n), UNCHANGED readFailed
  PROVE  SenderTypes'
<1>1. CASE n < Chunks /\ Fails /\ step' = "ended" /\ UNCHANGED <<held, aborted>>
  BY <1>1 DEF Continue, Fails, Cleanup, Settled, SenderTypes, SenderTypeOK, LoopInBounds,
              PromiseState, SenderState
<1>2. CASE n < Chunks /\ step' = "reading"
             /\ UNCHANGED <<sState, held, aborted, sPromise, listener, original>>
  BY <1>2 DEF Continue, SenderTypes, SenderTypeOK, LoopInBounds
<1>3. CASE n >= Chunks /\ Finish
  BY <1>3, FinishTypes DEF Continue
<1> QED BY <1>1, <1>2, <1>3 DEF Continue

LEMMA PutChunkTypes ==
  ASSUME SenderTypes, NEW intact, PutChunk(intact), step \in {"reading", "waiting"},
         UNCHANGED readFailed
  PROVE  SenderTypes'
<1>1. position + 1 \in 0..Chunks
  BY TransferAssumption DEF SenderTypes, SenderTypeOK, LoopInBounds
<1> QED BY <1>1, ContinueTypes, CatchTypes DEF PutChunk, SenderTypes, SenderTypeOK

LEMMA SenderTypesStep ==
  ASSUME SenderTypes, SenderInv, [Next]_vars
  PROVE  SenderTypes'
<1> USE DEF SenderTypes, SenderTypeOK, LoopInBounds
<1>1. CASE Send
  BY <1>1 DEF Send, SenderState, PromiseState
<1>2. CASE HashFails
  BY <1>2, CatchTypes DEF HashFails
<1>3. CASE Offer
  BY <1>3 DEF Offer, Settled, SenderInv, SenderState, PromiseState
<1>4. CASE HearControl
  <2>1. CASE TakeAbort
    BY <1>4, <2>1 DEF HearControl, TakeAbort, Fails, Cleanup, Settled, loop, SenderState, PromiseState
  <2>2. CASE TakeAnswer(Head(toSender))
    BY <1>4, <2>2 DEF HearControl, TakeAnswer, Fails, Cleanup, Settled, SenderState, PromiseState
  <2>3. CASE UNCHANGED <<sState, loop, aborted, sPromise, listener, original>>
    BY <1>4, <2>3 DEF HearControl, loop
  <2> QED BY <1>4, <2>1, <2>2, <2>3 DEF HearControl
<1>5. CASE Opened
  BY <1>5, ContinueTypes, TransferAssumption DEF Opened
<1>6. CASE ChunkRead
  <2>1. PICK intact \in {TRUE} \cup {~FileMayChange} :
          \/ PutChunk(intact)
          \/ /\ step' = "waiting" /\ held' = intact
             /\ UNCHANGED <<sState, position, aborted, sPromise, listener, original>>
    BY <1>6 DEF ChunkRead
  <2>2. step = "reading" /\ UNCHANGED readFailed
    BY <1>6 DEF ChunkRead
  <2> QED BY <2>1, <2>2, PutChunkTypes, TransferAssumption
<1>7. CASE EndOfFile
  BY <1>7, FinishTypes DEF EndOfFile
<1>8. CASE ReadFails
  BY <1>8, CatchTypes DEF ReadFails
<1>9. CASE BufferLow
  BY <1>9, PutChunkTypes DEF BufferLow
<1>10. CASE BackpressureTimeout
  BY <1>10, CatchTypes DEF BackpressureTimeout
<1>11. CASE UNCHANGED sending
  BY <1>11 DEF sending, loop
<1>12. CASE OpenFails
  BY <1>12 DEF OpenFails
<1> QED
  BY <1>1, <1>2, <1>3, <1>4, <1>5, <1>6, <1>7, <1>8, <1>9, <1>10, <1>11, <1>12, ReceiverSteps, QuietSteps
     DEF Next, Hashed, Opens, Read, Buffer, ReceiverStep

\* What is sent on the bulk channel is a chunk, at its end.
BulkGrows ==
  \/ UNCHANGED <<bulk, buffered>>
  \/ \E c \in Chunk : bulk' = Append(bulk, c) /\ buffered' = buffered + 1

ChannelTypes ==
  /\ bulk \in Seq(Chunk)
  /\ buffered \in 0..Len(bulk)
  /\ {sUp, rUp, crashed} \subseteq BOOLEAN

LEMMA PutChunkGrows ==
  ASSUME SenderTypes, NEW intact \in BOOLEAN, PutChunk(intact)
  PROVE  BulkGrows
BY TransferAssumption DEF PutChunk, SendMessageBinaryBulk, BulkGrows, Chunk, SenderTypes, SenderTypeOK

LEMMA GrownTypes ==
  ASSUME ChannelTypes, BulkGrows, UNCHANGED session
  PROVE  ChannelTypes'
<1>1. ASSUME NEW c \in Chunk
      PROVE  Append(bulk, c) \in Seq(Chunk) /\ Len(Append(bulk, c)) = Len(bulk) + 1
  BY DEF ChannelTypes
<1>2. Len(bulk) \in Nat
  BY DEF ChannelTypes
<1> QED BY <1>1, <1>2 DEF ChannelTypes, BulkGrows, session

LEMMA ChannelTypesStep ==
  ASSUME SenderTypes, ChannelTypes, [Next]_vars
  PROVE  ChannelTypes'
<1>1. CASE ChunkRead
  BY <1>1, PutChunkGrows, GrownTypes, TransferAssumption DEF ChunkRead, BulkGrows
<1>2. CASE BufferLow
  BY <1>2, PutChunkGrows, GrownTypes DEF BufferLow, SenderTypes, SenderTypeOK
<1>3. CASE TakeChunk \/ Lose
  <2>1. /\ Len(bulk) > buffered /\ bulk' = Tail(bulk)
        /\ UNCHANGED <<buffered, session>>
    BY <1>3 DEF TakeChunk, Lose
  <2>2. Tail(bulk) \in Seq(Chunk) /\ Len(Tail(bulk)) = Len(bulk) - 1
    BY <2>1 DEF ChannelTypes
  <2> QED BY <2>1, <2>2 DEF ChannelTypes, session
<1>4. CASE Flush
  BY <1>4 DEF Flush, ChannelTypes, session
<1>5. CASE SessionLost
  BY <1>5 DEF SessionLost, ChannelTypes, bulkDc
<1>6. CASE Verify
  BY <1>6 DEF Verify, Keep, RenameFails, Mismatch, Crash, ChannelTypes, session, bulkDc
<1>7. CASE StreamFails
  BY <1>7 DEF StreamFails, Crash, ChannelTypes, session, bulkDc
<1>8. CASE UNCHANGED <<bulkDc, session>>
  BY <1>8 DEF ChannelTypes, bulkDc, session
<1>9. CASE Send \/ Hashed \/ HearControl \/ Opened \/ EndOfFile \/ ReadFails \/ BackpressureTimeout
  BY <1>8, <1>9 DEF Send, Hashed, HashFails, Offer, HearControl, Opened, EndOfFile, ReadFails,
                    BackpressureTimeout
<1>10. CASE Decides \/ TakeControl \/ FileOpened \/ PartDeleted \/ WaitForDone \/ UNCHANGED vars
  BY <1>8, <1>10 DEF Decides, Accept, Decline, TakeControl, FileOpened, PartDeleted, WaitForDone, vars
<1>11. CASE OpenFails
  BY <1>11 DEF OpenFails, ChannelTypes, bulkDc
<1> QED BY <1>1, <1>2, <1>3, <1>4, <1>5, <1>6, <1>7, <1>9, <1>10, <1>11 DEF Next, Opens, Read, Buffer

LEMMA WrittenTypes ==
  ASSUME received \in Seq(Chunk), NEW file \in Written
  PROVE  file \in Seq(Chunk)
<1>1. PICK n \in 0 .. Len(received) : file = SubSeq(received, 1, n)
  BY DEF Written
<1> QED BY <1>1, SubSeqProperties

LEMMA ReceiverTypesStep ==
  ASSUME ReceiverTypeOK, ChannelTypes, [Next]_vars
  PROVE  ReceiverTypeOK'
<1> USE DEF ReceiverTypeOK, ReceiverState, Reason, PromiseState, Settled, Ends
<1>1. CASE Accept
  BY <1>1 DEF Accept
<1>2. ASSUME NEW why, Decline(why), why \in {"rejected", "error"} PROVE ReceiverTypeOK'
  BY <1>2 DEF Decline, disk
<1>3. CASE TakeChunk
  <2>1. Head(bulk) \in Chunk
    BY <1>3 DEF TakeChunk, ChannelTypes
  <2>2. received' \in Seq(Chunk)
    BY <1>3, <2>1 DEF TakeChunk, ChunkGap
  <2>3. unlinking' \in BOOLEAN
    BY <1>3 DEF TakeChunk, ChunkGap
  <2>4. rState' \in ReceiverState /\ reason' \in Reason /\ rPromise' \in PromiseState
    BY <1>3 DEF TakeChunk, ChunkGap
  <2> QED BY <1>3, <2>2, <2>3, <2>4 DEF TakeChunk
<1>4. CASE TakeControl
  <2>1. CASE TakeOffer
    BY <2>1 DEF TakeOffer, disk
  <2>2. CASE TakeDone
    BY <2>2 DEF TakeDone, disk
  <2>3. CASE TakePeerAbort
    BY <2>3 DEF TakePeerAbort
  <2> QED BY <1>4, <2>1, <2>2, <2>3 DEF TakeControl
<1>5. CASE Verify
  <2>1. CASE Keep
    BY <1>5, <2>1, WrittenTypes DEF Verify, Keep
  <2>2. CASE RenameFails \/ Mismatch
    BY <1>5, <2>2 DEF Verify, RenameFails, Mismatch
  <2> QED BY <1>5, <2>1, <2>2 DEF Verify
<1>6. CASE FileOpened
  BY <1>6 DEF FileOpened
<1>7. CASE StreamFails
  BY <1>7 DEF StreamFails
<1>8. CASE PartDeleted
  BY <1>8 DEF PartDeleted
<1>9. CASE WaitForDone
  BY <1>9 DEF WaitForDone, disk
<1>10. CASE UNCHANGED receiver
  BY <1>10 DEF receiver, disk
<1>11. CASE Send \/ Hashed \/ HearControl
  BY <1>10, <1>11 DEF Send, Hashed, HashFails, Offer, HearControl
<1>12. CASE Opens \/ Read \/ Buffer
  BY <1>10, <1>12 DEF Opens, Opened, OpenFails, Read, ChunkRead, EndOfFile, ReadFails, Buffer, BufferLow,
                      BackpressureTimeout
<1> QED
  BY <1>1, <1>2, <1>3, <1>4, <1>5, <1>6, <1>7, <1>8, <1>9, <1>10, <1>11, <1>12, QuietSteps
     DEF Next, Decides

\* Every variable of a transfer keeps its type (FileSender, FileReceiver); in
\* particular the sender never sends more chunks than the file had when it was
\* hashed, and never has more of them buffered than are on their way.
THEOREM TransferTypes == Spec => []TypeOK
<1> DEFINE Inv == SenderTypes /\ ReceiverTypeOK /\ ChannelTypes
<1>1. Init => Inv
  <2> SUFFICES ASSUME Init PROVE Inv
    OBVIOUS
  <2>1. {held, aborted, readFailed} \subseteq BOOLEAN
    BY Zenon DEF Init
  <2>2. {accepted, opening, part, partPath, unlinking, leaked, streamFailed} \subseteq BOOLEAN
    BY Zenon DEF Init
  <2>3. {sUp, rUp, crashed} \subseteq BOOLEAN
    BY Zenon DEF Init
  <2>4. SenderTypes
    BY <2>1, TransferAssumption
       DEF Init, SenderTypes, SenderTypeOK, LoopInBounds, SenderState, PromiseState
  <2>5. ReceiverTypeOK
    BY <2>2 DEF Init, ReceiverTypeOK, ReceiverState, PromiseState, Reason
  <2>6. ChannelTypes
    BY <2>3 DEF Init, ChannelTypes
  <2> QED BY <2>4, <2>5, <2>6
<1>2. Inv /\ TransferInv /\ [Next]_vars => Inv'
  BY SenderTypesStep, ReceiverTypesStep, ChannelTypesStep DEF TransferInv
<1>3. Inv /\ TransferInv => TypeOK
  BY DEF TransferInv, SenderTypes, ChannelTypes, Typing, ToReceiver, ToSender, TypeOK, ChannelTypeOK
<1> QED BY <1>1, <1>2, <1>3, TransferInvariant, PTL DEF Spec

=============================================================================
