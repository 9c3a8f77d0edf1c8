------------------------------- MODULE FileTransfer -------------------------------
(***************************************************************************)
(* One file from a FileSender to a FileReceiver (packages/p2p/src), over   *)
(* the two DataChannels of a session: `control', one queue per direction,  *)
(* and `bulk', for the chunks.  Each channel is in order, but nothing      *)
(* orders one against the other.                                           *)
(*                                                                         *)
(* Between two awaits a function runs without interruption; what may come  *)
(* in between (a message, the loss of the session, an abort) are actions   *)
(* of their own.  step says which await the sender is in:                  *)
(*   hashing -> listening -> opening -> reading (-> waiting) -> ... ended  *)
(* or it stays unopened.                                                   *)
(***************************************************************************)
EXTENDS Naturals, Sequences

CONSTANTS
  Chunks,          \* chunks of the file when it is hashed
  Threshold,       \* chunks in the send buffer above which the sender waits
  FileMayChange,   \* may the file change, shrink or fail after it is hashed?
  BulkMayLose      \* may a chunk be missing on the bulk channel?

ASSUME TransferAssumption ==
  /\ Chunks \in Nat /\ Threshold \in Nat
  /\ FileMayChange \in BOOLEAN /\ BulkMayLose \in BOOLEAN

VARIABLES
  sState,      \* FileSender.#state
  step,        \* the await send() or #startChunking() is in
  position,    \* chunks sent
  held,        \* the chunk that waits for the buffer: is it as it was hashed?
  aborted,     \* #aborted
  sPromise,    \* the promise of send()
  listener,    \* onRoomMessage of the sender's session
  original,    \* #originalOnRoomMessage
  readFailed,  \* history: the sender could not open or read its file
  rState,      \* FileReceiver.#state
  accepted,    \* #currentFileId is set
  received,    \* the chunks hashed so far
  reason,      \* #failReason
  rPromise,    \* #donePromise
  opening,     \* the write stream is opening its file
  part,        \* the .part file exists
  partPath,    \* #partPath is set
  unlinking,   \* a deletion of the .part file is under way
  leaked,      \* history: nothing will ever delete the .part file
  saved,       \* the file under the final name, if there is one
  streamFailed,\* history: the end of the file could not be written
  toReceiver, toSender,  \* control frames in transit
  bulk,        \* chunks in transit, the buffered ones included
  buffered,    \* bufferedAmount of the bulk channel, in chunks
  sUp, rUp,    \* the session of each side is connected
  crashed      \* the receiver's process has ended

loop     == <<step, position, held>>
sending  == <<sState, loop, aborted, sPromise, listener, original, readFailed>>
disk     == <<opening, part, partPath, unlinking, leaked, saved, streamFailed>>
receiver == <<rState, accepted, received, reason, rPromise, disk>>
bulkDc   == <<bulk, buffered>>
session  == <<sUp, rUp, crashed>>
vars     == <<sending, receiver, toReceiver, toSender, bulkDc, session>>

-----------------------------------------------------------------------------

Chunk  == [seq_num : Nat, intact : BOOLEAN]

\* The file that was hashed.
Offered == [k \in 1..Chunks |-> [seq_num |-> k - 1, intact |-> TRUE]]

SenderState   == {"idle", "awaiting_accept", "sending", "done", "failed"}
ReceiverState == {"idle", "awaiting_decision", "receiving", "verifying", "done", "failed"}
PromiseState  == {"none", "waiting", "resolved", "rejected"}
Reason == {"none", "file_too_large", "auto_rejected", "rejected", "error",
           "chunk_gap", "sha256_mismatch", "peer_aborted"}

SenderTypeOK ==
  /\ sState \in SenderState
  /\ step \in {"none", "hashing", "listening", "opening", "unopened", "reading", "waiting", "ended"}
  /\ position \in 0..Chunks
  /\ held \in BOOLEAN /\ aborted \in BOOLEAN /\ readFailed \in BOOLEAN
  /\ sPromise \in PromiseState
  /\ listener \in {"caller", "sender", "null"} /\ original \in {"caller", "null"}

ReceiverTypeOK ==
  /\ rState \in ReceiverState
  /\ received \in Seq(Chunk)
  /\ reason \in Reason
  /\ rPromise \in PromiseState
  /\ {accepted, opening, part, partPath, unlinking, leaked, streamFailed} \subseteq BOOLEAN
  /\ \A file \in saved : file \in Seq(Chunk)

ChannelTypeOK ==
  /\ toReceiver \in Seq({"offer", "done", "abort"})
  /\ toSender \in Seq({"accept", "reject", "abort"})
  /\ bulk \in Seq(Chunk)
  /\ buffered \in 0..Len(bulk)
  /\ {sUp, rUp, crashed} \subseteq BOOLEAN

TypeOK == SenderTypeOK /\ ReceiverTypeOK /\ ChannelTypeOK

Init ==
  /\ sState = "idle" /\ step = "none" /\ position = 0 /\ held = FALSE
  /\ aborted = FALSE /\ sPromise = "none" /\ readFailed = FALSE
  /\ listener = "caller" /\ original = "null"
  /\ rState = "idle" /\ accepted = FALSE /\ received = <<>> /\ reason = "none"
  /\ rPromise = "none"
  /\ opening = FALSE /\ part = FALSE /\ partPath = FALSE /\ unlinking = FALSE
  /\ leaked = FALSE /\ saved = {} /\ streamFailed = FALSE
  /\ toReceiver = <<>> /\ toSender = <<>> /\ bulk = <<>> /\ buffered = 0
  /\ sUp = TRUE /\ rUp = TRUE /\ crashed = FALSE

-----------------------------------------------------------------------------
(* FileSender: how it ends.                                                *)

\* RoomSession.send() throws unless the session is connected.
Tell(queue, up, msg) == IF up THEN Append(queue, msg) ELSE queue

Settled(promise, result) == IF promise = "waiting" THEN result ELSE promise

\* #cleanup(): the second one restores null.
Cleanup == listener' = original /\ original' = "null"

Fails ==
  /\ sState' = "failed"
  /\ Cleanup
  /\ sPromise' = Settled(sPromise, "rejected")

\* The catch block of #startChunking().
Catch == Fails /\ step' = "ended" /\ UNCHANGED <<position, held, aborted>>

\* After the last chunk, or when the file turns out to be shorter: file_done.
Finish ==
  IF sUp
  THEN /\ toReceiver' = Append(toReceiver, "done")
       /\ sState' = "done"
       /\ Cleanup
       /\ sPromise' = Settled(sPromise, "resolved")
       /\ step' = "ended"
       /\ UNCHANGED <<held, aborted>>
  ELSE Fails /\ step' = "ended" /\ UNCHANGED <<held, aborted, toReceiver>>

\* The head of the loop, with n chunks sent.
Continue(n) ==
  /\ position' = n
  /\ \/ /\ n < Chunks /\ aborted
        /\ Fails
        /\ step' = "ended" /\ UNCHANGED <<held, aborted, toReceiver>>
     \/ /\ n < Chunks /\ ~aborted
        /\ step' = "reading"
        /\ UNCHANGED <<sState, held, aborted, sPromise, listener, original, toReceiver>>
     \/ n >= Chunks /\ Finish

-----------------------------------------------------------------------------
(* FileSender: send() and #startChunking().                                *)

Send ==
  /\ sState = "idle"
  /\ sState' = "awaiting_accept"
  /\ step' = "hashing"
  /\ sPromise' = "waiting"
  /\ UNCHANGED <<position, held, aborted, listener, original, readFailed,
                 receiver, toReceiver, toSender, bulkDc, session>>

\* The file cannot be read: nothing has been wrapped yet.
HashFails ==
  /\ step = "hashing"
  /\ Catch
  /\ UNCHANGED <<readFailed, receiver, toReceiver, toSender, bulkDc, session>>

\* onRoomMessage is wrapped and the offer sent.
Offer ==
  /\ step = "hashing"
  /\ IF sUp
     THEN /\ original' = listener
          /\ listener' = "sender"
          /\ toReceiver' = Append(toReceiver, "offer")
          /\ step' = "listening"
          /\ UNCHANGED <<sState, sPromise>>
     ELSE /\ sState' = "failed"
          /\ sPromise' = Settled(sPromise, "rejected")
          /\ step' = "ended"
          /\ UNCHANGED <<listener, original, toReceiver>>
  /\ UNCHANGED <<position, held, aborted, readFailed, receiver, toSender, bulkDc, session>>

\* Mutant of TakeAbort: the loop is told, the caller is not.
TakeAbortQuietly ==
  /\ aborted' = TRUE
  /\ UNCHANGED <<sState, loop, sPromise, listener, original>>

\* #handleMessage(): file_abort in any state, the answers only while awaited.
TakeAbort ==
  /\ aborted' = TRUE
  /\ Fails
  /\ UNCHANGED loop

TakeAnswer(msg) ==
  /\ IF msg = "accept"
     THEN /\ sState' = "sending" /\ step' = "opening"
          /\ UNCHANGED <<sPromise, listener, original>>
     ELSE Fails /\ step' = "ended"
  /\ UNCHANGED <<position, held, aborted>>

HearControl ==
  /\ sUp /\ toSender # <<>>
  /\ toSender' = Tail(toSender)
  /\ \/ listener = "sender" /\ Head(toSender) = "abort" /\ TakeAbort
     \/ /\ listener = "sender" /\ Head(toSender) # "abort" /\ sState = "awaiting_accept"
        /\ TakeAnswer(Head(toSender))
     \/ /\ listener # "sender" \/ (Head(toSender) # "abort" /\ sState # "awaiting_accept")
        /\ UNCHANGED <<sState, loop, aborted, sPromise, listener, original>>
  /\ UNCHANGED <<readFailed, receiver, toReceiver, bulkDc, session>>

Opened ==
  /\ step = "opening"
  /\ Continue(0)
  /\ UNCHANGED <<readFailed, receiver, toSender, bulkDc, session>>

\* open() is called before the try block: nobody catches what it throws, and
\* that ends the process unless its host takes unhandled rejections.
OpenFails ==
  /\ FileMayChange /\ step = "opening"
  /\ step' = "unopened"
  /\ readFailed' = TRUE
  /\ sUp' \in {sUp, FALSE}
  /\ UNCHANGED <<sState, position, held, aborted, sPromise, listener, original,
                 receiver, toReceiver, toSender, bulkDc, rUp, crashed>>

SendMessageBinaryBulk(intact) ==
  /\ bulk' = Append(bulk, [seq_num |-> position, intact |-> intact])
  /\ buffered' = buffered + 1

\* sendBulk(), which throws unless the session is connected, and the next
\* round of the loop.
PutChunk(intact) ==
  IF sUp
  THEN SendMessageBinaryBulk(intact) /\ Continue(position + 1)
  ELSE Catch /\ UNCHANGED <<bulk, buffered, toReceiver>>

\* A chunk has been read; sendBulkWithBackpressure() sends it or waits.
ChunkRead ==
  /\ step = "reading"
  /\ \E intact \in {TRUE} \cup {~FileMayChange} :
       \/ buffered <= Threshold /\ PutChunk(intact)
       \/ /\ buffered > Threshold
          /\ step' = "waiting" /\ held' = intact
          /\ UNCHANGED <<sState, position, aborted, sPromise, listener, original,
                         bulk, buffered, toReceiver>>
  /\ UNCHANGED <<readFailed, receiver, toSender, session>>

EndOfFile ==
  /\ FileMayChange /\ step = "reading"
  /\ Finish
  /\ UNCHANGED <<position, readFailed, receiver, toSender, bulkDc, session>>

\* No file_abort for this one.
ReadFails ==
  /\ FileMayChange /\ step = "reading"
  /\ Catch
  /\ readFailed' = TRUE
  /\ UNCHANGED <<receiver, toReceiver, toSender, bulkDc, session>>

\* onBufferedAmountLow, at the channel's default threshold of 0.
BufferLow ==
  /\ step = "waiting" /\ buffered = 0
  /\ PutChunk(held)
  /\ UNCHANGED <<readFailed, receiver, toSender, session>>

\* Mutants of BackpressureTimeout: no timer; no file_abort.
NoTimeout == FALSE /\ UNCHANGED vars

TimeoutUntold ==
  /\ step = "waiting"
  /\ Catch
  /\ UNCHANGED <<readFailed, receiver, toReceiver, toSender, bulkDc, session>>

BackpressureTimeout ==
  /\ step = "waiting"
  /\ Catch
  /\ toReceiver' = Tell(toReceiver, sUp, "abort")
  /\ UNCHANGED <<readFailed, receiver, toSender, bulkDc, session>>

-----------------------------------------------------------------------------
(* FileReceiver: the offer.                                                *)

Ends(why) == rState' = "failed" /\ reason' = why

\* An exception that nobody catches ends the process.
Crash == crashed' = TRUE /\ rUp' = FALSE /\ UNCHANGED sUp

\* A file above 500 MiB is rejected; without onFileOffer every file is, and
\* nobody tells waitForDone(); else the caller is asked.
TakeOffer ==
  /\ rState = "idle"
  /\ \/ /\ Ends("file_too_large")
        /\ rPromise' = Settled(rPromise, "rejected")
        /\ toSender' = Append(toSender, "reject")
     \/ /\ Ends("auto_rejected")
        /\ toSender' = Append(toSender, "reject")
        /\ UNCHANGED rPromise
     \/ /\ rState' = "awaiting_decision"
        /\ UNCHANGED <<reason, rPromise, toSender>>
  /\ UNCHANGED <<accepted, received, disk>>

\* The write stream starts to open its file; the accept may be unsendable.
Accept ==
  /\ rState = "awaiting_decision" /\ ~crashed
  /\ accepted' = TRUE
  /\ opening' = TRUE
  /\ partPath' = TRUE
  /\ toSender' = Tell(toSender, rUp, "accept")
  /\ IF rUp
     THEN rState' = "receiving" /\ UNCHANGED <<reason, rPromise, leaked>>
     ELSE Ends("error") /\ rPromise' = Settled(rPromise, "rejected") /\ leaked' = TRUE
  /\ UNCHANGED <<received, part, unlinking, saved, streamFailed,
                 sending, toReceiver, bulkDc, session>>

\* onFileOffer declines, or throws, and then the sender hears nothing.
Decline(why) ==
  /\ rState = "awaiting_decision" /\ ~crashed
  /\ Ends(IF rUp THEN why ELSE "error")
  /\ rPromise' = Settled(rPromise, "rejected")
  /\ toSender' = Tell(toSender, rUp /\ why = "rejected", "reject")
  /\ UNCHANGED <<accepted, received, disk, sending, toReceiver, bulkDc, session>>

-----------------------------------------------------------------------------
(* FileReceiver: chunks, file_done, file_abort.                            *)

\* Mutant of ChunkGap: the .part file is forgotten.
ChunkGapKeepsPart ==
  /\ Ends("chunk_gap")
  /\ rPromise' = Settled(rPromise, "rejected")
  /\ toSender' = Append(toSender, "abort")
  /\ UNCHANGED <<received, unlinking>>

ChunkGap ==
  /\ Ends("chunk_gap")
  /\ rPromise' = Settled(rPromise, "rejected")
  /\ toSender' = Append(toSender, "abort")
  /\ unlinking' = TRUE
  /\ UNCHANGED received

TakeChunk ==
  LET chunk == Head(bulk) IN
  /\ rUp /\ Len(bulk) > buffered
  /\ bulk' = Tail(bulk)
  /\ \/ /\ rState = "receiving" /\ chunk.seq_num = Len(received)
        /\ received' = Append(received, chunk)
        /\ UNCHANGED <<rState, reason, rPromise, unlinking, toSender>>
     \/ /\ rState = "receiving" /\ chunk.seq_num # Len(received)
        /\ ChunkGap
     \/ /\ rState # "receiving"
        /\ UNCHANGED <<received, rState, reason, rPromise, unlinking, toSender>>
  /\ UNCHANGED <<accepted, opening, part, partPath, leaked, saved, streamFailed,
                 sending, toReceiver, buffered, session>>

TakeDone ==
  /\ rState' = IF rState = "receiving" THEN "verifying" ELSE rState
  /\ UNCHANGED <<accepted, received, reason, rPromise, disk, toSender>>

\* #handleFileAbort(), in whatever state.
TakePeerAbort ==
  /\ IF accepted
     THEN /\ Ends("peer_aborted")
          /\ unlinking' = (unlinking \/ partPath)
          /\ rPromise' = IF partPath THEN rPromise ELSE Settled(rPromise, "rejected")
     ELSE UNCHANGED <<rState, reason, unlinking, rPromise>>
  /\ UNCHANGED <<accepted, received, opening, part, partPath, leaked, saved, streamFailed, toSender>>

TakeControl ==
  /\ rUp /\ toReceiver # <<>>
  /\ toReceiver' = Tail(toReceiver)
  /\ \/ Head(toReceiver) = "offer" /\ TakeOffer
     \/ Head(toReceiver) = "done" /\ TakeDone
     \/ Head(toReceiver) = "abort" /\ TakePeerAbort
  /\ UNCHANGED <<sending, bulkDc, session>>

\* Mutant of Matches: the size is compared, not the hash.
MatchesSize == Len(received) = Chunks

Matches == received = Offered

\* What the .part file holds: what was received, or less if writing failed.
Written ==
  {SubSeq(received, 1, n) : n \in IF streamFailed THEN 0 .. Len(received) ELSE {Len(received)}}

\* The hash of what was received is the offered one: the .part file is renamed.
Keep ==
  /\ Matches /\ part
  /\ \E file \in Written : saved' = {file}
  /\ part' = FALSE
  /\ rState' = "done"
  /\ rPromise' = Settled(rPromise, "resolved")
  /\ UNCHANGED <<reason, unlinking, toSender, session>>

\* The file was never created, and nobody catches what rename() throws.
RenameFails ==
  /\ Matches /\ ~part
  /\ Crash
  /\ UNCHANGED <<saved, part, rState, rPromise, reason, unlinking, toSender>>

Mismatch ==
  /\ ~Matches
  /\ Ends("sha256_mismatch")
  /\ toSender' = Tell(toSender, rUp, "abort")
  /\ unlinking' = TRUE
  /\ UNCHANGED <<saved, part, rPromise, session>>

\* The stream has ended: its file was opened, everything is written, or it
\* failed.  Then the hashes are compared.
Verify ==
  /\ rState = "verifying" /\ ~opening /\ ~crashed
  /\ Keep \/ RenameFails \/ Mismatch
  /\ UNCHANGED <<accepted, received, opening, partPath, leaked, streamFailed,
                 sending, toReceiver, bulkDc>>

-----------------------------------------------------------------------------
(* FileReceiver: the disk, waitForDone().                                  *)

FileOpened ==
  /\ opening /\ ~crashed
  /\ opening' = FALSE
  /\ part' = TRUE
  /\ leaked' = (leaked \/ (rState = "failed" /\ ~unlinking))
  /\ UNCHANGED <<rState, accepted, received, reason, rPromise, partPath, unlinking, saved,
                 streamFailed, sending, toReceiver, toSender, bulkDc, session>>

\* The file cannot be opened or written.  Before file_done the 'error' event has
\* no listener; after it the error calls the callback of end(), which resolves
\* before the listener can reject.  Once the hashes are compared the stream has
\* ended.
StreamFails ==
  /\ opening \/ part
  /\ ~crashed
  /\ \/ /\ rState # "verifying" /\ reason # "sha256_mismatch"
        /\ Crash /\ UNCHANGED <<opening, streamFailed>>
     \/ rState = "verifying" /\ streamFailed' = TRUE /\ opening' = FALSE /\ UNCHANGED session
  /\ UNCHANGED <<rState, accepted, received, reason, rPromise, part, partPath, unlinking, leaked,
                 saved, sending, toReceiver, toSender, bulkDc>>

\* Mutant of PartDeleted: the promise is forgotten.
PartDeletedQuietly ==
  /\ unlinking /\ ~crashed
  /\ unlinking' = FALSE /\ partPath' = FALSE /\ part' = FALSE
  /\ UNCHANGED <<rState, accepted, received, reason, rPromise, opening, leaked, saved,
                 streamFailed, sending, toReceiver, toSender, bulkDc, session>>

\* The unlink has run, on a file that need not exist yet.
PartDeleted ==
  /\ unlinking /\ ~crashed
  /\ unlinking' = FALSE /\ partPath' = FALSE /\ part' = FALSE
  /\ rPromise' = Settled(rPromise, "rejected")
  /\ UNCHANGED <<rState, accepted, received, reason, opening, leaked, saved,
                 streamFailed, sending, toReceiver, toSender, bulkDc, session>>

WaitForDone ==
  /\ rPromise = "none" /\ ~crashed
  /\ rPromise' = CASE rState = "done"   -> "resolved"
                   [] rState = "failed" -> "rejected"
                   [] OTHER             -> "waiting"
  /\ UNCHANGED <<rState, accepted, received, reason, disk,
                 sending, toReceiver, toSender, bulkDc, session>>

-----------------------------------------------------------------------------
(* The channels and the sessions.                                          *)

Flush ==
  /\ sUp /\ buffered > 0
  /\ buffered' = buffered - 1
  /\ UNCHANGED <<sending, receiver, toReceiver, toSender, bulk, session>>

Lose ==
  /\ BulkMayLose /\ Len(bulk) > buffered
  /\ bulk' = Tail(bulk)
  /\ UNCHANGED <<sending, receiver, toReceiver, toSender, buffered, session>>

SessionLost ==
  /\ \/ sUp /\ sUp' = FALSE /\ UNCHANGED rUp
     \/ rUp /\ rUp' = FALSE /\ UNCHANGED sUp
  /\ UNCHANGED <<crashed, sending, receiver, toReceiver, toSender, bulkDc>>

-----------------------------------------------------------------------------

Hashed  == HashFails \/ Offer
Opens   == Opened \/ OpenFails
Read    == ChunkRead \/ EndOfFile \/ ReadFails
Buffer  == BufferLow \/ BackpressureTimeout
Decides == Accept \/ Decline("rejected") \/ Decline("error")

Next ==
  \/ Send \/ Hashed \/ HearControl \/ Opens \/ Read \/ Buffer
  \/ Decides \/ TakeChunk \/ TakeControl \/ Verify
  \/ FileOpened \/ StreamFails \/ PartDeleted \/ WaitForDone
  \/ Flush \/ Lose \/ SessionLost

Spec == Init /\ [][Next]_vars

\* File operations and timers end, and what is in transit to a connected
\* session arrives.  Nobody has to answer an offer.
Fairness ==
  /\ WF_vars(Hashed) /\ WF_vars(HearControl) /\ WF_vars(Opens) /\ WF_vars(Read)
  /\ WF_vars(Buffer) /\ WF_vars(TakeChunk) /\ WF_vars(TakeControl) /\ WF_vars(Verify)
  /\ WF_vars(FileOpened) /\ WF_vars(PartDeleted) /\ WF_vars(Flush)

FairSpec == Spec /\ Fairness

=============================================================================
