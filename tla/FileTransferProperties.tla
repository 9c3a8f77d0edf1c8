-------------------------- MODULE FileTransferProperties --------------------------
(***************************************************************************)
(* What makes a file transfer correct, and what the documentation          *)
(* (.telos/decisions/datachannel-*.md) promises of it.                     *)
(***************************************************************************)
EXTENDS FileTransfer

-----------------------------------------------------------------------------

\* When the receiver is done, send() has resolved, and the file that was
\* offered stands under the final name unless the end of it could not be
\* written: no abort, timeout or lost session has made the sender report a
\* failure of a transfer that succeeds, or the receiver accept another file.
SuccessIsMutual ==
  rState = "done" => sPromise = "resolved" /\ (saved = {Offered} \/ streamFailed)

\* A sender that has heard file_abort never reports success, in whichever
\* await of the loop the abort arrived, the last chunk's included.
AbortMeansRejected == aborted => sPromise = "rejected"

\* Once accepted, send() is settled: by the end of the file, a read error, an
\* abort, the backpressure timeout or the loss of the session.  Except that
\* nobody takes the error of the open() before the first chunk: then the promise
\* is left pending, unless file_abort still comes.
SendingEnds ==
  sState = "sending" ~> (sPromise \in {"resolved", "rejected"} \/ step = "unopened")

\* A receiver does not wait for chunks for ever while both sides are
\* connected, unless the sender cannot open or read its file.
ReceivingEnds ==
  rState = "receiving" ~> (rState \in {"done", "failed"} \/ ~sUp \/ ~rUp \/ readFailed)

\* A failed transfer leaves no .part file behind, unless the deletion ran
\* before the file was opened, the accept could not be sent, or the process
\* ended by an error of the write stream.
PartRemoved == (rState = "failed" /\ part) ~> (~part \/ leaked \/ crashed)

\* waitForDone() is settled when the transfer is over, but for a receiver that
\* rejects because it has no onFileOffer, and unless its process has ended.
WaitSettles ==
  (rPromise = "waiting" /\ rState \in {"done", "failed"} /\ reason # "auto_rejected")
    ~> (rPromise \in {"resolved", "rejected"} \/ crashed)

-----------------------------------------------------------------------------
(* Promises of the documentation that the code does not keep.              *)

\* datachannel-negotiation-two-channels.md: control and bulk need no
\* synchronisation.  A file that did not change is not found corrupt.
NoSpuriousMismatch == ~(FileMayChange \/ BulkMayLose) => reason # "sha256_mismatch"

=============================================================================
