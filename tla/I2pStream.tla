------------------------------ MODULE I2pStream ------------------------------
(***************************************************************************)
(* A stream to another destination as tokio sees it (I2pStream in          *)
(* i2p-embed/src/lib.rs): poll_read, poll_write and poll_flush run on the  *)
(* tasks that use it, on_read and on_sent on the router's threads, and a   *)
(* wake-up is all that joins them.  A task may also be polled with nothing *)
(* to wake it.                                                             *)
(***************************************************************************)
EXTENDS Naturals, Sequences

CONSTANTS ReadBuf,          \* READ_BUF
          MaxSendsInFlight,
          MaxBytes,         \* bound on what the peer sends
          MaxWrites         \* bound on what the writer sends

ASSUME StreamAssumption == {ReadBuf, MaxSendsInFlight, MaxBytes, MaxWrites} \subseteq Nat \ {0}

VARIABLES arrived,    \* bytes of the peer at the router, and not read yet
          peer,       \* how many it sent, and whether it closed
          read,       \* ReadState
          reader,     \* the reading task
          handedOut,  \* what poll_read handed out
          write,      \* WriteState
          writer      \* the writing task

streamVars == <<arrived, peer, read, reader, handedOut, write, writer>>

StreamInit ==
    /\ arrived = <<>> /\ peer = [sent |-> 0, closed |-> FALSE]
    /\ read = [buf |-> <<>>, inFlight |-> FALSE, done |-> FALSE, waker |-> FALSE]
    /\ reader = "runnable" /\ handedOut = <<>>
    /\ write = [inFlight |-> 0, error |-> FALSE, waker |-> FALSE]
    /\ writer = [pc |-> "runnable", left |-> MaxWrites]

\* issue_read, unless one is under way, with the waker left for its callback.
Asking == [read EXCEPT !.waker = TRUE, !.inFlight = TRUE]

\* poll_read: hand out what is there, report the end, or wait for a read.
PollRead(room) ==
    /\ reader # "ended"
    /\ CASE read.buf # <<>> ->
              LET n == IF Len(read.buf) < room THEN Len(read.buf) ELSE room
              IN  /\ handedOut' = handedOut \o SubSeq(read.buf, 1, n)
                  /\ read' = [read EXCEPT !.buf = SubSeq(@, n + 1, Len(@))]
                  /\ reader' = "runnable"
         [] read.buf = <<>> /\ read.done ->
              reader' = "ended" /\ UNCHANGED <<read, handedOut>>
         [] OTHER ->
              /\ read' = Asking
              /\ reader' = "waiting"
              /\ UNCHANGED handedOut
    /\ UNCHANGED <<arrived, peer, write, writer>>

Woken == IF read.waker THEN "runnable" ELSE reader

\* on_read with bytes.
OnRead(n) ==
    /\ read.inFlight /\ n <= Len(arrived)
    /\ read' = [read EXCEPT !.buf = SubSeq(arrived, 1, n), !.inFlight = FALSE, !.waker = FALSE]
    /\ arrived' = SubSeq(arrived, n + 1, Len(arrived))
    /\ reader' = Woken
    /\ UNCHANGED <<peer, handedOut, write, writer>>

\* on_read after READ_WAIT_SECS without data: the next poll asks again.
OnReadTimeoutMutant ==
    /\ read.inFlight
    /\ read' = [read EXCEPT !.inFlight = FALSE]
    /\ UNCHANGED <<arrived, peer, reader, handedOut, write, writer>>
OnReadTimeout ==
    /\ read.inFlight /\ arrived = <<>>
    /\ read' = [read EXCEPT !.inFlight = FALSE, !.waker = FALSE]
    /\ reader' = Woken
    /\ UNCHANGED <<arrived, peer, handedOut, write, writer>>

\* on_read at the end of the stream.
OnReadEnd ==
    /\ read.inFlight /\ peer.closed /\ arrived = <<>>
    /\ read' = [read EXCEPT !.inFlight = FALSE, !.done = TRUE, !.waker = FALSE]
    /\ reader' = Woken
    /\ UNCHANGED <<arrived, peer, handedOut, write, writer>>

PeerSends ==
    /\ ~peer.closed /\ peer.sent < MaxBytes
    /\ peer' = [peer EXCEPT !.sent = @ + 1]
    /\ arrived' = Append(arrived, peer.sent + 1)
    /\ UNCHANGED <<read, reader, handedOut, write, writer>>

PeerCloses ==
    /\ ~peer.closed
    /\ peer' = [peer EXCEPT !.closed = TRUE]
    /\ UNCHANGED <<arrived, read, reader, handedOut, write, writer>>

-----------------------------------------------------------------------------

\* poll_write while there is something to write, then poll_flush.
PollWrite ==
    /\ writer.left > 0 /\ writer.pc # "ended"
    /\ IF write.error
       THEN writer' = [writer EXCEPT !.pc = "ended"] /\ UNCHANGED write
       ELSE IF write.inFlight >= MaxSendsInFlight
            THEN /\ write' = [write EXCEPT !.waker = TRUE]
                 /\ writer' = [writer EXCEPT !.pc = "waiting"]
            ELSE /\ write' = [write EXCEPT !.inFlight = @ + 1]
                 /\ writer' = [writer EXCEPT !.left = @ - 1, !.pc = "runnable"]
    /\ UNCHANGED <<arrived, peer, read, reader, handedOut>>

PollFlush ==
    /\ writer.left = 0 /\ writer.pc # "ended"
    /\ IF write.error \/ write.inFlight = 0
       THEN writer' = [writer EXCEPT !.pc = "ended"] /\ UNCHANGED write
       ELSE /\ write' = [write EXCEPT !.waker = TRUE]
            /\ writer' = [writer EXCEPT !.pc = "waiting"]
    /\ UNCHANGED <<arrived, peer, read, reader, handedOut>>

\* on_sent
OnSent(failed) ==
    /\ write.inFlight > 0
    /\ write' = [inFlight |-> write.inFlight - 1, error |-> write.error \/ failed, waker |-> FALSE]
    /\ writer' = IF write.waker THEN [writer EXCEPT !.pc = "runnable"] ELSE writer
    /\ UNCHANGED <<arrived, peer, read, reader, handedOut>>

StreamNext ==
    \/ \E n \in 1 .. ReadBuf : PollRead(n) \/ OnRead(n)
    \/ OnReadTimeout \/ OnReadEnd \/ PeerSends \/ PeerCloses
    \/ PollWrite \/ PollFlush
    \/ \E failed \in BOOLEAN : OnSent(failed)

\* A task that was woken is polled; the router ends what it was asked to do.
StreamSpec ==
    /\ StreamInit /\ [][StreamNext]_streamVars
    /\ WF_streamVars(reader = "runnable" /\ \E n \in 1 .. ReadBuf : PollRead(n))
    /\ WF_streamVars(\E n \in 1 .. ReadBuf : OnRead(n)) /\ WF_streamVars(OnReadEnd)
    /\ WF_streamVars(writer.pc = "runnable" /\ (PollWrite \/ PollFlush))
    /\ WF_streamVars(\E failed \in BOOLEAN : OnSent(failed))

-----------------------------------------------------------------------------

\* Whatever the sizes of reads and the order of callbacks and polls, the
\* reader gets the peer's bytes in order, none twice, none skipped.
BytesInOrder == handedOut = [i \in 1 .. Len(handedOut) |-> i]

\* No wake-up is lost: the reader gets every byte that arrived, and the writer
\* gets through.
StreamDrains == []<>(Len(handedOut) = peer.sent /\ writer.pc = "ended")
==============================================================================
