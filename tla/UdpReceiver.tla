----------------------------- MODULE UdpReceiver -----------------------------
(***************************************************************************)
(* UDPReceiver (internal/broadcast/udp_broadcast.go): receiveLoop, the     *)
(* goroutine it starts for each read, which fills a buffer the two share,  *)
(* and the callers of SetMessageHandler, Start and Close.                  *)
(*                                                                         *)
(* The network puts datagrams in the socket's receive buffer, the context  *)
(* is cancelled at any time, and a read may fail while the socket is open. *)
(* The receiver is started once and closed once.                           *)
(*                                                                         *)
(* The definitions named M_... are the one that follows them with a bug in *)
(* it: they are there to see that each property below can fail.            *)
(***************************************************************************)
EXTENDS Naturals, Sequences, SequencesExt, Bags

CONSTANTS
    Datagrams,   \* contents of datagrams
    NoData,      \* what the buffer holds before the first read
    MaxArrivals, \* datagrams that arrive (bound)
    MaxErrors    \* reads that fail while the socket is open (bound)

ASSUME UdpAssumption ==
    /\ NoData \notin Datagrams
    /\ MaxArrivals \in Nat
    /\ MaxErrors \in Nat

VARIABLES
    socket,      \* receive buffer of the socket
    connOpen,
    errors,      \* reads that have failed
    ctxDone,     \* the context given to Start is cancelled
    doneClosed,  \* r.done is closed
    mu,          \* r.mu: "free", or "close" while Close holds it
    handlerSet,  \* r.handler # nil
    loop,        \* where receiveLoop is; "off" before Start
    data,        \* its copy of the datagram
    reader,      \* the reading goroutine: "none", "reading", "sending"
    readErr,     \* the error in the result it sends
    buffer,      \* what it reads into; result.data is a slice of it
    closer,      \* where the caller of Close is
    arrived,     \* history: bag of the datagrams that reached the socket
    handled      \* history: bag of what handlers were called with

netVars    == <<socket, errors, arrived>>
readerVars == <<reader, readErr, buffer>>
closeVars  == <<doneClosed, mu, closer, connOpen>>
vars == <<socket, connOpen, errors, ctxDone, doneClosed, mu, handlerSet, loop, data, reader,
          readErr, buffer, closer, arrived, handled>>

Init ==
    /\ socket = <<>>
    /\ connOpen = TRUE
    /\ errors = 0
    /\ ctxDone = FALSE
    /\ doneClosed = FALSE
    /\ mu = "free"
    /\ handlerSet = FALSE
    /\ loop = "off"
    /\ data = NoData
    /\ reader = "none"
    /\ readErr = FALSE
    /\ buffer = NoData
    /\ closer = "idle"
    /\ arrived = EmptyBag
    /\ handled = EmptyBag

-----------------------------------------------------------------------------
(* The surroundings.                                                         *)

Arrive(d) ==
    /\ connOpen
    /\ BagCardinality(arrived) < MaxArrivals
    /\ socket' = Append(socket, d)
    /\ arrived' = arrived (+) SetToBag({d})
    /\ UNCHANGED <<errors, ctxDone, handlerSet, loop, data, readerVars, closeVars, handled>>

Cancel ==
    /\ ~ctxDone
    /\ ctxDone' = TRUE
    /\ UNCHANGED <<netVars, handlerSet, loop, data, readerVars, closeVars, handled>>

SetMessageHandler ==
    /\ mu = "free"
    /\ ~handlerSet
    /\ handlerSet' = TRUE
    /\ UNCHANGED <<netVars, ctxDone, loop, data, readerVars, closeVars, handled>>

\* Without a handler it returns an error.
Start ==
    /\ mu = "free"
    /\ handlerSet
    /\ loop = "off"
    /\ loop' = "spawn"
    /\ UNCHANGED <<netVars, ctxDone, handlerSet, data, readerVars, closeVars, handled>>

-----------------------------------------------------------------------------
(* The goroutine that reads.                                                 *)

Read ==
    /\ reader = "reading"
    /\ connOpen
    /\ socket # <<>>
    /\ buffer' = Head(socket)
    /\ socket' = Tail(socket)
    /\ readErr' = FALSE
    /\ reader' = "sending"
    /\ UNCHANGED <<errors, arrived, ctxDone, handlerSet, loop, data, closeVars, handled>>

ReadFails ==
    /\ reader = "reading"
    /\ connOpen => errors < MaxErrors
    /\ errors' = IF connOpen THEN errors + 1 ELSE errors
    /\ readErr' = TRUE
    /\ reader' = "sending"
    /\ UNCHANGED <<socket, arrived, ctxDone, handlerSet, loop, data, buffer, closeVars, handled>>

-----------------------------------------------------------------------------
(* receiveLoop.                                                              *)

SpawnReader ==
    /\ loop = "spawn"
    /\ loop' = "select"
    /\ reader' = "reading"
    /\ UNCHANGED <<netVars, ctxDone, handlerSet, data, readErr, buffer, closeVars, handled>>

\* A reader left behind stays blocked on its read, or on the channel.
SelectDone ==
    /\ loop = "select"
    /\ ctxDone \/ doneClosed
    /\ loop' = "exited"
    /\ UNCHANGED <<netVars, ctxDone, handlerSet, data, readerVars, closeVars, handled>>

\* Where the loop goes after an error; or if any error ended it, or none was looked at.
M_AfterErrorExit == "exited"
M_AfterErrorCopy == "copy"
AfterError == IF doneClosed THEN "exited" ELSE "spawn"

SelectError ==
    /\ loop = "select"
    /\ reader = "sending" /\ readErr
    /\ loop' = AfterError
    /\ reader' = "none"
    /\ UNCHANGED <<netVars, ctxDone, handlerSet, data, readErr, buffer, closeVars, handled>>

\* The reader has ended; or the next one is started before this one's result is copied.
M_ReaderAfterAhead == "reading"
ReaderAfter == "none"

SelectData ==
    /\ loop = "select"
    /\ reader = "sending" /\ ~readErr
    /\ loop' = "copy"
    /\ reader' = ReaderAfter
    /\ UNCHANGED <<netVars, ctxDone, handlerSet, data, readErr, buffer, closeVars, handled>>

CopyData ==
    /\ loop = "copy"
    /\ data' = buffer
    /\ loop' = "lock"
    /\ UNCHANGED <<netVars, ctxDone, handlerSet, readerVars, closeVars, handled>>

\* The handler is read under the lock, and called in a goroutine of its own.
Dispatch ==
    /\ loop = "lock"
    /\ mu = "free"
    /\ handled' = IF handlerSet THEN handled (+) SetToBag({data}) ELSE handled
    /\ loop' = "spawn"
    /\ UNCHANGED <<netVars, ctxDone, handlerSet, data, readerVars, closeVars>>

-----------------------------------------------------------------------------
(* Close.                                                                    *)

CloseDone ==
    /\ closer = "idle"
    /\ doneClosed' = TRUE
    /\ closer' = "lock"
    /\ UNCHANGED <<netVars, ctxDone, handlerSet, loop, data, readerVars, mu, connOpen, handled>>

CloseConn ==
    /\ closer = "lock"
    /\ mu = "free"
    /\ mu' = "close"
    /\ connOpen' = FALSE
    /\ closer' = "wait"
    /\ UNCHANGED <<netVars, ctxDone, handlerSet, loop, data, readerVars, doneClosed, handled>>

\* What wg.Wait waits for; or nothing.
M_LoopGoneAlways == TRUE
LoopGone == loop \in {"off", "exited"}

\* wg.Wait, with the lock held.
CloseReturn ==
    /\ closer = "wait"
    /\ LoopGone
    /\ mu' = "free"
    /\ closer' = "returned"
    /\ UNCHANGED <<netVars, ctxDone, handlerSet, loop, data, readerVars, doneClosed, connOpen,
                   handled>>

-----------------------------------------------------------------------------
receiveLoop ==
    SpawnReader \/ SelectDone \/ SelectError \/ SelectData \/ CopyData \/ Dispatch

Close == CloseDone \/ CloseConn \/ CloseReturn

Next ==
    \/ \E d \in Datagrams : Arrive(d)
    \/ Cancel \/ SetMessageHandler \/ Start
    \/ Read \/ ReadFails
    \/ receiveLoop
    \/ Close

Spec == Init /\ [][Next]_vars

\* Goroutines that can run do run.  Nothing makes a datagram arrive, a read fail, or
\* the application call Start or Close.
Fairness ==
    /\ WF_vars(receiveLoop) /\ WF_vars(Read)
    /\ WF_vars(ReadFails /\ ~connOpen)
    /\ WF_vars(CloseConn) /\ WF_vars(CloseReturn)

FairSpec == Spec /\ Fairness

-----------------------------------------------------------------------------
(* Properties.                                                               *)

\* What each variable may hold; a handler is never given what no read filled.
TypeOK ==
    /\ socket \in Seq(Datagrams)
    /\ connOpen \in BOOLEAN /\ ctxDone \in BOOLEAN /\ doneClosed \in BOOLEAN
    /\ handlerSet \in BOOLEAN /\ readErr \in BOOLEAN
    /\ errors \in 0..MaxErrors
    /\ mu \in {"free", "close"}
    /\ loop \in {"off", "spawn", "select", "copy", "lock", "exited"}
    /\ reader \in {"none", "reading", "sending"}
    /\ data \in Datagrams \union {NoData} /\ buffer \in Datagrams \union {NoData}
    /\ loop = "lock" => data \in Datagrams
    /\ closer \in {"idle", "lock", "wait", "returned"}
    /\ BagToSet(arrived) \subseteq Datagrams

\* Datagrams in the buffer the goroutines share, and in the loop's copy of it.
InBuffer == IF loop = "copy" \/ (reader = "sending" /\ ~readErr)
            THEN SetToBag({buffer}) ELSE EmptyBag
InCopy == IF loop = "lock" THEN SetToBag({data}) ELSE EmptyBag

\* Every datagram that arrived is in one place: the socket, the shared buffer, the
\* loop's copy, or a handler's hands.  None is lost, handled twice or overwritten by the
\* next read, through reads that fail and readers left behind.
EachDatagramOnce == handled (+) InCopy (+) InBuffer (+) ToBag(socket) = arrived

\* The loop calls no handler once Close has returned.  A call is its go statement: a
\* handler that was started before may still be running.
NoCallAfterClose == [][closer = "returned" => handled' = handled]_vars

\* A started receiver takes what is in its socket, through reads that fail, until its
\* context is cancelled or it is closed.
SocketDrained ==
    socket # <<>> /\ loop # "off" ~> socket = <<>> \/ ctxDone \/ doneClosed

\* Close shuts the receiver down: it comes back, and then the loop is gone.
CloseReturns == closer = "lock" ~> closer = "returned" /\ loop \in {"off", "exited"}
=============================================================================
