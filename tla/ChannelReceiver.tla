--------------------------- MODULE ChannelReceiver ---------------------------
(***************************************************************************)
(* ChannelReceiver (internal/broadcast/channel_receiver.go) over the       *)
(* UDPReceiver of module UdpReceiver, whose variables and steps are all    *)
(* here: the handler it sets, one goroutine of which runs for every        *)
(* datagram, the buffered channel they send on, and the application that   *)
(* ranges over the channel.                                                *)
(***************************************************************************)
EXTENDS UdpReceiver

CONSTANT BufferSize   \* capacity of the channel

ASSUME ChannelAssumption == BufferSize \in Nat \ {0}

VARIABLES
    sending,    \* bag of the data that handler goroutines hold
    messages,   \* the channel's buffer
    chanOpen,
    consumer,   \* "range", or "ended" when the application's loop is over
    panicked,   \* a goroutine has panicked: the program is gone
    received,   \* history: bag of what the application received
    dropped     \* history: bag of what the handler dropped

channelVars == <<messages, chanOpen, consumer, panicked, received, dropped>>
cvars == <<vars, sending, channelVars>>

CInit ==
    /\ Init
    /\ sending = EmptyBag
    /\ messages = <<>>
    /\ chanOpen = TRUE
    /\ consumer = "range"
    /\ panicked = FALSE
    /\ received = EmptyBag
    /\ dropped = EmptyBag

\* A step of the UDP receiver or its surroundings.  The goroutine that a datagram is
\* handed to runs the handler below.
Underneath ==
    /\ ~panicked
    /\ sending' = sending (+) (handled' (-) handled)
    /\ UNCHANGED channelVars

\* NewChannelReceiver sets the handler.
NewChannelReceiver == SetMessageHandler /\ Underneath

-----------------------------------------------------------------------------
(* The handler, and the application's loop.                                  *)

\* One place less than asked for.
M_RoomOneLess == Len(messages) < BufferSize - 1
Room == Len(messages) < BufferSize

\* Trying to send on the closed channel panics, in a select with a default too.
Handle(d) ==
    /\ ~panicked
    /\ d \in BagToSet(sending)
    /\ sending' = sending (-) SetToBag({d})
    /\ panicked' = ~chanOpen
    /\ messages' = IF chanOpen /\ Room THEN Append(messages, d) ELSE messages
    /\ dropped' = IF chanOpen /\ ~Room THEN dropped (+) SetToBag({d}) ELSE dropped
    /\ UNCHANGED <<vars, chanOpen, consumer, received>>

Receive ==
    /\ ~panicked
    /\ consumer = "range"
    /\ messages # <<>>
    /\ messages' = Tail(messages)
    /\ received' = received (+) SetToBag({Head(messages)})
    /\ UNCHANGED <<vars, sending, chanOpen, consumer, panicked, dropped>>

\* The channel is closed and empty.
RangeEnds ==
    /\ ~panicked
    /\ consumer = "range"
    /\ messages = <<>>
    /\ ~chanOpen
    /\ consumer' = "ended"
    /\ UNCHANGED <<vars, sending, messages, chanOpen, panicked, received, dropped>>

-----------------------------------------------------------------------------
(* Close: the receiver's Close, then the channel's.  The context it cancels  *)
(* first is one that nobody looks at.                                        *)

\* There is a channel to close; or not, once the receiver's context is cancelled.
M_ToCloseUncancelled == chanOpen /\ ~ctxDone
ToClose == chanOpen

CloseMessages ==
    /\ ~panicked
    /\ closer = "returned"
    /\ ToClose
    /\ chanOpen' = FALSE
    /\ UNCHANGED <<vars, sending, messages, consumer, panicked, received, dropped>>

-----------------------------------------------------------------------------
CNext ==
    \/ NewChannelReceiver
    \/ (\E d \in Datagrams : Arrive(d)) /\ Underneath
    \/ (Cancel \/ Start \/ Read \/ ReadFails \/ receiveLoop \/ Close) /\ Underneath
    \/ \E d \in BagToSet(sending) : Handle(d)
    \/ Receive \/ RangeEnds
    \/ CloseMessages

CSpec == CInit /\ [][CNext]_cvars

\* As in UdpReceiver, and the application keeps receiving.
CFairness ==
    /\ WF_cvars(receiveLoop /\ Underneath) /\ WF_cvars(Read /\ Underneath)
    /\ WF_cvars(ReadFails /\ ~connOpen /\ Underneath)
    /\ WF_cvars(CloseConn /\ Underneath) /\ WF_cvars(CloseReturn /\ Underneath)
    /\ WF_cvars(\E d \in BagToSet(sending) : Handle(d))
    /\ WF_cvars(Receive \/ RangeEnds)
    /\ WF_cvars(CloseMessages)

CFairSpec == CSpec /\ CFairness

-----------------------------------------------------------------------------
(* Properties.                                                               *)

\* What each variable may hold, the UDP receiver's too.
ChannelTypeOK ==
    /\ TypeOK
    /\ BagToSet(sending) \subseteq Datagrams
    /\ BagToSet(received) \subseteq Datagrams /\ BagToSet(dropped) \subseteq Datagrams
    /\ messages \in Seq(Datagrams) /\ Len(messages) <= BufferSize
    /\ chanOpen \in BOOLEAN /\ panicked \in BOOLEAN
    /\ consumer \in {"range", "ended"}

\* An application that has not received anything yet loses nothing of the first
\* BufferSize datagrams: what is dropped came while so many waited, or had been taken.
DropsOnlyBeyondBuffer ==
    BagCardinality(handled) <= BufferSize => dropped = EmptyBag

\* When the receiver has been closed the application's loop ends, after it got all that
\* handlers had put in the channel, unless a handler that is late panics.
ClosedChannelDrained ==
    closer = "returned" ~>
        \/ panicked
        \/ consumer = "ended" /\ received (+) dropped (+) sending = handled
=============================================================================
