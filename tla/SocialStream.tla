--------------------------- MODULE SocialStream ---------------------------
(***************************************************************************)
(* The bridge between the live chat of Social Stream Ninja and a room      *)
(* (src/src/social-stream.ts, and the command that runs it,                *)
(* runSocialStreamBridge of src/src/cli.ts).  Chats come in over a web     *)
(* socket that the bridge opens again after it ends, and are published to  *)
(* the room; a peer's command "say" goes out over it.                      *)
(*                                                                         *)
(* A socket is known by its place in the order of creation.  Its events    *)
(* are queued and handled later, so that the bridge may believe a socket   *)
(* open that has ended already.  Bounds: MaxSockets sockets, MaxChats      *)
(* messages, MaxSays commands.                                             *)
(***************************************************************************)
EXTENDS Naturals, Sequences, SequencesExt

CONSTANTS
  MaxSockets,  \* sockets (or failed attempts to make one) in a behaviour
  MaxChats,    \* messages the service carries
  MaxSays,     \* commands "say" of the peers of the room
  BackoffSteps \* length of backoffMs

ASSUME SocialAssumption ==
  /\ MaxSockets \in Nat \ {0} /\ MaxChats \in Nat /\ MaxSays \in Nat
  /\ BackoffSteps \in Nat \ {0}

VARIABLES
  readOnly,   \* the option --read-only
  room,       \* the bridge's place in the room: "joining", "in", "leaving" or "out"
  socket,     \* this.socket: the number of the current one, 0 for null
  timer,      \* this.retryTimer is set
  attempt,    \* this.attempt, as far as it chooses a delay
  connected,  \* this.connected
  closed,     \* this.closed
  made,       \* sockets asked of the factory so far
  real,       \* the state of the socket made last: "none", "opening", "open" or "ended"
  wire,       \* its events that are not handled yet
  carried,    \* messages the service has carried to a socket so far
  chats,      \* those of them that were chats
  heard,      \* the chats published to the room, in order
  replies     \* one for each say: <<what it was answered, whether the text leaves>>

wsVars == <<socket, timer, attempt, connected, closed, made, real, wire>>
socialVars == <<readOnly, room, wsVars, carried, chats, heard, replies>>

\* An event of a socket that is not a chat: open, closed, and what
\* normalizeSocialMessage finds no author in, or parseJson no value.
Event(kind) == [kind |-> kind, chat |-> 0]
Chat(c) == [kind |-> "chat", chat |-> c]

\* The asks the bridge advertises: never one that it will refuse.
asks == IF readOnly THEN {} ELSE {"say"}

SocialInit ==
  /\ readOnly \in BOOLEAN
  /\ room = "joining"
  /\ socket = 0 /\ timer = FALSE /\ attempt = 0 /\ connected = FALSE /\ closed = FALSE
  /\ made = 0 /\ real = "none" /\ wire = <<>>
  /\ carried = 0 /\ chats = {} /\ heard = <<>> /\ replies = <<>>

-----------------------------------------------------------------------------
(* The socket.                                                             *)

\* scheduleReconnect, on a bridge that is not closed; unless a timer runs.
scheduleReconnect ==
  /\ timer' = TRUE
  /\ attempt' = IF timer \/ attempt + 1 >= BackoffSteps THEN attempt ELSE attempt + 1

\* connect after its early return and its clearTimeout: the factory gives a
\* socket, or it throws and a timer will try again.
FactoryGives ==
  /\ made < MaxSockets
  /\ made' = made + 1
  /\ socket' = made + 1
  /\ real' = "opening" /\ wire' = <<>>
  /\ timer' = FALSE
  /\ UNCHANGED attempt

FactoryThrows ==
  /\ made < MaxSockets
  /\ made' = made + 1
  /\ timer' = TRUE
  /\ attempt' = IF attempt + 1 >= BackoffSteps THEN attempt ELSE attempt + 1
  /\ UNCHANGED <<socket, real, wire>>

connect ==
  /\ ~closed /\ socket = 0
  /\ FactoryGives \/ FactoryThrows
  /\ UNCHANGED <<connected, closed>>

\* Its callers: the command, once it is in the room, and a timer.
RoomJoined ==
  /\ room = "joining"
  /\ room' = "in"
  /\ connect
  /\ UNCHANGED <<readOnly, carried, chats, heard, replies>>

TimerFires ==
  /\ timer
  /\ connect
  /\ UNCHANGED <<readOnly, room, carried, chats, heard, replies>>

\* The service: it opens the socket, carries chats and other traffic to it,
\* and ends it, open or not.
SocketOpens ==
  /\ real = "opening"
  /\ real' = "open"
  /\ wire' = Append(wire, Event("open"))
  /\ UNCHANGED <<readOnly, room, socket, timer, attempt, connected, closed, made,
                 carried, chats, heard, replies>>

SocketEnds ==
  /\ real \in {"opening", "open"}
  /\ real' = "ended"
  /\ wire' = Append(wire, Event("close"))
  /\ UNCHANGED <<readOnly, room, socket, timer, attempt, connected, closed, made,
                 carried, chats, heard, replies>>

ServiceSends ==
  /\ real = "open" /\ carried < MaxChats
  /\ carried' = carried + 1
  /\ \/ wire' = Append(wire, Chat(carried + 1)) /\ chats' = chats \cup {carried + 1}
     \/ wire' = Append(wire, Event("control")) /\ UNCHANGED chats
  /\ UNCHANGED <<readOnly, room, socket, timer, attempt, connected, closed, made, real,
                 heard, replies>>

\* The handlers connect gives a socket.  None does anything for a bridge that
\* is closed or has moved on to another socket.
CurrentOnceOpen == ~closed /\ connected  \* a variant
Current == ~closed /\ socket = made

onopen ==
  /\ Head(wire).kind = "open"
  /\ connected' = TRUE /\ attempt' = 0
  /\ UNCHANGED <<socket, timer, heard>>

\* Chat goes to the room as an event of the topic.  The rest is passed over.
onmessage ==
  /\ Head(wire).kind \in {"chat", "control"}
  /\ heard' = IF Head(wire).kind = "chat" THEN Append(heard, Head(wire).chat) ELSE heard
  /\ UNCHANGED <<socket, timer, attempt, connected>>

onclose ==
  /\ Head(wire).kind = "close"
  /\ connected' = FALSE
  /\ socket' = 0
  /\ scheduleReconnect
  /\ UNCHANGED heard

Handle ==
  /\ wire # <<>>
  /\ wire' = Tail(wire)
  /\ IF Current THEN onopen \/ onmessage \/ onclose
                ELSE UNCHANGED <<socket, timer, attempt, connected, heard>>
  /\ UNCHANGED <<readOnly, room, closed, made, real, carried, chats, replies>>

-----------------------------------------------------------------------------
(* The command.                                                            *)

\* sendChat through sendAction: what the peer is answered, and whether the
\* text leaves.  A socket that has ended and whose end is not handled yet takes
\* the text and drops it, or throws.
sendChat ==
  IF socket = 0 \/ ~connected THEN {<<"failed", "stays">>}
  ELSE IF real = "open" THEN {<<"sent", "leaves">>}
  ELSE {<<"sent", "stays">>, <<"failed", "stays">>}

\* The handler of a command of the bus: a say with text or without it.
Say(text) ==
  /\ room # "out" /\ Len(replies) < MaxSays
  /\ \/ /\ readOnly
        /\ replies' = Append(replies, <<"read-only", "stays">>)
     \/ /\ ~readOnly /\ ~text
        /\ replies' = Append(replies, <<"says nothing", "stays">>)
     \/ /\ ~readOnly /\ text /\ ~connected
        /\ replies' = Append(replies, <<"not connected", "stays">>)
     \/ /\ ~readOnly /\ text /\ connected
        /\ \E answer \in sendChat : replies' = Append(replies, answer)
  /\ UNCHANGED <<readOnly, room, wsVars, carried, chats, heard>>

\* close of the social bridge, then disconnect of the room's.  The events of
\* the socket that are queued still come, and are not listened to.
Shutdown ==
  /\ room = "in"
  /\ room' = "leaving"
  /\ closed' = TRUE /\ connected' = FALSE /\ timer' = FALSE /\ socket' = 0
  /\ IF socket # 0 /\ real # "ended"
     THEN real' = "ended" /\ wire' = Append(wire, Event("close"))
     ELSE UNCHANGED <<real, wire>>
  /\ UNCHANGED <<readOnly, attempt, made, carried, chats, heard, replies>>

Disconnected ==
  /\ room = "leaving"
  /\ room' = "out"
  /\ UNCHANGED <<readOnly, wsVars, carried, chats, heard, replies>>

SocialNext ==
  \/ RoomJoined \/ TimerFires
  \/ SocketOpens \/ SocketEnds \/ ServiceSends \/ Handle
  \/ \E text \in BOOLEAN : Say(text)
  \/ Shutdown \/ Disconnected

-----------------------------------------------------------------------------
(* Correctness.                                                            *)

\* Until it is told to stop, a bridge in the room holds a socket or has a
\* timer set that will make one, and not both: it neither gives up nor opens
\* two.  Afterwards it has neither, though a socket's end is still to come.
Reconnects ==
  room # "joining" => IF closed THEN socket = 0 /\ ~timer ELSE (socket # 0) # timer

\* A socket believed connected is the current one, and has opened.
BelievedOpen == connected => socket = made /\ socket # 0 /\ real \in {"open", "ended"}

\* The room hears the chats in the order of the service and none twice.
Forwarded ==
  /\ \A i, j \in DOMAIN heard : i < j => heard[i] < heard[j]
  /\ \A i \in DOMAIN heard, j \in DOMAIN wire :
       wire[j].kind = "chat" => heard[i] < wire[j].chat

\* Until the bridge is told to stop it passes over no chat that came on any of its
\* sockets: each has been published or is still to be handled, whatever sockets
\* ended since.
NonePassedOver ==
  ~closed => \A c \in chats : c \in ToSet(heard) \/ \E i \in DOMAIN wire : wire[i] = Chat(c)

\* A say that was answered with an error did not reach the service, and a
\* bridge sends none that does not advertise it.  The converse is not promised:
\* a text given to a socket whose end is not yet handled is lost.
Truthful ==
  \A i \in DOMAIN replies :
    replies[i][2] = "leaves" => replies[i][1] = "sent" /\ "say" \in asks

\* What the bridge to the live chat promises: it comes back after every end
\* of its socket (connect, onclose and scheduleReconnect of
\* social-stream.ts), knows which socket it may use, forwards every chat once and
\* in order (onmessage), and tells a peer the truth about a say (runSocialStreamBridge).
SocialSound == Reconnects /\ BelievedOpen /\ Forwarded /\ NonePassedOver /\ Truthful
=============================================================================
