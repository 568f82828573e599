------------------------------ MODULE WebSocket ------------------------------
(***************************************************************************)
(* The loop of _RpcHttpHandler._handle_websocket in rpc/server.py, from    *)
(* the upgrade to the end of one connection: it reads frames, answers      *)
(* control frames at once and puts the fragments of a message together     *)
(* until the final one, when the message goes to handle_json.              *)
(*                                                                         *)
(* A payload is its length; a message is the numbers of its data frames    *)
(* among those the client has sent.                                        *)
(***************************************************************************)
EXTENDS Integers, SequencesExt, FiniteSetsExt

CONSTANTS MAX_BODY_BYTES,              \* max_body_bytes of the HTTP server
          Sizes,                       \* payload lengths a client sends
          MaxFrames                    \* bound on the data frames of a connection

ASSUME WebSocketAssumption ==
  MAX_BODY_BYTES \in Nat \ {0} /\ Sizes \subseteq Nat /\ MaxFrames \in Nat

VARIABLES open,                        \* the loop is running
          fragmented,                  \* fragmented_opcode is not None
          fragmented_payload,          \* the data frames collected so far
          sent,                        \* every data frame read: [first, fin, size]
          handled                      \* the messages given to handle_json

wsVars == <<open, fragmented, fragmented_payload, sent, handled>>

WsInit == /\ open = TRUE
          /\ fragmented = FALSE
          /\ fragmented_payload = << >>
          /\ sent = << >>
          /\ handled = << >>

\* A data frame: TEXT or BINARY when it is the first of a message, else CONTINUATION.
DataFrames == [first : BOOLEAN, fin : BOOLEAN, size : Sizes]

size_of(message, frames) == SumFunction([i \in DOMAIN message |-> frames[message[i]].size])
-----------------------------------------------------------------------------
\* _read_websocket_frame refuses a payload above the limit, a reserved bit, a
\* missing mask, a long or fragmented control frame or an overlong length, and
\* the loop an unknown opcode: the connection is closed with a protocol error.
\* It also ends with a CLOSE frame, a timeout and a lost connection.
connection_ends ==
  /\ open
  /\ open' = FALSE
  /\ UNCHANGED <<fragmented, fragmented_payload, sent, handled>>

\* PING is answered with PONG, PONG is ignored, also between two fragments.
control_frame ==
  /\ open
  /\ UNCHANGED wsVars

close_with_error ==
  /\ open' = FALSE
  /\ UNCHANGED <<fragmented, fragmented_payload, handled>>

handle_message(message) ==
  /\ handled' = Append(handled, message)
  /\ fragmented' = FALSE
  /\ fragmented_payload' = << >>
  /\ UNCHANGED open

\* What follows once a fragment was added to the message.
collect(message, fin) ==
  IF size_of(message, sent') > MAX_BODY_BYTES THEN close_with_error
  ELSE IF fin THEN handle_message(message)
  ELSE /\ fragmented' = TRUE
       /\ fragmented_payload' = message
       /\ UNCHANGED <<open, handled>>

\* Faulty: a new message replaces the one that is not complete.
first_frame_replacing(n, frame) == collect(<<n>>, frame.fin)

\* TEXT and BINARY; inside a message they are nested fragments.
first_frame(n, frame) ==
  IF fragmented THEN close_with_error ELSE collect(<<n>>, frame.fin)

continuation_frame(n, frame) ==
  IF ~fragmented THEN close_with_error ELSE collect(Append(fragmented_payload, n), frame.fin)

data_frame(frame) ==
  /\ open
  /\ frame.size <= MAX_BODY_BYTES
  /\ Len(sent) < MaxFrames
  /\ sent' = Append(sent, frame)
  /\ IF frame.first THEN first_frame(Len(sent'), frame) ELSE continuation_frame(Len(sent'), frame)

WsNext == \/ \E frame \in DataFrames : data_frame(frame)
          \/ control_frame
          \/ connection_ends

WsSpec == WsInit /\ [][WsNext]_wsVars
-----------------------------------------------------------------------------
\* Consecutive data frames from one that begins a message, without a final one
\* before the last.
Continues(message, frames) ==
  /\ message # << >> /\ frames[message[1]].first
  /\ \A i \in 2..Len(message) : message[i] = message[i - 1] + 1 /\ ~frames[message[i]].first
  /\ \A i \in 1..Len(message) - 1 : ~frames[message[i]].fin

\* Whatever frames arrive and however they interleave with control frames, a
\* message reaches handle_json only as the client framed it: from its first frame
\* to its final one, with none missing, repeated or taken from another message.
\* The buffer holds the beginning of such a message exactly while
\* fragmented_opcode is set.
HandledAsFramed ==
  /\ \A m \in DOMAIN handled :
       Continues(handled[m], sent) /\ sent[handled[m][Len(handled[m])]].fin
  /\ fragmented = (fragmented_payload # << >>)
  /\ fragmented => /\ Continues(fragmented_payload, sent)
                   /\ ~sent[fragmented_payload[Len(fragmented_payload)]].fin

\* The number of the last data frame of the first n messages.
LastFrame(messages, n) == IF n = 0 THEN 0 ELSE messages[n][Len(messages[n])]

\* While the connection is open the messages handled and the incomplete one are,
\* in order, exactly the data frames read: each begins with the frame after the
\* last one of the message before, and the last ends with the last frame read, so
\* none is dropped, handled twice or overtaken without the connection being closed.
FramesAccountedFor ==
  open => /\ \A n \in DOMAIN handled : handled[n][1] = LastFrame(handled, n - 1) + 1
          /\ IF fragmented
             THEN /\ fragmented_payload[1] = LastFrame(handled, Len(handled)) + 1
                  /\ fragmented_payload[Len(fragmented_payload)] = Len(sent)
             ELSE LastFrame(handled, Len(handled)) = Len(sent)

\* No message longer than max_body_bytes is handled and no more is kept for one
\* that is not complete, although each fragment alone is within the limit.
WithinBodyLimit ==
  /\ fragmented => size_of(fragmented_payload, sent) <= MAX_BODY_BYTES
  /\ \A m \in DOMAIN handled : size_of(handled[m], sent) <= MAX_BODY_BYTES

\* What a client frames is what the server handles, within its limit.
FramesBecomeMessages == HandledAsFramed /\ FramesAccountedFor /\ WithinBodyLimit
=============================================================================
