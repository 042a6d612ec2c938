--------------------------------- MODULE Wsi ---------------------------------
(***************************************************************************)
(* The websocket client (wsi.cpp) through which the frames of DmsAlert     *)
(* come: pthread_websocket_client connects, at most every two seconds, and *)
(* callback_lws_communicate asks the server for its topics, one for each   *)
(* WRITEABLE callback, and hands on what it receives.  The callbacks, the  *)
(* attempts to connect and the judging of a frame all run in one thread,   *)
(* so that the link does nothing while a frame is judged.                  *)
(*                                                                         *)
(* The library and the server are external.  The library may call          *)
(* WRITEABLE at any time while the link is up, asked to or not: at         *)
(* MESSAGE_INDEX_MIN the callback counts and does not ask for the next     *)
(* one, so that the client does not get on without calls it did not ask    *)
(* for.  Nothing is claimed of when they come.                             *)
(***************************************************************************)
EXTENDS DmsAlert

CONSTANT Topics     \* what the build subscribes to, in order

ASSUME TopicsAssumption == Len(Topics) \in Nat \ {0}

(* MESSAGE_INDEX_MAX; MESSAGE_INDEX_MIN is 0. *)
IndexMax == Len(Topics) + 1

VARIABLES
    wsi_dumb,           \* 1 if the pointer to the connection is not NULL
    msg_send_index,     \* the topic to ask for next
    due,                \* 1 if ratelimit_connects would pass
    link,               \* the library: "none", "connecting" or "up"
    \* this connection, as the server and the library see it
    asked,              \* the topics that the server was asked for
    lost                \* the topics whose lws_write failed

client  == <<wsi_dumb, msg_send_index, due, link, asked, lost>>
allVars == <<vars, client>>

-----------------------------------------------------------------------------
(* The loop of pthread_websocket_client: lws_client_connect_via_info sets the pointer, or *)
(* fails at once.                                                                         *)
Connect ==
    /\ pc = 0 /\ wsi_dumb = 0 /\ due = 1
    /\ due' = 0
    /\ \/ wsi_dumb' = 1 /\ link' = "connecting"
       \/ UNCHANGED <<wsi_dumb, link>>
    /\ UNCHANGED <<vars, msg_send_index, asked, lost>>

(* Mutant: ratelimit_connects moves its stamp although it refuses, and the loop asks it   *)
(* whenever there is no connection.                                                       *)
DueUnasked ==
    /\ due = 0 /\ wsi_dumb = 1 /\ due' = 1
    /\ UNCHANGED <<vars, wsi_dumb, msg_send_index, link, asked, lost>>

(* Two seconds have passed since ratelimit_connects last passed. *)
Due ==
    /\ due = 0 /\ due' = 1
    /\ UNCHANGED <<vars, wsi_dumb, msg_send_index, link, asked, lost>>

(* LWS_CALLBACK_CLIENT_ESTABLISHED *)
Established ==
    /\ pc = 0 /\ link = "connecting"
    /\ link' = "up"
    /\ UNCHANGED <<vars, wsi_dumb, msg_send_index, due, asked, lost>>

(* LWS_CALLBACK_CLIENT_CONNECTION_ERROR, then LWS_CALLBACK_WSI_DESTROY *)
ConnectionError ==
    /\ pc = 0 /\ link = "connecting"
    /\ link' = "none" /\ wsi_dumb' = 0 /\ msg_send_index' = 0
    /\ UNCHANGED <<vars, due, asked, lost>>

(* LWS_CALLBACK_CLOSED, then LWS_CALLBACK_WSI_DESTROY *)
Closed ==
    /\ pc = 0 /\ link = "up"
    /\ link' = "none" /\ wsi_dumb' = 0 /\ msg_send_index' = 0 /\ asked' = {} /\ lost' = {}
    /\ UNCHANGED <<vars, due>>

(* Mutant: at MESSAGE_INDEX_MIN the index goes on to the second topic. *)
WriteableSkips ==
    /\ pc = 0 /\ link = "up" /\ msg_send_index < IndexMax
    /\ msg_send_index' = IF msg_send_index = 0 THEN 2 ELSE msg_send_index + 1
    /\ \/ msg_send_index = 0 /\ UNCHANGED <<asked, lost>>
       \/ msg_send_index > 0 /\ asked' = asked \cup {msg_send_index} /\ UNCHANGED lost
       \/ msg_send_index > 0 /\ lost' = lost \cup {msg_send_index} /\ UNCHANGED asked
    /\ UNCHANGED <<vars, wsi_dumb, due, link>>

(* LWS_CALLBACK_CLIENT_WRITEABLE: the index goes on whether or not lws_write succeeds. *)
Writeable ==
    /\ pc = 0 /\ link = "up" /\ msg_send_index < IndexMax
    /\ msg_send_index' = msg_send_index + 1
    /\ \/ msg_send_index = 0 /\ UNCHANGED <<asked, lost>>
       \/ msg_send_index > 0 /\ asked' = asked \cup {msg_send_index} /\ UNCHANGED lost
       \/ msg_send_index > 0 /\ lost' = lost \cup {msg_send_index} /\ UNCHANGED asked
    /\ UNCHANGED <<vars, wsi_dumb, due, link>>

(* LWS_CALLBACK_CLIENT_RECEIVE: the server sends what it was asked for. *)
Receive ==
    /\ link = "up" /\ asked # {}
    /\ Frame
    /\ UNCHANGED client

(* The frame is judged. *)
Judging ==
    /\ (\E n \in 1 .. 5 : Judge(n)) \/ DriverChange \/ AbsenceRelease \/ Out
    /\ UNCHANGED client

(* The clock and the receive thread go on. *)
Meanwhile == (Second \/ SpeedInfo) /\ UNCHANGED client

WsiInit ==
    /\ Init
    /\ wsi_dumb = 0 /\ msg_send_index = 0 /\ due = 1
    /\ link = "none" /\ asked = {} /\ lost = {}

WsiNext ==
    \/ Connect \/ Due \/ Established \/ ConnectionError \/ Closed \/ Writeable
    \/ Receive \/ Judging \/ Meanwhile

WsiSpec == WsiInit /\ [][WsiNext]_allVars

(* The websocket thread gets on: no step of judging waits without a limit, lws_service    *)
(* returns within 200 ms, and time passes.                                                *)
WsiFairSpec ==
    WsiSpec /\ WF_allVars(Judging) /\ WF_allVars(Connect) /\ WF_allVars(Due)

-----------------------------------------------------------------------------
(* The type invariant, of the alerts as well. *)
WsiTypeOK ==
    /\ TypeOK
    /\ wsi_dumb \in {0, 1} /\ due \in {0, 1}
    /\ msg_send_index \in 0 .. IndexMax
    /\ link \in {"none", "connecting", "up"}
    /\ asked \in SUBSET (1 .. Len(Topics)) /\ lost \in SUBSET (1 .. Len(Topics))

(* However often the connection broke, and wherever in the subscribing: what the index   *)
(* has passed is what THIS connection was asked for, or what a failed lws_write lost; an *)
(* index left over from the last connection would leave the device blind.                *)
AskedFor ==
    link = "up" => \A n \in 1 .. Len(Topics) : n < msg_send_index <=> n \in asked \cup lost

(* The client never gives up: however often the server refuses or the link breaks, and   *)
(* whatever frame is being judged meanwhile, there is a connection again and again, or    *)
(* it tries again and again (liveness, under WsiFairSpec).  The rate limit, which the     *)
(* loop asks five times a second, delays an attempt and does not put it off for ever.     *)
NeverGivesUp == []<>(link # "none") \/ []<><<Connect>>_allVars

=============================================================================
