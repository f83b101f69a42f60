---------------------------- MODULE MCClientApi ----------------------------
(***************************************************************************)
(* The three ways clients reach the backend beside the sockets of a call:  *)
(* the chat namespace, the event streams of notifications and the REST     *)
(* requests.  They share no state, so that a behaviour is of one of them:  *)
(* "part" says which, and the run checks the three in one go.              *)
(***************************************************************************)
EXTENDS MCChat, Notifications, RestApi, RestClients

CONSTANTS a, b, c, p (* event streams and a call of createNotification     *)

VARIABLE part

\* Two streams of one user, and one of another.
MCOwner == [s \in Streams |-> IF s = c THEN w ELSE v]

MCCallers == {v, w}
MCIds == {n, w}
MCTypes == {"type"}

ApiInit ==
  /\ part \in {"chat", "events", "rest"}
  /\ Init /\ EventsInit /\ RestInit

ChatStep == part = "chat" /\ Next /\ UNCHANGED <<part, eventsVars, restVars>>
EventsStep == part = "events" /\ EventsNext /\ UNCHANGED <<part, vars, restVars>>
RestStep == part = "rest" /\ RestNext /\ UNCHANGED <<part, vars, eventsVars>>

ApiNext == ChatStep \/ EventsStep \/ RestStep
apiVars == <<part, vars, eventsVars, restVars>>

\* Of the other parts nothing is ever enabled that is fair.
ApiSpec == ApiInit /\ [][ApiNext]_apiVars /\ EventsFairness

=============================================================================
