------------------------------- MODULE CallAi -------------------------------
(***************************************************************************)
(* The relay to the AI server: src/calls/call-ai.service.ts.               *)
(*                                                                         *)
(* One WebSocket carries the frames and the audio of every room.  For each *)
(* room the service remembers the session that sent last; a word that      *)
(* comes back names only the room, and is taken to belong to that session. *)
(* A closed connection is replaced after a delay, whose length is left     *)
(* out.  The AI server is external: it may answer a frame at any later     *)
(* time, and more than once, as long as the connection lasts.              *)
(***************************************************************************)
CONSTANTS
  Rooms,
  SessionIds,
  NoSession     (* "no entry" in the map of sessions                       *)

ASSUME NoSessionAssumption == NoSession \notin SessionIds

VARIABLES
  link,         (* the current WebSocket: "none" when this.socket is unset  *)
  timer,        (* a reconnection is scheduled                             *)
  stopping,     (* onModuleDestroy has run                                 *)
  sessions,     (* room -> the session that sent last on this connection   *)
  heard         (* AI: the <<room, session>> it has received on it         *)

aiVars == <<link, timer, stopping, sessions, heard>>

AiTypeOK ==
  /\ link \in {"none", "connecting", "open", "closing"}
  /\ timer \in BOOLEAN /\ stopping \in BOOLEAN
  /\ sessions \in [Rooms -> SessionIds \cup {NoSession}]
  /\ heard \subseteq Rooms \X SessionIds

AiInit ==
  /\ link = "connecting"
  /\ timer = FALSE /\ stopping = FALSE
  /\ sessions = [r \in Rooms |-> NoSession]
  /\ heard = {}

\* send(): remember the session and send, on an open connection only.
Send(r, id) ==
  /\ link = "open"
  /\ sessions' = [sessions EXCEPT ![r] = id]
  /\ heard' = heard \cup {<<r, id>>}
  /\ UNCHANGED <<link, timer, stopping>>

\* The error callback of send(): the current socket is terminated.  A
\* callback that comes when the connection has closed finds none.
SendFails ==
  /\ link = "open" /\ heard # {}
  /\ link' = "closing"
  /\ UNCHANGED <<timer, stopping, sessions, heard>>

\* handleMessage(), of a word that answers what session `from' sent in room r:
\* it changes nothing here, and is dropped if the room has no entry.
Word(r, from) ==
  /\ link \in {"open", "closing"} /\ ~stopping
  /\ <<r, from>> \in heard
  /\ UNCHANGED aiVars

Open ==
  /\ link = "connecting"
  /\ link' = "open"
  /\ UNCHANGED <<timer, stopping, sessions, heard>>

\* Whether the close handler schedules a reconnection.  (Mutants: never, and
\* also when the service is stopping.)
Reconnect_Never == FALSE
Reconnect_Always == TRUE
Reconnect == ~stopping

\* The handler of `close', which follows every error and every terminate().
Close ==
  /\ link # "none"
  /\ link' = "none"
  /\ sessions' = [r \in Rooms |-> NoSession]
  /\ heard' = {}
  /\ timer' = Reconnect
  /\ UNCHANGED stopping

\* connect(), when the timer fires.
Connect ==
  /\ timer
  /\ timer' = FALSE
  /\ link' = IF stopping THEN link ELSE "connecting"
  /\ UNCHANGED <<stopping, sessions, heard>>

\* onModuleDestroy(): no listener hears a translation after it.
Stop ==
  /\ ~stopping
  /\ stopping' = TRUE
  /\ timer' = FALSE
  /\ link' = IF link = "none" THEN "none" ELSE "closing"
  /\ sessions' = [r \in Rooms |-> NoSession]
  /\ UNCHANGED heard

Connection == SendFails \/ Open \/ Close \/ Connect \/ Stop

----------------------------------------------------------------------------

\* Until it is stopped, the service either has a socket or a reconnection
\* scheduled, never both and never neither; afterwards nothing is scheduled.
OneConnection == timer <=> (link = "none" /\ ~stopping)

\* A room has an entry only for what its session sent on this connection:
\* nothing said before a reconnection is taken up after it.
EntriesAreOfThisConnection ==
  \A r \in Rooms : sessions[r] # NoSession => <<r, sessions[r]>> \in heard

\* A lost connection is tried again.
LostConnectionRetried == link = "none" ~> link # "none" \/ stopping

=============================================================================
