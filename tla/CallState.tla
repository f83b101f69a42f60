----------------------------- MODULE CallState -----------------------------
(***************************************************************************)
(* The registry of who is in which call:                                   *)
(* src/calls/call-state.service.ts.                                        *)
(*                                                                         *)
(* A registry is a record of the service's three maps.  A participant is   *)
(* named by its socket: its user is the socket's owner and its room is     *)
(* bySocket.  A room has a session exactly when it has participants; the   *)
(* identity of the session is modelled in CallTranslation.                 *)
(***************************************************************************)
CONSTANTS
  Users, Sockets, Rooms,
  Owner,      (* the user whose token the socket presented                 *)
  NoSocket,   (* "no entry" in byUser                                      *)
  NoRoom      (* "no entry" in bySocket                                    *)

ASSUME OwnerAssumption == Owner \in [Sockets -> Users]
ASSUME NoSocketAssumption == NoSocket \notin Sockets
ASSUME NoRoomAssumption == NoRoom \notin Rooms

Registries ==
  [members : [Rooms -> SUBSET Sockets],
   bySocket : [Sockets -> Rooms \cup {NoRoom}],
   byUser : [Users -> Sockets \cup {NoSocket}]]

EmptyRegistry ==
  [members |-> [r \in Rooms |-> {}],
   bySocket |-> [s \in Sockets |-> NoRoom],
   byUser |-> [u \in Users |-> NoSocket]]

\* add(): the socket becomes the participant of its user.
Add(reg, s, r) ==
  [members |-> [reg.members EXCEPT ![r] = @ \cup {s}],
   bySocket |-> [reg.bySocket EXCEPT ![s] = r],
   byUser |-> [reg.byUser EXCEPT ![Owner[s]] = s]]

\* remove(), of a socket that has an entry; the user's entry is dropped only
\* if it names this socket.
RemoveEntry(reg, s) ==
  [members |-> [reg.members EXCEPT ![reg.bySocket[s]] = @ \ {s}],
   bySocket |-> [reg.bySocket EXCEPT ![s] = NoRoom],
   byUser |-> [reg.byUser EXCEPT ![Owner[s]] = IF @ = s THEN NoSocket ELSE @]]

\* remove(): without an entry nothing happens.
Remove(reg, s) == IF reg.bySocket[s] = NoRoom THEN reg ELSE RemoveEntry(reg, s)

\* Remove every participant of a room, as the handler of media_room_closed
\* does in one go.
RemoveRoom(reg, r) ==
  [members |-> [reg.members EXCEPT ![r] = {}],
   bySocket |-> [s \in Sockets |-> IF s \in reg.members[r] THEN NoRoom ELSE reg.bySocket[s]],
   byUser |-> [u \in Users |->
                 IF reg.byUser[u] \in reg.members[r] THEN NoSocket ELSE reg.byUser[u]]]

\* The three maps tell one story, and a user has at most one session.
Consistent(reg) ==
  /\ \A s \in Sockets, r \in Rooms : s \in reg.members[r] <=> reg.bySocket[s] = r
  /\ \A s \in Sockets : reg.bySocket[s] # NoRoom <=> reg.byUser[Owner[s]] = s
  /\ \A u \in Users : reg.byUser[u] # NoSocket => Owner[reg.byUser[u]] = u

=============================================================================
