---------------------------- MODULE Notifications ----------------------------
(***************************************************************************)
(* src/notifications/notifications.service.ts: the event streams of users  *)
(* (server-sent events) and the lists of notifications they are shown.     *)
(*                                                                         *)
(* The service keeps one Subject per user, that of the stream subscribed   *)
(* last.  A list is named by its user and its length, as Core, which is    *)
(* external, only adds to it; it is read when Core answers and arrives     *)
(* later, so two lists may arrive in either order.                         *)
(***************************************************************************)
EXTENDS Naturals, FiniteSets

CONSTANTS
  Users,
  Streams,  (* the streams clients open: tabs, and reconnections            *)
  Owner,    (* stream -> its user                                           *)
  Pushes,   (* the calls of createNotification                              *)
  NoStream,
  CoreFails (* whether requests to Core may fail                            *)

ASSUME OwnerAssumption == Owner \in [Streams -> Users]
ASSUME NoStreamAssumption == NoStream \notin Streams

VARIABLES
  streams,   (* stream -> "new", "open" or "ended"                           *)
  entry,     (* NotificationsService.notificationStreams                     *)
  initial,   (* stream -> its GET of the initial list, the list answered     *)
  stored,    (* Core: user -> the number of notifications                    *)
  push,      (* push -> where its call is suspended, the receiver, the       *)
             (* length of the receiver's list with it, the list answered     *)
  heard,     (* history: stream -> the lists the client has been sent        *)
  overlapped (* history: the streams that were open beside another of theirs *)

eventsVars == <<streams, entry, initial, stored, push, heard, overlapped>>

Lists == [of : Users, length : Nat]
ListOf(u) == [of |-> u, length |-> stored[u]]

Phases == {"idle", "posting", "posted", "asked", "answered", "returned", "failed"}
NoGet == [phase |-> "idle", list |-> {}]
NoPush == [phase |-> "idle", actor |-> {}, to |-> {}, number |-> 0, list |-> {}]

EventsInit ==
  /\ streams = [s \in Streams |-> "new"]
  /\ entry = [u \in Users |-> NoStream]
  /\ initial = [s \in Streams |-> NoGet]
  /\ stored = [u \in Users |-> 0]
  /\ push = [p \in Pushes |-> NoPush]
  /\ heard = [s \in Streams |-> {}]
  /\ overlapped = {}

OpenOf(u) == {s \in Streams : Owner[s] = u /\ streams[s] = "open"}

----------------------------------------------------------------------------
(* Streams.                                                                *)

\* subscribe(): the new Subject replaces the user's former one in the map, and
\* the initial list is asked for.
Subscribe(s) ==
  LET beside == OpenOf(Owner[s]) IN
  /\ streams[s] = "new"
  /\ streams' = [streams EXCEPT ![s] = "open"]
  /\ entry' = [entry EXCEPT ![Owner[s]] = s]
  /\ initial' = [initial EXCEPT ![s].phase = "asked"]
  /\ overlapped' = IF beside = {} THEN overlapped ELSE overlapped \cup beside \cup {s}
  /\ UNCHANGED <<stored, push, heard>>

\* The callback of finalize(): the user's entry is dropped, whichever stream it
\* is of.  (Mutant: the map is cleared.)
Finalized_Cleared(s) == [u \in Users |-> NoStream]
Finalized(s) == [entry EXCEPT ![Owner[s]] = NoStream]

End(s) ==
  /\ streams[s] = "open"
  /\ streams' = [streams EXCEPT ![s] = "ended"]
  /\ entry' = Finalized(s)
  /\ initial' = [initial EXCEPT ![s] = NoGet]
  /\ UNCHANGED <<stored, push, heard, overlapped>>

\* The client closes the stream, or loses its connection.
Close(s) == End(s)

\* The initial list is refused: the error ends the merged stream.
InitialFails(s) == CoreFails /\ initial[s].phase = "asked" /\ End(s)

\* Core reads the list that getNotifications(s's user) asks for.
InitialListed(s) ==
  /\ initial[s].phase = "asked"
  /\ initial' = [initial EXCEPT ![s] = [phase |-> "answered", list |-> {ListOf(Owner[s])}]]
  /\ UNCHANGED <<streams, entry, stored, push, heard, overlapped>>

\* It arrives, and is the first event of merge() or comes between others.
InitialArrives(s) ==
  /\ initial[s].phase = "answered"
  /\ heard' = [heard EXCEPT ![s] = @ \cup initial[s].list]
  /\ initial' = [initial EXCEPT ![s] = NoGet]
  /\ UNCHANGED <<streams, entry, stored, push, overlapped>>

----------------------------------------------------------------------------
(* createNotification().                                                   *)

\* A call of createNotification: the notification is posted to Core in the name
\* of the actor.
Create(p, actor, receiver) ==
  /\ push[p].phase = "idle"
  /\ push' = [push EXCEPT ![p] = [phase |-> "posting", actor |-> {actor}, to |-> {receiver},
                                  number |-> 0, list |-> {}]]
  /\ UNCHANGED <<streams, entry, initial, stored, heard, overlapped>>

\* Core stores it.
Store(p) ==
  /\ push[p].phase = "posting"
  /\ \E u \in push[p].to :
       /\ stored' = [stored EXCEPT ![u] = @ + 1]
       /\ push' = [push EXCEPT ![p].phase = "posted", ![p].number = stored'[u]]
  /\ UNCHANGED <<streams, entry, initial, heard, overlapped>>

\* The answer is there: the list is asked for if the receiver has an entry.
\* (Mutant: the condition is the wrong way round.)
HasStream_Not(u) == entry[u] = NoStream
HasStream(u) == entry[u] # NoStream
Posted(p) ==
  /\ push[p].phase = "posted"
  /\ \E u \in push[p].to :
       push' = [push EXCEPT ![p].phase = IF HasStream(u) THEN "asked" ELSE "returned"]
  /\ UNCHANGED <<streams, entry, initial, stored, heard, overlapped>>

\* Core reads the receiver's list.
Listed(p) ==
  /\ push[p].phase = "asked"
  /\ \E u \in push[p].to :
       push' = [push EXCEPT ![p].phase = "answered", ![p].list = {ListOf(u)}]
  /\ UNCHANGED <<streams, entry, initial, stored, heard, overlapped>>

\* emitToUser(): the Subject that the user has now.  (Mutant: the list is sent to the
\* actor.)
Addressee_Actor(p) == push[p].actor
Addressee(p) == push[p].to
EmitTo(users, lists) ==
  heard' = [s \in Streams |->
              IF \E u \in users : entry[u] = s THEN heard[s] \cup lists ELSE heard[s]]

Emit(p) ==
  /\ push[p].phase = "answered"
  /\ EmitTo(Addressee(p), push[p].list)
  /\ push' = [push EXCEPT ![p].phase = "returned"]
  /\ UNCHANGED <<streams, entry, initial, stored, overlapped>>

\* Core refuses to store the notification or to list them.
CreateFails(p) ==
  /\ CoreFails /\ push[p].phase \in {"posting", "asked"}
  /\ push' = [push EXCEPT ![p].phase = "failed"]
  /\ UNCHANGED <<streams, entry, initial, stored, heard, overlapped>>

----------------------------------------------------------------------------

StreamStep(s) == InitialListed(s) \/ InitialArrives(s)
PushStep(p) == Store(p) \/ Posted(p) \/ Listed(p) \/ Emit(p)

EventsNext ==
  \/ \E s \in Streams : Subscribe(s) \/ Close(s) \/ InitialFails(s) \/ StreamStep(s)
  \/ \E p \in Pushes :
       PushStep(p) \/ CreateFails(p) \/ \E a, u \in Users : Create(p, a, u)

EventsSpec == EventsInit /\ [][EventsNext]_eventsVars

\* Core answers, and the event loop runs what its answers make ready.
EventsFairness ==
  /\ \A s \in Streams : WF_eventsVars(StreamStep(s))
  /\ \A p \in Pushes : WF_eventsVars(PushStep(p))

EventsFairSpec == EventsSpec /\ EventsFairness

----------------------------------------------------------------------------
(* Properties                                                              *)

EventsTypeOK ==
  /\ streams \in [Streams -> {"new", "open", "ended"}]
  /\ entry \in [Users -> Streams \cup {NoStream}]
  /\ initial \in [Streams -> [phase : {"idle", "asked", "answered"}, list : SUBSET Lists]]
  /\ stored \in [Users -> Nat]
  /\ push \in [Pushes -> [phase : Phases, actor : SUBSET Users, to : SUBSET Users,
                          number : Nat, list : SUBSET Lists]]
  /\ heard \in [Streams -> SUBSET Lists]
  /\ overlapped \subseteq Streams

\* Nothing of a stream that has ended stays in the map.
EntryIsOpen == \A u \in Users : entry[u] # NoStream => entry[u] \in OpenOf(u)

\* Whoever the actor, and however streams of several users come and go while a
\* list is fetched, a client is sent lists of its own user only.
OwnListsOnly == \A s \in Streams : \A l \in heard[s] : l.of = Owner[s]

\* A stream that is open is in the map unless it was open beside another of its user.
OnlyOverlapDeafens ==
  \A s \in Streams : streams[s] = "open" => entry[Owner[s]] = s \/ s \in overlapped

\* The map follows the streams, although finalize() drops whatever entry the user
\* has: no list is asked for on account of a stream that has ended, and one that is
\* open is deaf to new notifications only if it was open beside another of its user
\* (as the first of two tabs is, and the second once the first is closed).
EntriesFollowStreams == EntryIsOpen /\ OnlyOverlapDeafens

\* A notification that Core has stored reaches the stream that its receiver has
\* in the map, unless the stream loses its place there or Core refuses the list.
PushReachesStream ==
  \A p \in Pushes, s \in Streams :
    push[p].phase = "posted" /\ push[p].to = {Owner[s]} /\ entry[Owner[s]] = s
      ~> \/ \E l \in heard[s] : l.length >= push[p].number
         \/ entry[Owner[s]] # s
         \/ push[p].phase = "failed"

=============================================================================
