----------------------------- MODULE MediaRoom -----------------------------
(***************************************************************************)
(* What CallsService relies on of a media room of SfuService: a set of     *)
(* peers that each join, each leave and all go together.  The room exists  *)
(* as long as it has peers, and when it is lost with its worker the event  *)
(* media_room_closed says so.                                              *)
(***************************************************************************)
EXTENDS Naturals

CONSTANT Peers

VARIABLES
  peers,      (* the peers of the room                                     *)
  notified    (* how often media_room_closed was emitted                   *)

mediaVars == <<peers, notified>>

MediaInit == peers = {} /\ notified = 0

Admit(p) == peers' = peers \cup {p} /\ UNCHANGED notified

Remove(p) == peers' = peers \ {p} /\ UNCHANGED notified

Close == peers' = {} /\ UNCHANGED notified

Lose ==
  /\ peers # {}
  /\ peers' = {}
  /\ notified' = notified + 1

MediaNext == (\E p \in Peers : Admit(p) \/ Remove(p)) \/ Close \/ Lose

MediaSpec == MediaInit /\ [][MediaNext]_mediaVars

=============================================================================
