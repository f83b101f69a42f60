-------------------------- MODULE CallTranslation --------------------------
(***************************************************************************)
(* Translations in a call: the sessions of CallStateService, the relay     *)
(* CallAi, and the listener by which CallsService shows a translation to a *)
(* room (src/calls/calls.service.ts, onModuleInit and sendAi).             *)
(*                                                                         *)
(* A session begins with a room's first participant and ends with its      *)
(* last; each has an id of its own.  The participants are left out.        *)
(***************************************************************************)
EXTENDS CallAi

VARIABLES
  current,   (* room -> the id of its session                              *)
  used,      (* the ids given so far                                       *)
  shown      (* the last translation shown: room, the session it was shown *)
             (* to, and the session its frame came from                    *)

vars == <<aiVars, current, used, shown>>

NotShown == [room |-> NoSession, to |-> NoSession, from |-> NoSession]

Init ==
  /\ AiInit
  /\ current = [r \in Rooms |-> NoSession]
  /\ used = {}
  /\ shown = NotShown

\* The first participant joins; randomUUID() gives an id never used before.
BeginSession(r) ==
  /\ current[r] = NoSession
  /\ \E id \in SessionIds \ used :
       /\ current' = [current EXCEPT ![r] = id]
       /\ used' = used \cup {id}
  /\ UNCHANGED <<aiVars, shown>>

\* The last participant leaves.
EndSession(r) ==
  /\ current[r] # NoSession
  /\ current' = [current EXCEPT ![r] = NoSession]
  /\ UNCHANGED <<aiVars, used, shown>>

\* sendAi(): only a participant sends, hence for a session in progress.
SendAi(r) ==
  /\ current[r] # NoSession
  /\ Send(r, current[r])
  /\ UNCHANGED <<current, used, shown>>

\* The listener's condition.  (Mutant: no check of the session.)
MayShow_Unchecked(r) == sessions[r] # NoSession
MayShow(r) == sessions[r] # NoSession /\ current[r] = sessions[r]

\* A word arrives and its translation is shown, or dropped because the room's
\* session has changed.
HearWord(r, from) ==
  /\ Word(r, from)
  /\ shown' = IF MayShow(r) THEN [room |-> r, to |-> current[r], from |-> from] ELSE shown
  /\ UNCHANGED <<current, used>>

Next ==
  \/ \E r \in Rooms : BeginSession(r) \/ EndSession(r) \/ SendAi(r)
  \/ \E r \in Rooms, id \in SessionIds : HearWord(r, id)
  \/ Connection /\ UNCHANGED <<current, used, shown>>

Spec == Init /\ [][Next]_vars

\* A timer that is set fires, and a terminated socket closes.
Fairness == WF_vars(Connect /\ UNCHANGED <<current, used, shown>>)

FairSpec == Spec /\ Fairness

----------------------------------------------------------------------------

TypeOK ==
  /\ AiTypeOK
  /\ current \in [Rooms -> SessionIds \cup {NoSession}]
  /\ used \subseteq SessionIds
  /\ shown \in [room : Rooms, to : SessionIds, from : SessionIds] \cup {NotShown}

\* A session is shown a translation only while it is the room's session and
\* only if it has itself sent to the AI on the connection of the moment: a new
\* call that has sent nothing sees nothing of the one before it.
ShownOnlyToSenders ==
  [][shown' # shown =>
       /\ shown'.to = current[shown'.room]
       /\ <<shown'.room, shown'.to>> \in heard]_vars

\* calls.service.spec.ts:167, "does not publish a translation from an ended
\* session into a new call".
NothingFromAnEndedSession == shown.to = shown.from

=============================================================================
