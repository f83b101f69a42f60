----------------------- MODULE CallTranslationProofs -----------------------
(***************************************************************************)
(* Who is shown a translation, for every set of rooms and sessions.        *)
(***************************************************************************)
EXTENDS CallTranslation, TLAPS

\* The relay keeps entries for the connection of the moment only, and either
\* has a socket or a reconnection ahead.
RelayInv == TypeOK /\ OneConnection /\ EntriesAreOfThisConnection

LEMMA InitRelay == Init => RelayInv
BY NoSessionAssumption
DEF Init, AiInit, RelayInv, TypeOK, AiTypeOK, OneConnection, EntriesAreOfThisConnection,
    NotShown

LEMMA NextRelay == RelayInv /\ [Next]_vars => RelayInv'
<1> SUFFICES ASSUME RelayInv, [Next]_vars PROVE RelayInv'
  OBVIOUS
<1> USE NoSessionAssumption
    DEF RelayInv, TypeOK, AiTypeOK, OneConnection, EntriesAreOfThisConnection, aiVars
<1>1. ASSUME NEW r \in Rooms, BeginSession(r) \/ EndSession(r) PROVE RelayInv'
  BY <1>1 DEF BeginSession, EndSession
<1>2. ASSUME NEW r \in Rooms, SendAi(r) PROVE RelayInv'
  BY <1>2 DEF SendAi, Send
<1>3. ASSUME NEW r \in Rooms, NEW id \in SessionIds, HearWord(r, id) PROVE RelayInv'
  BY <1>3 DEF HearWord, Word, MayShow
<1>4. ASSUME Connection, UNCHANGED <<current, used, shown>> PROVE RelayInv'
  <2>1. CASE SendFails
    BY <1>4, <2>1 DEF SendFails
  <2>2. CASE Open
    BY <1>4, <2>2 DEF Open
  <2>3. CASE Close
    BY <1>4, <2>3 DEF Close, Reconnect
  <2>4. CASE Connect
    BY <1>4, <2>4 DEF Connect
  <2>5. CASE Stop
    BY <1>4, <2>5 DEF Stop
  <2> QED BY <1>4, <2>1, <2>2, <2>3, <2>4, <2>5 DEF Connection
<1>5. CASE UNCHANGED vars
  BY <1>5 DEF vars
<1> QED BY <1>1, <1>2, <1>3, <1>4, <1>5 DEF Next

\* The relay keeps its types.
THEOREM TypeCorrect == Spec => []TypeOK
<1>1. RelayInv => TypeOK
  BY DEF RelayInv
<1> QED BY <1>1, InitRelay, NextRelay, PTL DEF Spec

\* The relay is never left without a socket and without a reconnection, nor
\* with both.
THEOREM AlwaysOneConnection == Spec => []OneConnection
<1>1. RelayInv => OneConnection
  BY DEF RelayInv
<1> QED BY <1>1, InitRelay, NextRelay, PTL DEF Spec

\* A call is shown translations only while it lasts and only if it has sent
\* something on the present connection.
THEOREM OnlySendersAreShown == Spec => ShownOnlyToSenders
<1>1. RelayInv /\ [Next]_vars
        => [shown' # shown => /\ shown'.to = current[shown'.room]
                              /\ <<shown'.room, shown'.to>> \in heard]_vars
  <2> SUFFICES ASSUME RelayInv, Next, shown' # shown
               PROVE  shown'.to = current[shown'.room] /\ <<shown'.room, shown'.to>> \in heard
    OBVIOUS
  <2>1. PICK r \in Rooms, id \in SessionIds : HearWord(r, id)
    BY DEF Next, BeginSession, EndSession, SendAi
  <2>2. MayShow(r) /\ shown' = [room |-> r, to |-> current[r], from |-> id]
    BY <2>1 DEF HearWord
  <2> QED BY <2>2 DEF MayShow, RelayInv, EntriesAreOfThisConnection
<1> QED BY <1>1, InitRelay, NextRelay, PTL DEF Spec, ShownOnlyToSenders

=============================================================================
