-------------------------- MODULE ProducersProofs --------------------------
(***************************************************************************)
(* Nobody is missed, for any sockets and any number of producers.          *)
(***************************************************************************)
EXTENDS Producers, TLAPS

\* A participant that is connected is in the Socket.IO room, and so is a
\* socket whose join has come past client.join().
Hears ==
  \A s \in connected : s \in admitted \/ at[s] = "entered" => s \in ioRoom

\* What a participant knows, or will know with the answer under way.
Informed ==
  \A s \in admitted \cap connected : \A p \in OfOthers(s) :
    \/ at[s] = "answering" /\ p \in answer[s]
    \/ Unannounced(p)
    \/ p \in known[s]

\* A join that is not of the call the socket is in already finds it in none.
NotYet ==
  \A s \in Sockets :
    at[s] \in {"joinMedia", "enterRoom", "entered", "rollback", "rollbackRoom"} => s \notin admitted

ProducersInv == TypeOK /\ Hears /\ NotYet /\ Informed

LEMMA InitProducers == Init => ProducersInv
BY DEF Init, ProducersInv, TypeOK, Hears, NotYet, Informed, Stages, Producer

\* Producers close, and whoever hears of it forgets no other.
LEMMA Closing ==
  ASSUME ProducersInv, NEW closing, CloseProducers(closing, ioRoom)
  PROVE  /\ open' \subseteq Producer /\ known' \in [Sockets -> SUBSET Producer]
         /\ open' = open \ closing
         /\ \A t \in Sockets : known[t] \ closing \subseteq known'[t]
BY DEF ProducersInv, TypeOK, CloseProducers

\* A step that closes producers, and changes at most the operation and peer
\* of its own socket.
LEMMA ClosingStep ==
  ASSUME ProducersInv, NEW s \in Sockets, NEW closing, NEW stage \in Stages,
         CloseProducers(closing, ioRoom),
         peers' \subseteq Sockets,
         at' = [at EXCEPT ![s] = stage],
         at[s] \notin {"answering", "announcing"} \/ at' = at,
         stage = "rollbackRoom" => s \notin admitted,
         stage \notin {"joinMedia", "enterRoom", "entered", "rollback"} \/ at' = at,
         UNCHANGED <<connected, ioRoom, admitted, made, answer>>
  PROVE  ProducersInv'
<1>1. /\ open' \subseteq Producer /\ known' \in [Sockets -> SUBSET Producer]
      /\ open' = open \ closing
      /\ \A t \in Sockets : known[t] \ closing \subseteq known'[t]
  BY Closing
<1>2. TypeOK'
  BY <1>1 DEF ProducersInv, TypeOK
<1>3. Hears'
  BY DEF ProducersInv, TypeOK, Hears
<1>5. NotYet'
  BY DEF ProducersInv, TypeOK, NotYet
<1>4. Informed'
  <2> SUFFICES ASSUME NEW t \in admitted \cap connected, NEW p \in open, p \notin closing, p[1] # t
               PROVE  \/ at'[t] = "answering" /\ p \in answer[t]
                      \/ at'[p[1]] = "announcing" /\ p[2] = made[p[1]]
                      \/ p \in known'[t]
    BY <1>1 DEF Informed, OfOthers, Unannounced
  <2>1. t \in Sockets /\ p[1] \in Sockets
    BY DEF ProducersInv, TypeOK, Producer
  <2>2. \/ at[t] = "answering" /\ p \in answer[t]
        \/ at[p[1]] = "announcing" /\ p[2] = made[p[1]]
        \/ p \in known[t]
    BY DEF ProducersInv, Informed, OfOthers, Unannounced
  <2>3. \A u \in Sockets : at[u] \in {"answering", "announcing"} => at'[u] = at[u]
    BY DEF ProducersInv, TypeOK
  <2> QED BY <1>1, <2>1, <2>2, <2>3
<1> QED BY <1>2, <1>3, <1>4, <1>5 DEF ProducersInv

\* A step that only moves the operation of its socket on, and may make fewer
\* participants and listeners of it.
LEMMA QuietStep ==
  ASSUME ProducersInv, NEW s \in Sockets, NEW stage \in Stages,
         at' = [at EXCEPT ![s] = stage],
         at[s] \notin {"answering", "announcing"},
         stage # "entered" \/ s \notin connected \/ s \in ioRoom',
         stage \in {"joinMedia", "enterRoom", "entered", "rollback", "rollbackRoom"} => s \notin admitted,
         peers' \subseteq Sockets, ioRoom' \subseteq Sockets,
         answer' \in [Sockets -> SUBSET Producer],
         known' \in [Sockets -> SUBSET Producer],
         admitted' \subseteq admitted,
         \A t \in Sockets \ {s} : t \in ioRoom => t \in ioRoom',
         s \in ioRoom /\ s \in admitted' => s \in ioRoom',
         \A t \in Sockets : t # s \/ t \in admitted' => answer'[t] = answer[t] \/ at[t] # "answering",
         \A t \in Sockets : t # s \/ t \in admitted' => known'[t] = known[t],
         UNCHANGED <<connected, open, made>>
  PROVE  ProducersInv'
<1>1. TypeOK'
  BY DEF ProducersInv, TypeOK
<1>2. Hears'
  BY DEF ProducersInv, TypeOK, Hears
<1>4. NotYet'
  BY DEF ProducersInv, TypeOK, NotYet
<1>3. Informed'
  <2> SUFFICES ASSUME NEW t \in admitted' \cap connected, NEW p \in open, p[1] # t
               PROVE  \/ at'[t] = "answering" /\ p \in answer'[t]
                      \/ at'[p[1]] = "announcing" /\ p[2] = made[p[1]]
                      \/ p \in known'[t]
    BY DEF Informed, OfOthers, Unannounced
  <2>1. t \in Sockets /\ p[1] \in Sockets
    BY DEF ProducersInv, TypeOK, Producer
  <2>2. \/ at[t] = "answering" /\ p \in answer[t]
        \/ at[p[1]] = "announcing" /\ p[2] = made[p[1]]
        \/ p \in known[t]
    BY DEF ProducersInv, Informed, OfOthers, Unannounced
  <2>3. \A u \in Sockets : at[u] \in {"answering", "announcing"} => at'[u] = at[u]
    BY DEF ProducersInv, TypeOK
  <2> QED BY <2>1, <2>2, <2>3
<1> QED BY <1>1, <1>2, <1>3, <1>4 DEF ProducersInv

----------------------------------------------------------------------------

LEMMA NextProducers == ProducersInv /\ [Next]_vars => ProducersInv'
<1> SUFFICES ASSUME ProducersInv, [Next]_vars PROVE ProducersInv'
  OBVIOUS
<1>1. ASSUME NEW s \in Sockets, JoinBegin(s) PROVE ProducersInv'
  <2>1. CASE s \in admitted
    BY <1>1, <2>1, QuietStep DEF JoinBegin, Goto, ProducersInv, TypeOK, Stages
  <2>2. CASE s \notin admitted
    BY <1>1, <2>2, QuietStep DEF JoinBegin, Goto, ProducersInv, TypeOK, Stages
  <2> QED BY <2>1, <2>2
<1>2. ASSUME NEW s \in Sockets, Rejoin(s) PROVE ProducersInv'
  <2>1. answer' \in [Sockets -> SUBSET Producer]
    BY <1>2 DEF Rejoin, OfOthers, ProducersInv, TypeOK
  <2>2. \A t \in Sockets \ {s} : answer'[t] = answer[t]
    BY <1>2 DEF Rejoin, ProducersInv, TypeOK
  <2> QED BY <1>2, <2>1, <2>2, QuietStep DEF Rejoin, Goto, ProducersInv, TypeOK, Stages
<1>3. ASSUME NEW s \in Sockets, JoinMedia(s) PROVE ProducersInv'
  <2>1. answer' \in [Sockets -> SUBSET Producer]
    BY <1>3 DEF JoinMedia, OfOthers, ProducersInv, TypeOK
  <2>2. \A t \in Sockets \ {s} : answer'[t] = answer[t]
    BY <1>3 DEF JoinMedia, ProducersInv, TypeOK
  <2>3. s \notin admitted /\ at[s] = "joinMedia"
    BY <1>3 DEF JoinMedia, ProducersInv, NotYet
  <2>4. peers' \subseteq Sockets /\ UNCHANGED <<connected, ioRoom, admitted, open, made, known>>
    BY <1>3 DEF JoinMedia, ProducersInv, TypeOK
  <2>5. PICK stage \in {"enterRoom", "rollback"} : at' = [at EXCEPT ![s] = stage]
    BY <1>3 DEF JoinMedia, Goto
  <2> QED BY <2>1, <2>2, <2>3, <2>4, <2>5, QuietStep DEF ProducersInv, TypeOK, Stages
<1>4. ASSUME NEW s \in Sockets, EnterRoom(s) PROVE ProducersInv'
  BY <1>4, QuietStep DEF EnterRoom, Goto, ProducersInv, TypeOK, NotYet, Stages
<1>5. ASSUME NEW s \in Sockets, Admit(s) PROVE ProducersInv'
  <2>1. CASE Goto(s, "rollback") /\ UNCHANGED <<answer, admitted>>
    BY <1>5, <2>1, QuietStep DEF Admit, Goto, ProducersInv, TypeOK, NotYet, Stages
  <2>2. CASE /\ s \in connected \cap peers
             /\ answer' = [answer EXCEPT ![s] = Listed(s)]
             /\ admitted' = admitted \cup {s}
             /\ Goto(s, "answering")
    <3>1. answer' \in [Sockets -> SUBSET Producer] /\ answer'[s] = OfOthers(s)
      BY <2>2 DEF Listed, OfOthers, ProducersInv, TypeOK
    <3>2. at[s] = "entered" /\ at'[s] = "answering" /\ at' = [at EXCEPT ![s] = "answering"]
      BY <1>5, <2>2 DEF Admit, Goto, ProducersInv, TypeOK
    <3>3. UNCHANGED <<connected, ioRoom, peers, open, made, known>>
      BY <1>5 DEF Admit
    <3>4. TypeOK'
      BY <2>2, <3>1, <3>2, <3>3 DEF ProducersInv, TypeOK, Stages
    <3>5. Hears'
      BY <2>2, <3>2, <3>3 DEF ProducersInv, TypeOK, Hears
    <3>6. NotYet'
      BY <2>2, <3>2, <3>3 DEF ProducersInv, TypeOK, NotYet
    <3>7. Informed'
      <4> SUFFICES ASSUME NEW t \in admitted' \cap connected, NEW p \in open, p[1] # t
                   PROVE  \/ at'[t] = "answering" /\ p \in answer'[t]
                          \/ at'[p[1]] = "announcing" /\ p[2] = made[p[1]]
                          \/ p \in known[t]
        BY <3>3 DEF Informed, OfOthers, Unannounced
      <4>1. CASE t = s
        BY <3>1, <3>2, <4>1 DEF OfOthers
      <4>2. CASE t # s
        <5>1. t \in admitted \cap connected /\ p[1] \in Sockets /\ t \in Sockets
          BY <2>2, <4>2 DEF ProducersInv, TypeOK, Producer
        <5>2. \/ at[t] = "answering" /\ p \in answer[t]
              \/ at[p[1]] = "announcing" /\ p[2] = made[p[1]]
              \/ p \in known[t]
          BY <5>1 DEF ProducersInv, Informed, OfOthers, Unannounced
        <5>3. at'[t] = at[t] /\ answer'[t] = answer[t]
          BY <2>2, <3>2, <4>2, <5>1 DEF ProducersInv, TypeOK
        <5>4. at[p[1]] = "announcing" => at'[p[1]] = "announcing"
          BY <3>2, <5>1 DEF ProducersInv, TypeOK
        <5> QED BY <5>2, <5>3, <5>4
      <4> QED BY <4>1, <4>2
    <3> QED BY <3>4, <3>5, <3>6, <3>7 DEF ProducersInv
  <2> QED BY <1>5, <2>1, <2>2 DEF Admit
<1>6. ASSUME NEW s \in Sockets, Rollback(s) PROVE ProducersInv'
  BY <1>6, ClosingStep DEF Rollback, Goto, ProducersInv, TypeOK, NotYet, Stages
<1>7. ASSUME NEW s \in Sockets, RollbackRoom(s) PROVE ProducersInv'
  <2>1. s \notin admitted /\ at[s] = "rollbackRoom"
    BY <1>7 DEF RollbackRoom, ProducersInv, NotYet
  <2>2. known' \in [Sockets -> SUBSET Producer] /\ \A t \in Sockets \ {s} : known'[t] = known[t]
    BY <1>7 DEF RollbackRoom, ProducersInv, TypeOK
  <2> QED BY <1>7, <2>1, <2>2, QuietStep DEF RollbackRoom, Goto, ProducersInv, TypeOK, Stages
<1>8. ASSUME NEW s \in Sockets, Answer(s) PROVE ProducersInv'
  <2>1. /\ known' \in [Sockets -> SUBSET Producer] /\ answer' \in [Sockets -> SUBSET Producer]
        /\ known'[s] = known[s] \cup answer[s]
        /\ \A t \in Sockets \ {s} : known'[t] = known[t] /\ answer'[t] = answer[t]
    BY <1>8 DEF Answer, ProducersInv, TypeOK
  <2>2. /\ at[s] = "answering" /\ at' = [at EXCEPT ![s] = "idle"]
        /\ UNCHANGED <<connected, ioRoom, admitted, peers, open, made>>
    BY <1>8 DEF Answer, Goto
  <2>3. TypeOK' /\ Hears' /\ NotYet'
    BY <2>1, <2>2 DEF ProducersInv, TypeOK, Hears, NotYet, Stages
  <2>4. Informed'
    <3> SUFFICES ASSUME NEW t \in admitted \cap connected, NEW p \in open, p[1] # t
                 PROVE  \/ at'[t] = "answering" /\ p \in answer'[t]
                        \/ at'[p[1]] = "announcing" /\ p[2] = made[p[1]]
                        \/ p \in known'[t]
      BY <2>2 DEF Informed, OfOthers, Unannounced
    <3>1. t \in Sockets /\ p[1] \in Sockets
      BY DEF ProducersInv, TypeOK, Producer
    <3>2. \/ at[t] = "answering" /\ p \in answer[t]
          \/ at[p[1]] = "announcing" /\ p[2] = made[p[1]]
          \/ p \in known[t]
      BY DEF ProducersInv, Informed, OfOthers, Unannounced
    <3>3. /\ \A u \in Sockets \ {s} : at'[u] = at[u]
          /\ at[p[1]] = "announcing" => at'[p[1]] = "announcing"
      BY <2>2, <3>1 DEF ProducersInv, TypeOK
    <3> QED BY <2>1, <2>2, <3>1, <3>2, <3>3
  <2> QED BY <2>3, <2>4 DEF ProducersInv
<1>9. ASSUME NEW s \in Sockets, ProduceBegin(s) PROVE ProducersInv'
  BY <1>9, QuietStep DEF ProduceBegin, Goto, ProducersInv, TypeOK, Stages
<1>10. ASSUME NEW s \in Sockets, Produced(s) PROVE ProducersInv'
  <2>1. CASE Goto(s, "idle") /\ UNCHANGED <<made, open>>
    BY <1>10, <2>1, QuietStep DEF Produced, Goto, ProducersInv, TypeOK, Stages
  <2>2. CASE /\ made' = [made EXCEPT ![s] = @ + 1]
             /\ open' = open \cup {<<s, made[s] + 1>>}
             /\ Goto(s, "announcing")
    <3>1. /\ at[s] = "producing" /\ at' = [at EXCEPT ![s] = "announcing"]
          /\ UNCHANGED <<connected, ioRoom, admitted, peers, answer, known>>
      BY <1>10, <2>2 DEF Produced, Goto
    <3>2. made' \in [Sockets -> Nat] /\ made'[s] = made[s] + 1
          /\ \A u \in Sockets \ {s} : made'[u] = made[u]
      BY <2>2 DEF ProducersInv, TypeOK
    <3>3. open' \subseteq Producer
      BY <2>2 DEF ProducersInv, TypeOK, Producer
    <3>4. TypeOK' /\ Hears' /\ NotYet'
      BY <3>1, <3>2, <3>3 DEF ProducersInv, TypeOK, Hears, NotYet, Stages
    <3>5. Informed'
      <4> SUFFICES ASSUME NEW t \in admitted \cap connected, NEW p \in open', p[1] # t
                   PROVE  \/ at'[t] = "answering" /\ p \in answer[t]
                          \/ at'[p[1]] = "announcing" /\ p[2] = made'[p[1]]
                          \/ p \in known[t]
        BY <3>1 DEF Informed, OfOthers, Unannounced
      <4>1. CASE p = <<s, made[s] + 1>>
        BY <3>1, <3>2, <4>1 DEF ProducersInv, TypeOK
      <4>2. CASE p \in open
        <5>1. t \in Sockets /\ p[1] \in Sockets
          BY <4>2 DEF ProducersInv, TypeOK, Producer
        <5>2. \/ at[t] = "answering" /\ p \in answer[t]
              \/ at[p[1]] = "announcing" /\ p[2] = made[p[1]]
              \/ p \in known[t]
          BY <4>2 DEF ProducersInv, Informed, OfOthers, Unannounced
        <5>3. /\ at[t] = "answering" => at'[t] = "answering"
              /\ at[p[1]] = "announcing" => at'[p[1]] = "announcing" /\ p[1] # s
          BY <3>1, <5>1 DEF ProducersInv, TypeOK
        <5> QED BY <3>2, <5>1, <5>2, <5>3
      <4> QED BY <2>2, <4>1, <4>2
    <3> QED BY <3>4, <3>5 DEF ProducersInv
  <2> QED BY <1>10, <2>1, <2>2 DEF Produced
<1>11. ASSUME NEW s \in Sockets, Announce(s) PROVE ProducersInv'
  <2>1. /\ at[s] = "announcing" /\ at' = [at EXCEPT ![s] = "idle"]
        /\ UNCHANGED <<connected, ioRoom, admitted, peers, open, made, answer>>
    BY <1>11 DEF Announce, Goto
  <2>2. /\ \A t \in Sockets : known[t] \subseteq known'[t]
        /\ \A t \in ioRoom \ {s} : <<s, made[s]>> \in known'[t]
        /\ known' \in [Sockets -> SUBSET Producer]
    BY <1>11 DEF Announce, ProducersInv, TypeOK, Producer
  <2>3. TypeOK' /\ Hears' /\ NotYet'
    BY <2>1, <2>2 DEF ProducersInv, TypeOK, Hears, NotYet, Stages
  <2>4. Informed'
    <3> SUFFICES ASSUME NEW t \in admitted \cap connected, NEW p \in open, p[1] # t
                 PROVE  \/ at'[t] = "answering" /\ p \in answer[t]
                        \/ at'[p[1]] = "announcing" /\ p[2] = made[p[1]]
                        \/ p \in known'[t]
      BY <2>1 DEF Informed, OfOthers, Unannounced
    <3>1. t \in Sockets /\ p[1] \in Sockets /\ p = <<p[1], p[2]>> /\ t \in ioRoom
      BY DEF ProducersInv, TypeOK, Producer, Hears
    <3>2. \/ at[t] = "answering" /\ p \in answer[t]
          \/ at[p[1]] = "announcing" /\ p[2] = made[p[1]]
          \/ p \in known[t]
      BY DEF ProducersInv, Informed, OfOthers, Unannounced
    <3>3. CASE p[1] = s /\ p[2] = made[s]
      BY <2>2, <3>1, <3>3
    <3>4. CASE ~(p[1] = s /\ p[2] = made[s])
      <4>1. /\ at[t] = "answering" => at'[t] = "answering"
            /\ at[p[1]] = "announcing" /\ p[1] # s => at'[p[1]] = "announcing"
        BY <2>1, <3>1 DEF ProducersInv, TypeOK
      <4> QED BY <2>2, <3>1, <3>2, <3>4, <4>1
    <3> QED BY <3>3, <3>4
  <2> QED BY <2>3, <2>4 DEF ProducersInv
<1>12. ASSUME NEW s \in Sockets, CloseProducer(s) PROVE ProducersInv'
  <2>1. PICK closing : CloseProducers(closing, ioRoom)
    BY <1>12 DEF CloseProducer
  <2>2. at' = [at EXCEPT ![s] = at[s]] /\ at[s] \in Stages /\ at' = at
    BY <1>12 DEF CloseProducer, ProducersInv, TypeOK
  <2> QED BY <1>12, <2>1, <2>2, ClosingStep DEF CloseProducer, ProducersInv, TypeOK, NotYet
<1>13. ASSUME NEW s \in Sockets, Leave(s) PROVE ProducersInv'
  <2>1. known' \in [Sockets -> SUBSET Producer] /\ \A t \in Sockets \ {s} : known'[t] = known[t]
    BY <1>13 DEF Leave, ProducersInv, TypeOK
  <2> QED BY <1>13, <2>1, QuietStep DEF Leave, Goto, ProducersInv, TypeOK, Stages
<1>14. ASSUME NEW s \in Sockets, LeaveMedia(s) PROVE ProducersInv'
  BY <1>14, ClosingStep DEF LeaveMedia, Goto, ProducersInv, TypeOK, Stages
<1>15. ASSUME NEW s \in Sockets, Disconnect(s) PROVE ProducersInv'
  BY <1>15 DEF Disconnect, ProducersInv, TypeOK, Hears, NotYet, Informed, OfOthers, Unannounced
<1>16. ASSUME NEW s \in Sockets, TransportFails(s) PROVE ProducersInv'
  <2>1. at' = [at EXCEPT ![s] = at[s]] /\ at[s] \in Stages /\ at' = at
    BY <1>16 DEF TransportFails, ProducersInv, TypeOK
  <2> QED BY <1>16, <2>1, ClosingStep DEF TransportFails, ProducersInv, TypeOK, NotYet
<1>17. CASE MediaRoomLost
  <2>1. known' \in [Sockets -> SUBSET Producer]
    BY <1>17 DEF MediaRoomLost, ProducersInv, TypeOK
  <2>2. \A s \in connected : at[s] = "entered" => s \notin admitted
    BY DEF ProducersInv, TypeOK, NotYet
  <2> QED BY <1>17, <2>1, <2>2
          DEF MediaRoomLost, ProducersInv, TypeOK, Hears, NotYet, Informed, OfOthers
<1>18. CASE RoomDeleted
  <2>1. known' \in [Sockets -> SUBSET Producer]
    BY <1>18 DEF RoomDeleted, CloseProducers, ProducersInv, TypeOK
  <2> QED BY <1>18, <2>1
          DEF RoomDeleted, CloseProducers, ProducersInv, TypeOK, Hears, NotYet, Informed, OfOthers
<1>19. CASE UNCHANGED vars
  BY <1>19 DEF vars, ProducersInv, TypeOK, Hears, NotYet, Informed, OfOthers, Unannounced
<1> QED BY <1>1, <1>2, <1>3, <1>4, <1>5, <1>6, <1>7, <1>8, <1>9, <1>10, <1>11, <1>12, <1>13,
           <1>14, <1>15, <1>16, <1>17, <1>18, <1>19 DEF Next, Step

\* A participant that has the answer to its join knows every producer of the
\* others, but for those whose announcement is on its way.
THEOREM NobodyIsMissed == Spec => []NobodyMissed
<1>1. ProducersInv => NobodyMissed
  BY DEF ProducersInv, Informed, NobodyMissed
<1> QED BY <1>1, InitProducers, NextProducers, PTL DEF Spec

=============================================================================
