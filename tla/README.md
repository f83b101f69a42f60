# Formal model of the gesture backend

TLA+ modules, TLC configurations and TLAPS proofs for the NestJS backend in
`src/`. Paths below are relative to `src/src/`. Every definition that stands for
code names its lines in `PROJECT.json` ("map").

## 1. The system

The backend sits between browsers (REST, Socket.IO, server-sent events), the
*Core* service (REST; it owns users, rooms, calls, minutes), an *AI* server (one
WebSocket), Redis, and *mediasoup* worker processes. Most of it passes requests
on to Core. The state it keeps itself, and the concurrency, are in these parts.

| Part | State | Operations | What makes it correct |
|---|---|---|---|
| `common/keyed-serial-executor.ts` | key → promise of the last operation | `run` | per key: first in, first out, one at a time; failures do not block; no entry left over |
| `calls/call-state.service.ts` | sessions per room, participant per socket and per user | `add`, `remove`, `snapshot` | the three maps tell one story; one session per user |
| `calls/calls.service.ts`, `calls/calls.gateway.ts` | clients, deleted rooms, an executor keyed by **user** | join, leave, disconnect, REST join/leave, room deletion, `media_room_closed`, media requests, AI frames | registry, Socket.IO rooms and SFU peers agree again after every interleaving and failure; so do Core's members, but for a lost answer of a REST leave and a room that Core has deleted |
| `sfu/sfu.service.ts` | media rooms → peers → transports, producers, consumers; an executor keyed by **room** | join, create/connect/close, produce, consume, leave, close | nothing leaks, nothing is duplicated, a lost room is reported once |
| `sfu/worker-manager.service.ts` | workers, retry timers | boot, death, replacement, shutdown | the pool keeps its size; nothing survives shutdown |
| `calls/call-ai.service.ts` | the WebSocket, the reconnection timer, room → session that sent last | send, message, close, reconnect, shutdown | always one connection or one timer; words go to the right session |
| `chat-rooms/chat-rooms.service.ts`, `redis/` | in Redis: the room of a pair, a lock | `getOrCreateDirectMessageRoom` | one room per pair |
| `notifications/` | user → event stream | subscribe, end of a stream, `createNotification` | an entry belongs to an open stream; a stored notification reaches it |
| `chat/`, `guards/ws.guard.ts` | the user of a socket, its Socket.IO rooms | connect, join, send, leave | a message reaches those who asked for its conversation and nobody else; the unverified hear nothing |
| `meetings/` | none | requests about minutes, which may join the user to the call in Core | the calls tolerate members they have not made |
| REST: the controllers and services of `auth/`, `users/`, `friend/`, `quick-slot/`, `medias/`, `calls/rooms/`, `chat-rooms/`, `meetings/`, `notifications/`, with `guards/`, `filters/`, `interceptors/` and the pipes of `main.ts` | none | a request is guarded, routed, validated, turned into requests to Core, and answered | Core is asked in the name of the token's user (but for the invitation to a direct-message room, which is accepted in the invitee's), about what the request names; the client is told what was done; what the rules demand of a body arrives in Core, unless it spells a field twice |

How they interact: the gateway and the REST controllers call `CallsService`,
which queues each operation under the user, and inside it awaits Core, Socket.IO
and `SfuService`, which queues each of its own under the room. Two things come
from the side, outside the users' queues: the end of a router when its worker
dies (`media_room_closed`) and words from the AI server. `closeRoom` queues one
operation per participant in *their* queues and awaits each.

What is hard: an operation suspends at up to six awaits; sockets disconnect,
rooms are deleted and workers die at each; the operations behind it in the queue
find what it left.

## 2. Modules

| Module | Models | Correspondence |
|---|---|---|
| `KeyedSerialExecutor` | `run()` at the level of microtasks | `tails` is the map; a promise is named by the call that made it; `previous` and `phase` are the chain and how far each promise is; `ticket` is a history of the calling order. `Run` is the synchronous part, `Start`/`Settle` the callback, `Finally` the `finally` block |
| `SerialQueue` | abstract: a FIFO queue per key | – |
| `ExecutorQueue` | the refinement of the second by the first | a history variable `queue` lists for each key the calls whose operation has not settled, in the order `run()` was called; the executor never reads it, so it hinders no step. That the operation which begins is the head of this list is what the chain of promises has to bring about |
| `CallState` | the registry, as operators on a record of the three maps | `Add`, `Remove`; `RemoveRoom` is the loop of `mediaNotification` |
| `Calls` | `CallsService` with the gateway | `queue[u]` is the user's executor queue in its abstract form, `at[u]` the await of its head, `held[u]` the participant it has detached. An action is the code from one await to the next. `unheard` is a history: who has left a call in Core by a REST request of which the answer was lost |
| `MediaRoom` | abstract: what `Calls` assumes of the SFU | a set of peers that join, leave, all go, or are lost with a notification |
| `Sfu` | one media room of `SfuService` with mediasoup | `room`, `peers`, `held` are the service's maps; `made`, `open` are mediasoup's resources; `awaiting` is what the head of the queue has asked mediasoup for; `belated` is a history of the resources entered when their transport had closed. It implements `MediaRoom` |
| `WorkerManager` | the worker pool, by counts | `boot` is the loop of `onModuleInit`, `retries` the timers, `replacing` the `spawn` calls under way |
| `CallAi`, `CallTranslation` | the AI relay, and its listener in `CallsService` with the sessions of rooms | `link`, `timer`, `sessions` are the service's fields; `heard` is what the AI server may still answer |
| `DirectMessage` | the creation of a pair's room | one action per request to Redis or Core; `cache`, `lock` are Redis, `rooms`, `accepted`, `others` are Core |
| `Chat` | the chat namespace: `ChatGateway`, `ChatService`, `WsGuard` | `state` says whether `client.data.user` is set, `rooms` is `client.rooms` by the names `getRoomName` makes; `joined` is the history of what a socket asked for, against which the names are judged; `relayed` is the message of the last step |
| `Producers` | how participants learn of each other's producers: `attachSession`, `produce`, `mediaNotification` over `SfuService` | `ioRoom` is the Socket.IO room, `answer[s]` the producers listed for a join whose answer is not sent, `known[s]` what the client makes of the answer and of `new_producer`, `producer_closed`, `media_room_closed`. It splits `Calls`' steps at the microtasks between `sfu.join`, `client.join`, the second listing and the answer, and has one room and one socket per user |
| `Notifications` | the event streams of `NotificationsService` | `entry` is the map of Subjects, `streams` what the clients have open, `initial[s]` the first list of a stream and `push[p]` a call of `createNotification`, each with where it is suspended; a list is its user and its length; `heard` is the history of what a client was sent |
| `RestRoutes` | what the decorators of the controllers declare and which requests to Core each service operation makes, as tables | a route names its operation and its arguments *by position*, an operation its parameters by position and its steps with these names: as in the code, only the order tells a user's index from a room's. A step also says in whose name Core is asked: the seven of `getOrCreateDirectMessageRoom` in the caller's, but for the two about the invitation. The order of the routes is that of their declaration |
| `RequestBodies` | the DTO classes as ValidationPipe applies them, and what the services make of a body | one operator per DTO, with `@ValidateIf`, `@IsOptional` and `parseFormBoolean`; `convertKeysToSnakeCase`, the `normalize...` functions and the pairs of spellings |
| `RestApi` | one REST request: `JwtGuard`, routing, the pipes, the operation's steps, the exception filters and the interceptor | `stage` says how far the request is, `todo` the steps that remain, `log` those taken with their outcomes; Core does a step, refuses it (with or without one of the codes of `shouldJoinCallToResolveCallIdx`), or fails, having done it or not |
| `RestClients` | the requests the run sends | see §3 |
| `MC*` | instances for TLC | `MCClientApi` extends `Chat`, `Notifications` and `RestApi` and puts them side by side |
| `*Proofs` | theorems | |

Composition: `Calls` extends `CallState` and rests on two contracts, each shown
by the run that checks the component below it, and proved: `SerialQueue`
(run `executor`, theorem `ExecutorKeepsQueueOrder`) for its queues, and `MediaRoom` (run `sfu`,
theorem `RoomIsMediaRoom`) for `mediaPeers`. That `Calls` in turn does with a media room only
what `MediaRoom` allows is the theorem `RoomsUsedAsPromised`.
`CallTranslation` extends `CallAi`. `RestApi` extends `RestRoutes` and `RequestBodies`; a step
of kind `local` is a call of another module (`closeRoom`, `leaveActiveCall`, `detach`, Redis),
which succeeds or throws there, and is modelled in `Calls` or `DirectMessage`; the waiting for the lock
of a direct-message room is one step (`dm`) of `RestApi`, and the requests to Core are steps of
their own in both. `Producers` has an SFU of its own: which peers there
are and which producers are open.

Each definition with a suffix (`DropTail_Always`, `MayAdmit_Deleted`, ...) is a
faulty variant of the one it precedes; it is used by no specification and shows
that the property named with it in `PROJECT.json` ("mutants") can fail.

### What `Calls` abstracts

A participant is its socket (its user is `Owner`, its room `bySocket`).
Nicknames, timestamps, snapshots and emitted events are left out. Tokens have
been verified and do not expire. Media requests pass through the same queues
and change only what `Sfu` models, and `Producers` for the events about producers. `MeetingJoin` is the one other way into Core's
members, a request about minutes, which no queue orders. Core keeps the set of members of a call:
`CoreDelete` empties it, a leave removes, a join adds; any call to Core may fail
(`"core" \in Faults`), before Core has acted or after, in which case only the answer is lost.
After a lost answer `leaveCall` throws before it detaches the participant, so that the session
stays without membership (`unheard`), `joinCall` throws although Core has a new member, and
`deleteCallRoomById` throws before `closeRoom`, so that the calls of a room that Core has deleted
go on (stage `lost`). Where the code swallows the error of a leave, a lost answer is the same as
success. Core acts before its caller knows of the failure, or never. `sfu.join`, `sfu.leave`
and `sfu.closeRoom` take effect in one step, as `MediaRoom` allows; `sfu.join`
may fail where it has to create the router. `client.leave` does not fail (the
in-memory adapter has no way to), so its fallback in `detach` is left out.
Once a socket is disconnected, `client.join` changes `sioRooms` but nobody
receives anything; `BroadcastsReachParticipants` speaks of connected sockets.

## 3. Runs

| Run | Instance | Question |
|---|---|---|
| `executor` | 3 calls of one key, 1 of another | Is the chain of promises a FIFO queue per key, which always moves on (`ImplementsSerialQueue`, `EveryCallReturns`), without leaving entries behind (`NoStaleTail`)? Three calls are needed for the race of `finally` with a later call that is itself overtaken |
| `calls_one_user` | 1 user, 2 sockets, 2 rooms, any 3 requests of all kinds, 2 disconnects, 1 deletion, failing Core and `createRouter` | Replacement, disconnect during a join, REST leaves: does everything agree again once the user's queue is empty, also when Core's answers are lost? Three requests are the least for a replacement and a late operation of the replaced socket |
| `calls_two_users` | 2 users, 3 sockets, 1 room, 3 joins, 1 lost worker, 1 deletion, failing Core and `createRouter`, fair | Registry and SFU agree at *every* moment for participants, a deleted room stays deleted, and its deletion ends |
| `calls_progress` | 1 user, 2 sockets, 2 rooms, 2 requests, fair; Core answers | Disconnects, also during a join, end in released media and a leave in Core (a leave that fails in Core is only logged, so Core does not fail here) |
| `calls_rejoin_leak` | 1 user, 1 socket, 2 joins, 1 lost worker | **violation**, see §4 |
| `sfu` | 2 interchangeable peers, 7 operations, 2 waiting at a time, 1 fault, mediasoup answering too late for a router or a transport that has closed | Nothing leaks or is duplicated; everything is on its own peer's transport; shutdown; notifications; the contract `MediaRoom`. Six operations connect a producer to a consumer, the seventh disturbs |
| `workers` | 3 workers, 4 faults | Pool size and shutdown; more faults than workers |
| `translation` | 2 rooms, 3 sessions, fair | Connection and attribution; three sessions let a room have two in a row beside another's |
| `ended_session` | the same | **violation**, see §4 |
| `direct_message` | 3 requests of both users, 2 faults of any kind, fair | Lock and number of rooms (one fault allows two rooms, three requests could make three); the lock is freed and requests end |
| `producers` | 2 interchangeable sockets, 2 producers each, any number of joins, leaves and failures until both have disconnected | Does every participant learn of every producer, however joins and announcements interleave (`NobodyMissed`)? A second producer is needed for one closed and one made between two steps of a join; 3 sockets with 1 producer each, and 2 with 3, were checked too and take longer |
| `client_api` | chat: 3 users with a socket each, a call, direct conversations in both directions, one with oneself, one invalid. Events: 2 streams of one user, 1 of another, a notification from anybody to anybody, failing Core, fair. REST: all 62 routes, each with every token (none, expired, invalid, two users), parameter and file and a proper body, with a query argument left out (`undefined` in Core's path), and with bodies that differ from a proper one in up to two fields; lists of at most 2 (`MaxList`: the direct-message rooms of a list, the invitations tried) | Who hears which message: verification pending, expired tokens, sockets that close (a conversation of two needs a third who must not hear). Who hears of a notification (two streams of a user are the least for one to replace or end the other). What a request makes others do and what its client is told. Two fields are what it takes to reach every pair of rules that depend on each other |

The three parts of `client_api` share no state and a REST request sees no other; a behaviour
of the run is therefore of one part (`part`), which keeps the product of the three out of the
state space (84k states).

Types are checked by the proofs of each module's type theorem, which hold for all
instances; the runs spend their properties on other things. `NothingLeaks` of `sfu`
is one property with named conjuncts: no resource outside the maps, a room exactly as
long as peers, nothing after shutdown. So is `EntriesFollowStreams`.

`CHECK_DEADLOCK FALSE` everywhere: requests and faults are bounded, and a system
nobody asks anything of is at rest.

### Fairness

The event loop runs every microtask and callback that is ready, hence weak
fairness of each step of an operation, of `closeRoom`'s loop, and of timers.
It covers the *answers* of Core, Redis, mediasoup and Socket.IO too: an operation
that awaits one is only as live as the service it asks. `core-http` sets no
timeout, so for Core this is an assumption about the other side; without it one
unanswered request blocks the user's queue for good, and with it the clean-up of
their disconnects and any `closeRoom` that waits for it. No fairness is assumed
of requests, disconnects, deletions, faults, or words of the AI server. In
`DirectMessage` the expiry of the lock is fair, as Redis provides. In `Notifications` the answers
of Core and what follows them are fair (`EventsFairness`), the coming and going of streams is not.

## 4. Findings

* **A re-join can leak a peer** (`calls_rejoin_leak`). A join of the room the
  socket is already in calls `sfu.join` with no rollback
  (`calls/calls.service.ts:106`). If the worker dies while that call waits,
  `media_room_closed` removes the participant, `sfu.join` makes the room anew,
  and the disconnect that follows finds no participant: peer, router and ports
  stay until the room is deleted. The test at `calls/calls.service.spec.ts:89`
  states the opposite for the first join.
* **A late word is shown to the next call of its room** (`ended_session`). Words
  carry only a room number and are attributed to the session that sent last.
  When a call ends, another begins in the same room, and a word that answers the
  first comes late, the check in `calls/calls.service.ts:38` passes and the second
  call is shown it; the test at `calls/calls.service.spec.ts:167` says a
  translation of another session is not sent. `calls/call-ai.service.spec.ts:40`
  (the late word names the *first* session) describes an earlier protocol.

## 5. Proofs

All theorems hold for any values of the constants that satisfy the named
assumptions. They are safety theorems.

* `KeyedSerialExecutorProofs`: the inductive invariant is `ChainInv`. A mutual
  exclusion proof cannot start from the phases alone, because `finally` deletes
  the tail a microtask *after* the promise has settled; `TailCovers` says that a
  key without a tail has no pending call, `LinkCovers` that every earlier pending
  call is at or before the link of a later one, and the tickets order them.
  `CallOrder` follows, and from it `MutualExclusion`. The step simulation of `SerialQueue`
  adds `ListInv`: the history list of a key holds exactly its pending calls, once each, by
  their tickets. Whoever runs has the least ticket of them, hence is the head of the list
  (`RunningIsHead`), and settling takes the head off. Instances of `SerialQueue` need no
  recursion over the chain this way.
* `CallsProofs`: `SessionsInv` = types, `SessionsConsistent`, and `JoinsExclusive`
  (after a join has detached the user's former session nobody else can have added
  one: the reason why `add` never finds a session of the user). The first is needed
  to know that the participant an operation finds is of its own user. The theorem
  about deleted rooms is an action property from the same invariant.
* `CallsProofs`, the other services: `AgreeInv` adds what each operation relies on when it
  goes on after an await. `UserOK(u)` says of one user what Core, the SFU and Socket.IO
  know, with the exceptions that their own join under way explains (`Consented`,
  `Unadmitted`, `Entered`: a join has Core's consent first, a media peer next, the Socket.IO
  room then, and becomes a participant last) and, for membership (`Member`), a deletion that
  Core has made and an unheard leave. It rests on `Untouched`: the operations of
  other users, requests, disconnects and deletions change nothing of it
  (`OthersUntouched`, `OutsideUntouched`), so that only the user's own steps and a lost
  worker have to be looked at. The end of a deletion is the exception: it empties the media
  room without asking the registry, and touches nobody only because nobody is left in the
  room. That is `EvictionOK`: at most one operation of a deletion is under way, and whoever
  is still in the room is its subject or still to come. `ParticipantHasMedia`,
  `BroadcastsReachParticipants`, `SessionHasMembership` and `ReplacementSurvives` follow for
  every fault. `NoOrphanMedia` needs `OrphansOK` besides, and the hypothesis that no worker
  dies: a lost worker between the consent to a rejoin and its `sfu.join` is the finding
  of `calls_rejoin_leak`.
* `CallsProofs`, media rooms: every step of a user's operation, a deletion or a lost worker
  is, for each room, a step of `MediaRoom` or leaves it alone (`UsesMediaRooms`). With
  `RoomIsMediaRoom` of `SfuProofs` the two sides meet in one contract.
* `WorkerManagerProofs`: `PoolInv` adds to the two invariants that no worker is
  ever outside the pool.
* `CallTranslationProofs`: one connection, and translations only for the room's
  present session if it has sent on this connection.
* `DirectMessageProofs`: whoever is between setting and releasing the lock is
  named in Redis, unless a lock has expired under its holder (`HolderInv`). For
  `StoredRoomIsShared` this is needed as a step: without faults the holder is the
  only one between the creation of a room and its acceptance, so that a room that
  another request finds, in Redis or in Core's list, has been accepted (`SharedInv`).
  `RoomsPaidFor` counts: as long as no invitation is accepted, the requests that have a room
  or may still make one are the holder of the lock and those that a fault has paid for, where
  one that leaves its room open was paid for twice, since the lock it releases may be
  another's (`Budget`). From the first acceptance on every request finds that room, and the
  rooms to come (`Promised`) become fewer.
* `ClientApiProofs`, chat: room names and conversations are one-to-one
  (`NamesAreConversations`: two sorted pairs are equal exactly when the unordered
  ones are), and a socket's rooms are the names of what it has joined and not left
  (`RoomsInv`); the exactness of every relay follows.
* `ClientApiProofs`, notifications: `EntriesFollowStreams` is not inductive, since an
  ending stream drops an entry that may be another's. `BothOverlapped` says of two open
  streams of one user that both are in `overlapped`, hence whichever entry goes was
  that of the ending stream or of one known to be beside it. That lists reach their own
  user only needs `ListsOfTheirUsers`: the list a suspended request holds is of the user
  it will be sent to.
* `ClientApiProofs`, REST. The constants are the users with a token, the indexes, the
  notification types, the requests and the bound on a list (any number); the tables of routes and
  operations are the code's. Assumed is that a request fills in the path of the route it is
  meant for with parameters that are not spelt like a segment of another one, or matches none
  (`RequestsAssumption`), that indexes and segments of Core's paths differ
  (`IndexesAssumption`), and that a body has the fields of the DTO, each of which may be
  absent. What a client may send beyond that is in §6.
  - *Answers and reasons* (`AnswersTellOutcome`, `SideEffectsAlwaysJustified`). Neither
    property is inductive, as neither speaks of the steps still to be taken. `RunInv` says that
    each entry of `log`, and the first of `todo`, has its reason in the entry before it
    (`Reasoned`, `NextReasoned`), that all required steps so far are done, and that
    details come last. What it needs of the tables is one statement per operation, `InOrder`:
    what must precede what (`DirectMessageInOrder` for the one whose steps may be left out or
    repeated). That the invitation is accepted only after Core has made the room in the caller's
    name needs `ActsInv` besides.
  - *In whose name* (`CoreAlwaysActsForRequester`). `Asks` says of an operation which parameter
    is the caller's and which name what it is about; `Fits` of a route that it passes
    `@GetUser()` and the path's parameters in those positions, and is guarded if there is a
    caller; `Faithful`, of each route, that the two agree. That the route which matches
    first is the one meant (`RouteMeant`) follows from `Apart`: no request is for an
    earlier and a later route, within a controller by comparison of their paths, between
    controllers by their first segments (`ProperTogether`). `ActsInv` then carries `Acts` from
    `todo` to `log`. Its part `Lending` is about the one use of another user's name: it comes
    only in a request for a direct message, and only after the first step has found that the
    other user is not the caller.
  - *Bodies* (`BodiesAlwaysSound`). `Enough(dto, op)`: whatever body passes the rules of the DTO
    is sound after the conversion of the operation. It is shown for each pair that a route puts
    together (`Passes`). A body that spells a field both ways is not excluded; `Unchecked` says
    of each field when what goes to Core then has not been looked at by any rule. For
    `refresh_token`, `file_uuid` and the transcript that is a first spelling, empty or wrong,
    which hides a good second one: the code sends the first. For `last_read_message_idx` it is
    any body that gives both.
* `SfuProofs`: `SfuInv` = `MadeOK` (a resource is made on an earlier one, of the right
  kind), `RoomOK` (`NothingLeaks`, `NoDuplicates`, and that every held resource descends
  from the present router: otherwise closing the router would not close it), `QueueOK`,
  `AwaitOK` (what the head of the queue has asked mediasoup for is what it will find
  missing when the answer comes: the reason why `NoDuplicates` survives an await) and
  `CountsOK`. The step simulation of `MediaRoom` follows. `OnHeld` (what is held is
  on something held, or `belated`) gives `OnOwnTransport`, whatever mediasoup delivers
  too late.

* `ProducersProofs`: `ProducersInv` = types, `Informed` (`NobodyMissed` with the answer under
  way spelled out), `Hears` (who is in the call, or has passed `client.join`, is in
  the Socket.IO room: why no announcement is missed after the second listing) and
  `NotYet` (a join under way is of a socket that is no participant: why the failure
  of one takes nothing from a participant).

Every safety property that a run checks is proved, the findings of §4 apart. Only
model-checked is what the provers cannot state: the nine properties that hold under fairness
(`EveryCallReturns`, `DeletionCompletes`, `DisconnectReleases`, `DisconnectLeavesCore`,
`LostConnectionRetried`, `PoolRefilled`, `LockFreed`, `EveryRequestEnds`, `PushReachesStream`)
and, of `ImplementsSerialQueue`, that every queue moves on. No run checks `UsesMediaRooms`; the
theorem stands alone.

## 6. Not modelled

* Core, Redis, mediasoup, Socket.IO and the AI server beyond what the code uses of
  them. In `Sfu` the constant `Late` says for which resources mediasoup may still
  answer a request after what it was asked of has closed; the repository does not tell, and
  the run takes `{"router", "transport"}`. The first is the case `ensureLive` is written for.
  It does not look at the transport: a producer or consumer that is delivered when its
  transport has closed is entered all the same (`belated`) and stays until it is closed or
  its peer leaves.
* ICE, DTLS and RTP parameters; whether a producer or consumer is paused, which
  layers it has, whether a transport is connected (`Use` is any request for one of
  these); formatting.
* Of REST answers: their data. `convertKeysToCamelCase` and what the services make of
  Core's records (a direct-message room under its peer's name, an uploaded file under its
  URL) are left out, and so is the order of the participants and of `call_state` in the
  answer to a join. Of bodies: `thumbnail_uuid`, which the code sets to null in an
  update without a file, and fields that no DTO has: the REST pipe has no whitelist, so `main.ts` lets them through
  to Core. A request that fills in a parameter with a segment of another route (`users/me` for a
  user of that number) is not modelled: parameters are numbers, notification types or UUIDs.
* Which of the invitee's notifications `acceptDirectMessageInvitation` takes for invitations
  (type, actor, time, order): `RestApi` tries up to `MaxList` of them, and `DirectMessage` may
  accept other invitations of the inviter before that to the room.
* `CallsGateway.handleConnection`: the verification of a call socket's token, which unlike
  the chat's tells the client when it is ready. In `Calls` sockets are verified.
* Order among lists of notifications: two that are fetched at once may arrive in either
  order, which `Notifications` allows and no property excludes.
* The superseded `call-rooms/` and `calls/chat.*`, which no module provides; the wiring of
  modules, CORS and the text of `app.service.ts`.

## 7. Plan

Done: the modules and proofs above. What would come next:

1. The authentication of `CallsGateway.handleConnection`, and the other media requests in
   `Calls` (`mediaRequest` against replacement and disconnect).
2. A composition of `Calls` with two executors (users, rooms) on a small instance,
   to check that their nesting cannot deadlock.
3. Proofs: a statement of liveness as steps of a variant function that TLAPS can check
   (each operation of `Calls` passes its stages in an order without cycles).
