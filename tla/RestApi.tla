------------------------------- MODULE RestApi -------------------------------
(***************************************************************************)
(* A REST request on its way through the backend: JwtGuard, the choice of  *)
(* the route, the pipes, the controller's call of the service, the         *)
(* service's requests to Core one after the other (CoreHttpService), and   *)
(* the answer that the interceptor or an exception filter makes.           *)
(*                                                                         *)
(* The backend keeps nothing between these requests, nor does one see      *)
(* another, so that a behaviour is one request.  Core is external: it does *)
(* what it is asked, refuses, or fails with or without having done it.     *)
(***************************************************************************)
EXTENDS RestRoutes, RequestBodies, Naturals, FiniteSets

S == INSTANCE SequencesExt

CONSTANTS
  Callers,   (* the users with a token                                     *)
  Ids,       (* what ParseIntPipe takes                                    *)
  Types,     (* NotificationType                                           *)
  Requests,  (* the requests of clients: records as RestClients makes them *)
  MaxList    (* bound on the entries of a list of Core's that are gone     *)
             (* through: rooms with a direct message's name, invitations   *)

ASSUME MaxListAssumption == MaxList \in Nat

VARIABLES
  stage,     (* "idle", "received", "running", "answered"                  *)
  request,
  todo,      (* the steps of the operation still to be taken               *)
  log,       (* history: the steps taken, with their outcomes              *)
  sent,      (* history: the body passed on                                *)
  answer

restVars == <<stage, request, todo, log, sent, answer>>

NoRequest == [aim |-> 0]

RestInit ==
  /\ stage = "idle"
  /\ request = NoRequest
  /\ todo = <<>> /\ log = <<>>
  /\ sent = NoRequest
  /\ answer = "none"

\* The request has a token of a user, none, an expired or an invalid one.
Arrive ==
  /\ stage = "idle"
  /\ stage' = "received"
  /\ \E r \in Requests : request' = r
  /\ UNCHANGED <<todo, log, sent, answer>>

----------------------------------------------------------------------------
(* What stands before the handler.                                         *)

Matches(r, q) ==
  /\ r.verb = q.verb /\ Len(r.path) = Len(q.path)
  /\ \A i \in 1 .. Len(r.path) : r.path[i] \in PathParams \/ r.path[i] = q.path[i]

\* The first route that matches, in the order of their declaration.
Matching(q) == {i \in 1 .. Len(Routes) : Matches(Routes[i], q)}
RouteOf(q) == Routes[CHOOSE i \in Matching(q) : \A j \in Matching(q) : i <= j]

\* A request fills in the path of the route it is aimed at, and no parameter is spelt
\* like a segment of another route; or it matches none.  Its body has the fields of the DTO.
Literals == (UNION {S!ToSet(Routes[i].path) : i \in DOMAIN Routes}) \ PathParams
Fills(q, r) ==
  /\ Matches(r, q) /\ DOMAIN q.path = DOMAIN r.path
  /\ \A i \in DOMAIN r.path : r.path[i] \in PathParams => q.path[i] \notin Literals
ASSUME RequestsAssumption ==
  \A q \in Requests :
    /\ q.aim \in DOMAIN Routes
    /\ Fills(q, Routes[q.aim]) \/ Matching(q) = {}
    /\ DOMAIN q.body = Fields(Routes[q.aim].dto)

\* JwtGuard.
TokenError(token) ==
  CASE token = "none" -> "AUTH_007" [] token = "expired" -> "AUTH_002" [] OTHER -> "AUTH_001"
canActivate(r, q) == r.guarded => q.token \in Callers

PipesAccept(r, q) ==
  /\ \A i \in 1 .. Len(r.path) :
       /\ r.path[i] \in IntParams => q.path[i] \in Ids
       /\ r.path[i] \in EnumParams => q.path[i] \in Types
  /\ Valid(r.dto, q.body)

\* An exception before the handler; HttpExceptionFilter makes the answer.
Reject(error) ==
  /\ stage' = "answered"
  /\ answer' = error
  /\ UNCHANGED <<request, todo, log, sent>>

NoRoute == stage = "received" /\ Matching(request) = {} /\ Reject("notFound")

Unauthorized ==
  /\ stage = "received" /\ Matching(request) # {}
  /\ ~canActivate(RouteOf(request), request)
  /\ Reject(TokenError(request.token))

BadRequest ==
  /\ stage = "received" /\ Matching(request) # {}
  /\ LET r == RouteOf(request) IN canActivate(r, request) /\ ~PipesAccept(r, request)
  /\ Reject("badRequest")

----------------------------------------------------------------------------
(* The handler calls the service.                                          *)

Services ==
  << NoService, AuthService, UsersService, FriendService, NotificationsService, MediasService,
     CallsService, CallRoomsService, QuickSlotService, MeetingsService, ChatRoomsService >>
OperationOf(op) ==
  LET i == CHOOSE i \in DOMAIN Services : op \in DOMAIN Services[i] IN Services[i][op]

\* No index, type or user is spelt like a segment of a path of Core's.
Indexes == Ids \cup Types \cup Callers
ASSUME IndexesAssumption ==
  \A i \in DOMAIN Services : \A op \in DOMAIN Services[i] :
    \A s \in S!ToSet(Services[i][op].steps) : S!ToSet(s.path) \cap Indexes = {}

\* The value of an argument that the route r names: @GetUser(), a parameter of the
\* path or of the query, or a field of the body.
Argument(a, r, q) ==
  CASE a = "user" -> q.token
    [] a = "arg" -> q.arg
    [] a \in PathParams -> q.path[CHOOSE i \in DOMAIN r.path : r.path[i] = a]
    [] OTHER -> a

\* The steps of the operation, with its parameters bound to the arguments by
\* position.  An image comes first, and is uploaded if the request has a file.
Steps(r, q) ==
  LET o == OperationOf(r.op)
      Names == S!ToSet(o.params)
      Value(x) == IF x \in Names
                  THEN Argument(r.args[CHOOSE i \in DOMAIN o.params : o.params[i] = x], r, q)
                  ELSE x
      Bound(s) == [kind |-> s.kind, verb |-> s.verb,
                   path |-> [i \in DOMAIN s.path |-> Value(s.path[i])],
                   as |-> IF s.as = "" THEN {} ELSE {Value(s.as)}]
      all == [i \in DOMAIN o.steps |-> Bound(o.steps[i])]
  IN  IF all # <<>> /\ Head(all).kind = "image" /\ ~q.file THEN Tail(all) ELSE all

Dispatch ==
  /\ stage = "received" /\ Matching(request) # {}
  /\ LET r == RouteOf(request) IN
       /\ canActivate(r, request) /\ PipesAccept(r, request)
       /\ todo' = Steps(r, request)
       /\ sent' = Passed(r.op, request.body)
  /\ stage' = "running"
  /\ UNCHANGED <<request, log, answer>>

----------------------------------------------------------------------------
(* The steps of an operation.                                              *)

AtCore == {"core", "image", "upload", "resolve", "join", "detail", "find", "invitations", "accept"}

Running(kinds) == stage = "running" /\ todo # <<>> /\ Head(todo).kind \in kinds

Logged(outcome) == Append(log, [step |-> Head(todo), outcome |-> outcome])

GoOn(outcome, rest) ==
  /\ log' = Logged(outcome)
  /\ todo' = rest
  /\ UNCHANGED <<stage, request, sent, answer>>

\* The exception ends the operation, and a filter makes the answer.
Throw(outcome, error) ==
  /\ log' = Logged(outcome)
  /\ todo' = <<>>
  /\ stage' = "answered"
  /\ answer' = error
  /\ UNCHANGED <<request, sent>>

\* A file was required and is not there.
NoFile == Running({"upload"}) /\ ~request.file /\ Throw("thrown", "badRequest")

Asking == Running(AtCore) /\ (Head(todo).kind = "upload" => request.file)

\* The invitation just accepted was to another room, and the next one is tried.
Accepts == {i \in DOMAIN log : log[i].step.kind = "accept"}
Again == IF Cardinality(Accepts) + 1 < MaxList THEN {todo} ELSE {}

\* What is left when Core has done the first step: with the participants known no call
\* is joined, a list of rooms is followed by the details of those that are named like a
\* direct message's, a direct-message room that is found is stored and shown, and
\* invitations are accepted until one is to the room.
Rests ==
  CASE Head(todo).kind = "resolve" -> {Tail(Tail(todo))}
    [] Head(todo).kind = "core" /\ Len(todo) = 2 /\ todo[2].kind = "detail" ->
         {[i \in 1 .. n |-> todo[2]] : n \in 0 .. MaxList}
    [] Head(todo).kind = "find" -> {Tail(todo), <<todo[Len(todo) - 1], todo[Len(todo)]>>}
    [] Head(todo).kind = "accept" -> {Tail(todo)} \cup Again
    [] OTHER -> {Tail(todo)}

CoreDoes == Asking /\ \E rest \in Rests : GoOn("done", rest)

\* shouldJoinCallToResolveCallIdx(): Core answers 404 with one of four codes.
\* (Mutant: any refusal will do.)
shouldJoin_Any(outcome) == outcome \in {"absent", "refused"}
shouldJoin(outcome) == outcome = "absent"

\* What a failure is passed over for: the details of a list.  (Mutant: an image, as
\* if no file had been sent.)
passedOver_Image == {"detail", "image"}
passedOver == {"detail"}

Tolerated(outcome) ==
  \/ Head(todo).kind \in passedOver
  \/ Head(todo).kind = "resolve" /\ shouldJoin(outcome)

\* Core refuses: 404 with such a code, or otherwise; or it does not answer, or with
\* a 5xx, and may have done it.  AxiosExceptionFilter makes the answer: with Core's
\* status if there is one.
CoreRejects(outcome) ==
  /\ Asking
  /\ IF Tolerated(outcome) THEN GoOn(outcome, Tail(todo))
     ELSE Throw(outcome, IF outcome = "failed" THEN "serverError" ELSE "coreRefusal")

\* Steps in other modules and in Redis succeed or throw.
LocalDone == Running({"local"}) /\ GoOn("done", Tail(todo))
LocalThrows == Running({"local"}) /\ Throw("failed", "serverError")

\* authorize(): the room is deleted, or the user does not participate.
Authorized == Running({"authorize"}) /\ GoOn("done", Tail(todo))
Forbidden == Running({"authorize"}) /\ Throw("thrown", "forbidden")

\* getOrCreateDirectMessageRoom(): not with oneself.  The room is known, and shown, or
\* the request has the lock; or Redis fails, or nothing is known in time.
DirectMessage ==
  /\ Running({"dm"})
  /\ IF Head(todo).as = {request.arg} THEN Throw("thrown", "badRequest")
     ELSE \/ \E rest \in {Tail(todo), <<todo[Len(todo)]>>} : GoOn("done", rest)
          \/ Throw("failed", "serverError")

\* acceptDirectMessageInvitation(): there is no invitation to the room, or no other one.
NoInvitation == Running({"accept"}) /\ Throw("thrown", "serverError")

NotImplemented == Running({"notImplemented"}) /\ Throw("thrown", "notImplemented")

\* GlobalResponseInterceptor.
Succeed ==
  /\ stage = "running" /\ todo = <<>>
  /\ stage' = "answered"
  /\ answer' = "success"
  /\ UNCHANGED <<request, todo, log, sent>>

RestNext ==
  \/ Arrive
  \/ NoRoute \/ Unauthorized \/ BadRequest \/ Dispatch
  \/ NoFile \/ CoreDoes \/ \E outcome \in {"absent", "refused", "failed"} : CoreRejects(outcome)
  \/ LocalDone \/ LocalThrows \/ Authorized \/ Forbidden \/ DirectMessage \/ NoInvitation
  \/ NotImplemented \/ Succeed

RestSpec == RestInit /\ [][RestNext]_restVars

----------------------------------------------------------------------------
(* Properties                                                              *)

Taken == S!ToSet(log)
Named(path) == S!ToSet(path) \cap Indexes

\* The steps that are taken in the name of the user a direct message is to.
OnBehalf == {"invitations", "accept"}

\* Whatever a request has others do is about what the request names and nothing else,
\* and is the operation of the route the client meant.  It is done in the name of the
\* user whose token the request has, and without a valid token in nobody's.  There is
\* one exception: POST /chat-rooms/dm looks up and accepts the invitation in the name of
\* the other user, whom the body names.
CoreActsForRequester ==
  \A e \in Taken :
    /\ IF e.step.kind \in OnBehalf
       THEN /\ e.step.as = {request.arg} /\ request.arg # request.token
            /\ Routes[request.aim].op = "getOrCreateDirectMessageRoom"
       ELSE e.step.as \subseteq {request.token}
    /\ e.step.as # {} => request.token \in Callers
    /\ Named(e.step.path) \subseteq Named(request.path) \cup {request.arg}
    /\ Routes[request.aim].guarded => e.step.as # {}
    /\ RouteOf(request) = Routes[request.aim]

\* What goes before an entry of the log.
Before(e, f) == \E i, j \in DOMAIN log : i < j /\ log[i] = e /\ log[j] = f
Required(e) == e.step.kind # "detail" /\ ~(e.step.kind = "resolve" /\ e.outcome = "absent")

\* A client that is told of success can rely on every step, and one that is refused
\* before the handler on none; Core's refusal is told only when it ends the operation
\* and all before it was done; a list of rooms comes whatever their details do.
AnswerTellsOutcome ==
  /\ answer = "success" => \A e \in Taken : Required(e) => e.outcome = "done"
  /\ answer \in {"AUTH_007", "AUTH_002", "AUTH_001", "notFound"} => log = <<>>
  /\ answer = "coreRefusal" =>
       \A i \in DOMAIN log :
         Required(log[i]) => (log[i].outcome \in {"absent", "refused"}) = (i = Len(log))
  /\ answer # "none" /\ (\E e \in Taken : e.step.kind = "detail") => answer = "success"

\* An image is set: of a room, or of the user.
SetsImage(s) ==
  /\ s.kind = "core" /\ s.verb \in {"post", "patch"}
  /\ (s.path[1] = "rooms" /\ Len(s.path) < 3) \/ s.path = <<"users", "me">>

\* What the backend does of its own accord beside what was asked for has its reason:
\* sessions end after Core has agreed to it, a user is made a member of a call only
\* when Core says that he is none, a room or a user is given an image when the image
\* has been uploaded, and another user's name is used when Core has made the caller's
\* direct-message room.
SideEffectsJustified ==
  \A f \in Taken :
    /\ f.step.kind = "local" /\ f.step.path[1] \in {"detach", "closeRoom", "leaveActiveCall"} =>
         \E e \in Taken : Before(e, f) /\ e.outcome = "done" /\ e.step.as = f.step.as
    /\ f.step.kind = "join" =>
         \E e \in Taken : Before(e, f) /\ e.step.kind = "resolve" /\ e.outcome = "absent"
    /\ request.file /\ SetsImage(f.step) =>
         \E e \in Taken : Before(e, f) /\ e.step.kind = "image" /\ e.outcome = "done"
    /\ f.step.kind \in OnBehalf =>
         \E e \in Taken : /\ Before(e, f) /\ e.outcome = "done"
                          /\ e.step.verb = "post" /\ e.step.path = <<"chat-rooms">>
                          /\ e.step.as = {request.token}

\* The client has spelt a field both ways, and what is passed on is the first spelling, or
\* the second if the first is null, where no rule has looked at it.
Unchecked(f, b) ==
  CASE f = "refresh_token" -> b.refresh_token \notin Nothing /\ b.refreshToken \notin Falsy
    [] f = "file_uuid" -> b.file_uuid \notin Nothing /\ b.fileUuid \notin Falsy
    [] f = "last_read_message_idx" -> "absent" \notin {b.last_read_message_idx, b.lastReadMessageIdx}
    [] f = "transcript" -> b.content = "empty" /\ b.transcript \notin Falsy
    [] OTHER -> FALSE

\* What is passed on has its token, message, transcript or password whichever spelling the
\* client has used.  There is no such promise for a field spelt both ways: an empty or wrong
\* refresh_token, file_uuid or content beside a good second spelling goes to Core as it is.
BodiesSound ==
  stage # "idle" /\ sent # NoRequest =>
    /\ \A f \in {"refresh_token", "file_uuid", "last_read_message_idx", "message"} \cap DOMAIN sent :
         sent[f] = "good" \/ Unchecked(f, request.body)
    /\ "transcript" \in DOMAIN sent =>
         sent.transcript \notin Falsy \/ Unchecked("transcript", request.body)
    /\ {"is_public", "password"} \subseteq DOMAIN sent /\ sent.is_public = "false" =>
         sent.password = "good"

=============================================================================
