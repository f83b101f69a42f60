----------------------------- MODULE RestRoutes -----------------------------
(***************************************************************************)
(* The REST interface as tables: what the decorators of the controllers    *)
(* declare and the services ask of Core.  RestApi gives them their meaning.*)
(*                                                                         *)
(* A route names an operation of a service and the arguments it is called  *)
(* with, by position.  An operation has parameters, by position as well,   *)
(* and steps in which the parameters occur by name.  Nearly all of them    *)
(* are numbers, so that nothing but the order tells a user's index from    *)
(* that of a room, a friend or an invitation.                              *)
(***************************************************************************)
EXTENDS Sequences

----------------------------------------------------------------------------
(* Controllers.  A path is a sequence of segments, and a segment with a    *)
(* colon is a parameter.                                                   *)

IntParams == {":roomIdx", ":userIdx", ":minutesIdx", ":quickSlotIdx", ":chatRoomIdx",
              ":invitationIdx", ":notificationIdx"}     (* ParseIntPipe      *)
EnumParams == {":notificationType"}                     (* ParseEnumPipe     *)
PathParams == IntParams \cup EnumParams \cup {":mediaUUID"}

Route(verb, path, guarded, dto, op, args) ==
  [verb |-> verb, path |-> path, guarded |-> guarded, dto |-> dto, op |-> op, args |-> args]
Open(verb, path, dto, op, args) == Route(verb, path, FALSE, dto, op, args)
Guarded(verb, path, dto, op, args) == Route(verb, path, TRUE, dto, op, args)

AppController == << Open("GET", <<>>, "", "getInfo", <<>>) >>

AuthController == <<
  Open("POST", <<"auth", "login">>, "LoginDto", "login", <<"body">>),
  Open("POST", <<"auth", "email-send">>, "EmailSendDto", "sendEmailVerification", <<"body">>),
  Open("POST", <<"auth", "email-verification">>, "EmailVerificationDto", "verifyEmail", <<"body">>),
  Open("POST", <<"auth", "register">>, "RegisterDto", "register", <<"body">>),
  Open("POST", <<"auth", "refresh">>, "RefreshTokenDto", "refreshToken", <<"body">>),
  Open("DELETE", <<"auth", "refresh-token">>, "RefreshTokenDto", "deleteRefreshToken", <<"body">>),
  Open("POST", <<"auth", "recover">>, "", "recover", <<>>),
  Open("POST", <<"auth", "logout">>, "", "logout", <<>>) >>

UsersController == <<
  Guarded("DELETE", <<"users", "withdraw">>, "", "withdrawAccount", <<"user">>),
  Guarded("GET", <<"users", "me">>, "", "getMyInformation", <<"user">>),
  Open("GET", <<"users", ":userIdx">>, "", "getUserInformation", <<":userIdx">>),
  Guarded("PATCH", <<"users", "me">>, "UpdateMyInformationDto", "updateMyInformation",
          <<"file", "body", "user">>),
  Guarded("PATCH", <<"users", "password">>, "UpdatePasswordDto", "updatePassword",
          <<"body", "user">>),
  Open("GET", <<"users">>, "", "getSpecifyUserInformation", <<"arg">>) >>

\* FriendService takes the caller first or last.
FriendController == <<
  Guarded("POST", <<"friend">>, "", "sendFriendRequest", <<"arg", "user">>),
  Guarded("GET", <<"friend">>, "", "getFriendList", <<"user">>),
  Guarded("GET", <<"friend", "count">>, "", "getFriendCount", <<"user">>),
  Guarded("GET", <<"friend", "pending">>, "", "getPendingFriendRequests", <<"user">>),
  Guarded("POST", <<"friend", "accept">>, "", "acceptFriendRequest", <<"user", "arg">>),
  Guarded("POST", <<"friend", "reject">>, "", "rejectFriendRequest", <<"user", "arg">>),
  Guarded("DELETE", <<"friend">>, "", "unfriend", <<"user", "arg">>) >>

NotificationsController == <<
  Guarded("GET", <<"notifications">>, "", "subscribe", <<"user">>),
  Guarded("PATCH", <<"notifications", ":notificationIdx", "read">>, "", "readNotification",
          <<":notificationIdx", "user">>),
  Guarded("GET", <<"notifications", "settings">>, "", "getNotificationSetting", <<"user">>),
  Guarded("PATCH", <<"notifications", "settings", ":notificationType">>,
          "UpdateNotificationSettingDto", "updateNotificationSetting",
          <<":notificationType", "body", "user">>) >>

MediasController == <<
  Guarded("POST", <<"medias">>, "", "uploadMedia", <<"file", "user">>),
  Guarded("GET", <<"medias", ":mediaUUID">>, "", "getMediaByUUID", <<":mediaUUID", "user">>) >>

CallsController == <<
  Guarded("POST", <<"calls", ":roomIdx", "join">>, "", "joinCall", <<":roomIdx", "user">>),
  Guarded("DELETE", <<"calls", ":roomIdx", "leave">>, "", "leaveCall", <<":roomIdx", "user">>),
  Guarded("GET", <<"calls", ":roomIdx", "state">>, "", "getCallState", <<":roomIdx", "user">>),
  Guarded("GET", <<"calls", ":roomIdx", "participants">>, "", "getParticipantsByRoomIdx",
          <<":roomIdx", "user">>) >>

CallRoomsController == <<
  Guarded("POST", <<"call-rooms", ":roomIdx", "join">>, "JoinCallRoomDto", "joinCallRoom",
          <<"body", ":roomIdx", "user">>),
  Guarded("POST", <<"call-rooms">>, "CreateCallRoomDto", "createCallRoom",
          <<"file", "body", "user">>),
  Open("GET", <<"call-rooms">>, "GetCallRoomsQueryDto", "getCallRooms", <<"body">>),
  Open("GET", <<"call-rooms", "search">>, "GetCallRoomsByKeywordQueryDto",
       "getCallRoomsByKeyword", <<"body">>),
  Open("GET", <<"call-rooms", ":roomIdx">>, "", "getCallRoomById", <<":roomIdx">>),
  Guarded("PATCH", <<"call-rooms", ":roomIdx">>, "UpdateCallRoomDto", "updateCallRoomById",
          <<"file", "body", ":roomIdx", "user">>),
  Guarded("DELETE", <<"call-rooms", ":roomIdx">>, "", "deleteCallRoomById",
          <<":roomIdx", "user">>),
  Guarded("DELETE", <<"call-rooms", ":roomIdx", "leave">>, "", "leaveCallRoomById",
          <<":roomIdx", "user">>) >>

QuickSlotController == <<
  Guarded("POST", <<"quick-slot">>, "AddQuickSlotDto", "addQuickSlot", <<"body", "user">>),
  Guarded("GET", <<"quick-slot">>, "", "getUploadedQuickSlots", <<"user">>),
  Guarded("GET", <<"quick-slot", "preset">>, "", "getActivePreset", <<"user">>),
  Guarded("PATCH", <<"quick-slot", "preset">>, "SetPresetDto", "setPreset", <<"body", "user">>),
  Guarded("PATCH", <<"quick-slot", ":quickSlotIdx">>, "EditQuickSlotDto", "editQuickSlot",
          <<":quickSlotIdx", "body", "user">>),
  Guarded("DELETE", <<"quick-slot", ":quickSlotIdx">>, "", "deleteQuickSlot",
          <<":quickSlotIdx", "user">>) >>

MeetingsController == <<
  Guarded("POST", <<"meetings", "start", "calls", ":roomIdx">>, "", "startMeeting",
          <<":roomIdx", "user">>),
  Guarded("POST", <<"meetings", "start", "rooms", ":roomIdx">>, "", "startMeeting",
          <<":roomIdx", "user">>),
  Guarded("POST", <<"meetings", ":minutesIdx", "end">>, "", "endMeeting",
          <<":minutesIdx", "user">>),
  Guarded("POST", <<"meetings", "calls", ":roomIdx">>, "CreateMeetingMinutesDto",
          "saveMeetingMinutes", <<":roomIdx", "body", "user">>),
  Guarded("POST", <<"meetings", "rooms", ":roomIdx">>, "CreateMeetingMinutesDto",
          "createMeetingMinutes", <<":roomIdx", "body", "user">>),
  Guarded("GET", <<"meetings", "rooms", ":roomIdx">>, "", "getMeetingMinutesByRoomIdx",
          <<":roomIdx", "user">>),
  Guarded("GET", <<"meetings", ":minutesIdx">>, "", "getMeetingMinutesByIdx",
          <<":minutesIdx", "user">>),
  Guarded("PATCH", <<"meetings", ":minutesIdx">>, "UpdateMeetingMinutesDto",
          "updateMeetingMinutes", <<":minutesIdx", "body", "user">>) >>

ChatRoomsController == <<
  Guarded("POST", <<"chat-rooms">>, "", "createChatRoom", <<"body", "user">>),
  Guarded("GET", <<"chat-rooms">>, "", "getChatRooms", <<"user">>),
  Guarded("POST", <<"chat-rooms", "dm">>, "CreateDirectMessageRoomDto",
          "getOrCreateDirectMessageRoom", <<"arg", "user">>),
  Guarded("PATCH", <<"chat-rooms", "invitations", ":invitationIdx">>,
          "ReplyChatRoomInvitationDto", "replyInvitation", <<":invitationIdx", "body", "user">>),
  Guarded("GET", <<"chat-rooms", ":chatRoomIdx">>, "", "getChatRoom", <<":chatRoomIdx", "user">>),
  Guarded("GET", <<"chat-rooms", ":chatRoomIdx", "messages">>, "GetChatMessagesQueryDto",
          "getMessages", <<":chatRoomIdx", "body", "user">>),
  Guarded("POST", <<"chat-rooms", ":chatRoomIdx", "messages">>, "SendChatMessageDto",
          "sendMessage", <<":chatRoomIdx", "body", "user">>),
  Guarded("PATCH", <<"chat-rooms", ":chatRoomIdx", "read">>, "ReadChatRoomDto",
          "readChatRoom", <<":chatRoomIdx", "body", "user">>) >>

\* In the order of AppModule; no two controllers have routes for one path.
Routes ==
  AppController \o AuthController \o UsersController \o FriendController
    \o NotificationsController \o MediasController \o CallsController
    \o CallRoomsController \o QuickSlotController \o MeetingsController \o ChatRoomsController

----------------------------------------------------------------------------
(* Services.  A step of kind "core" is a request to Core; "as" names the   *)
(* parameter that X-User-Id carries, "" where there is none.               *)

Core(verb, path, as) == [kind |-> "core", verb |-> verb, path |-> path, as |-> as]
Get(path, as) == Core("get", path, as)
Post(path, as) == Core("post", path, as)
Patch(path, as) == Core("patch", path, as)
Delete(path, as) == Core("delete", path, as)
Step(kind, path, as) == [Core("", path, as) EXCEPT !.kind = kind]

Operation(params, steps) == [params |-> params, steps |-> steps]

\* MediasService.uploadMedia.  It wants a file; the operations with an optional file
\* call it if they are given one.
Upload(kind) == [Post(<<"medias", "upload">>, "userIdx") EXCEPT !.kind = kind]
Image == Upload("image")

AuthService ==
  [login |-> Operation(<<"body">>, <<Post(<<"auth", "login">>, "")>>),
   sendEmailVerification |-> Operation(<<"body">>, <<Post(<<"auth", "email-send">>, "")>>),
   verifyEmail |-> Operation(<<"body">>, <<Post(<<"auth", "email-verification">>, "")>>),
   register |-> Operation(<<"body">>, <<Post(<<"auth", "register">>, "")>>),
   refreshToken |-> Operation(<<"body">>, <<Post(<<"auth", "refresh">>, "")>>),
   deleteRefreshToken |-> Operation(<<"body">>, <<Delete(<<"auth", "refresh">>, "")>>)]

UsersService ==
  [withdrawAccount |-> Operation(<<"userIdx">>, <<Delete(<<"users", "withdraw">>, "userIdx")>>),
   getMyInformation |-> Operation(<<"userIdx">>, <<Get(<<"users", "me">>, "userIdx")>>),
   getUserInformation |-> Operation(<<"userIdx">>, <<Get(<<"users", "userIdx">>, "")>>),
   updateMyInformation |-> Operation(<<"file", "body", "userIdx">>,
      <<Image, Patch(<<"users", "me">>, "userIdx")>>),
   updatePassword |-> Operation(<<"body", "userIdx">>,
      <<Patch(<<"users", "password">>, "userIdx")>>),
   getSpecifyUserInformation |-> Operation(<<"userId">>, <<Get(<<"users", "userId">>, "")>>)]

\* (Mutant: the caller comes first here too.)
sendFriendRequest_CallerFirst ==
  Operation(<<"sendUserIdx", "targetUserIdx">>, <<Post(<<"friends", "targetUserIdx">>, "sendUserIdx")>>)
sendFriendRequest ==
  Operation(<<"targetUserIdx", "sendUserIdx">>, <<Post(<<"friends", "targetUserIdx">>, "sendUserIdx")>>)

FriendService ==
  [sendFriendRequest |-> sendFriendRequest,
   getFriendList |-> Operation(<<"userIdx">>, <<Get(<<"friends", "list">>, "userIdx")>>),
   getFriendCount |-> Operation(<<"userIdx">>, <<Get(<<"friends", "count">>, "userIdx")>>),
   getPendingFriendRequests |-> Operation(<<"userIdx">>, <<Get(<<"friends">>, "userIdx")>>),
   acceptFriendRequest |-> Operation(<<"userIdx", "friendshipIdx">>,
      <<Patch(<<"friends", "friendshipIdx">>, "userIdx")>>),
   rejectFriendRequest |-> Operation(<<"userIdx", "friendshipIdx">>,
      <<Patch(<<"friends", "friendshipIdx">>, "userIdx")>>),
   unfriend |-> Operation(<<"userIdx", "friendUserIdx">>,
      <<Delete(<<"friends", "friendUserIdx">>, "userIdx")>>)]

\* subscribe is module Notifications; it answers with a stream at once.
NotificationsService ==
  [subscribe |-> Operation(<<"userIdx">>, <<Step("local", <<"subscribe">>, "userIdx")>>),
   readNotification |-> Operation(<<"notificationIdx", "userIdx">>,
      <<Patch(<<"notifications", "notificationIdx", "read">>, "userIdx")>>),
   getNotificationSetting |-> Operation(<<"userIdx">>,
      <<Get(<<"notifications", "settings">>, "userIdx")>>),
   updateNotificationSetting |-> Operation(<<"notificationType", "body", "userIdx">>,
      <<Patch(<<"notifications", "settings", "notificationType">>, "userIdx")>>)]

MediasService ==
  [uploadMedia |-> Operation(<<"file", "userIdx">>, <<Upload("upload")>>),
   getMediaByUUID |-> Operation(<<"mediaUUID", "userIdx">>,
      <<Get(<<"medias", "mediaUUID">>, "userIdx")>>)]

\* The sessions of the call are module Calls; here they are steps of kind "local".
CallsService ==
  [joinCall |-> Operation(<<"roomIdx", "userIdx">>,
      <<Post(<<"calls", "roomIdx", "join">>, "userIdx")>>),
   leaveCall |-> Operation(<<"roomIdx", "userIdx">>,
      <<Post(<<"calls", "roomIdx", "leave">>, "userIdx"),
        Step("local", <<"detach", "roomIdx">>, "userIdx")>>),
   getCallState |-> Operation(<<"roomIdx", "userIdx">>,
      <<Step("authorize", <<"deleted", "roomIdx">>, "userIdx"),
        Get(<<"calls", "roomIdx", "participants">>, "userIdx"),
        Step("authorize", <<"participates", "roomIdx">>, "userIdx")>>),
   getParticipantsByRoomIdx |-> Operation(<<"roomIdx", "userIdx">>,
      <<Get(<<"calls", "roomIdx", "participants">>, "userIdx")>>)]

\* (Mutant: the sessions are ended before Core has agreed.)
deleteCallRoomById_CloseFirst ==
  Operation(<<"roomIdx", "userIdx">>,
    <<Step("local", <<"closeRoom", "roomIdx">>, "userIdx"),
      Delete(<<"rooms", "roomIdx">>, "userIdx")>>)
deleteCallRoomById ==
  Operation(<<"roomIdx", "userIdx">>,
    <<Delete(<<"rooms", "roomIdx">>, "userIdx"),
      Step("local", <<"closeRoom", "roomIdx">>, "userIdx")>>)

CallRoomsService ==
  [joinCallRoom |-> Operation(<<"body", "roomIdx", "userIdx">>,
      <<Post(<<"rooms", "roomIdx", "join">>, "userIdx")>>),
   createCallRoom |-> Operation(<<"file", "body", "userIdx">>,
      <<Image, Post(<<"rooms">>, "userIdx")>>),
   getCallRooms |-> Operation(<<"query">>, <<Get(<<"rooms">>, "")>>),
   getCallRoomsByKeyword |-> Operation(<<"query">>, <<Get(<<"rooms", "search">>, "")>>),
   getCallRoomById |-> Operation(<<"roomIdx">>, <<Get(<<"rooms", "roomIdx">>, "")>>),
   updateCallRoomById |-> Operation(<<"file", "body", "roomIdx", "userIdx">>,
      <<Image, Patch(<<"rooms", "roomIdx">>, "userIdx")>>),
   deleteCallRoomById |-> deleteCallRoomById,
   leaveCallRoomById |-> Operation(<<"roomIdx", "userIdx">>,
      <<Delete(<<"rooms", "roomIdx", "leave">>, "userIdx"),
        Step("local", <<"leaveActiveCall", "roomIdx">>, "userIdx")>>)]

QuickSlotService ==
  [addQuickSlot |-> Operation(<<"body", "userIdx">>, <<Post(<<"quick-slots">>, "userIdx")>>),
   getUploadedQuickSlots |-> Operation(<<"userIdx">>, <<Get(<<"quick-slots">>, "userIdx")>>),
   getActivePreset |-> Operation(<<"userIdx">>, <<Get(<<"quick-slots", "preset">>, "userIdx")>>),
   setPreset |-> Operation(<<"body", "userIdx">>, <<Patch(<<"quick-slots">>, "userIdx")>>),
   editQuickSlot |-> Operation(<<"quickSlotIdx", "body", "userIdx">>,
      <<Patch(<<"quick-slots", "quickSlotIdx">>, "userIdx")>>),
   deleteQuickSlot |-> Operation(<<"quickSlotIdx", "userIdx">>,
      <<Delete(<<"quick-slots", "quickSlotIdx">>, "userIdx")>>)]

\* MeetingsService.resolveCallIdxByRoomIdx: the call of a room is found out from its
\* participants or, if the user is none of them, by joining it.
resolveCallIdxByRoomIdx ==
  <<[Get(<<"calls", "roomIdx", "participants">>, "userIdx") EXCEPT !.kind = "resolve"],
    [Post(<<"calls", "roomIdx", "join">>, "userIdx") EXCEPT !.kind = "join"]>>

\* callIdx is what the resolution has answered.
MeetingsService ==
  [startMeeting |-> Operation(<<"roomIdx", "userIdx">>,
      resolveCallIdxByRoomIdx \o <<Post(<<"meetings", "start", "calls", "callIdx">>, "userIdx")>>),
   endMeeting |-> Operation(<<"minutesIdx", "userIdx">>,
      <<Post(<<"meetings", "minutesIdx", "end">>, "userIdx")>>),
   createMeetingMinutes |-> Operation(<<"roomIdx", "body", "userIdx">>,
      resolveCallIdxByRoomIdx \o <<Step("local", <<"xadd", "callIdx">>, "userIdx")>>),
   saveMeetingMinutes |-> Operation(<<"roomIdx", "body", "userIdx">>,
      resolveCallIdxByRoomIdx \o <<Post(<<"meetings", "calls", "callIdx">>, "userIdx")>>),
   getMeetingMinutesByRoomIdx |-> Operation(<<"roomIdx", "userIdx">>,
      <<Get(<<"meetings", "rooms", "roomIdx">>, "userIdx")>>),
   getMeetingMinutesByIdx |-> Operation(<<"minutesIdx", "userIdx">>,
      <<Get(<<"meetings", "minutesIdx">>, "userIdx")>>),
   updateMeetingMinutes |-> Operation(<<"minutesIdx", "body", "userIdx">>,
      <<Patch(<<"meetings", "minutesIdx">>, "userIdx")>>)]

createChatRoom == Operation(<<"body", "userIdx">>, <<Post(<<"chat-rooms">>, "userIdx")>>)
getChatRoom ==
  Operation(<<"chatRoomIdx", "userIdx">>, <<Get(<<"chat-rooms", "chatRoomIdx">>, "userIdx")>>)

\* A step of kind "detail" is that of decorateChatRoomSummary.
getChatRooms ==
  Operation(<<"userIdx">>,
    <<Get(<<"chat-rooms">>, "userIdx"),
      [Get(<<"chat-rooms", "each">>, "userIdx") EXCEPT !.kind = "detail"]>>)

\* What Redis keeps of direct-message rooms is module DirectMessage: "dm" is the look-up of
\* the room and the setting of the lock, or the wait for it; "store" is set() and, in
\* `finally', del() of the lock.  The room is looked for in Core and made in the caller's
\* name; the invitation is found, and accepted, in the name of the user who is invited.
getOrCreateDirectMessageRoom ==
  Operation(<<"targetUserIdx", "userIdx">>,
    <<Step("dm", <<"dm", "targetUserIdx">>, "userIdx"),
      [Get(<<"chat-rooms">>, "userIdx") EXCEPT !.kind = "find"],
      Post(<<"chat-rooms">>, "userIdx"),
      [Get(<<"notifications">>, "targetUserIdx") EXCEPT !.kind = "invitations"],
      [Patch(<<"chat-rooms", "invitations", "each">>, "targetUserIdx") EXCEPT !.kind = "accept"],
      Step("local", <<"store", "targetUserIdx">>, "userIdx"),
      Get(<<"chat-rooms", "found">>, "userIdx")>>)

ChatRoomsService ==
  [createChatRoom |-> createChatRoom, getChatRooms |-> getChatRooms, getChatRoom |-> getChatRoom,
   getOrCreateDirectMessageRoom |-> getOrCreateDirectMessageRoom,
   replyInvitation |-> Operation(<<"invitationIdx", "body", "userIdx">>,
      <<Patch(<<"chat-rooms", "invitations", "invitationIdx">>, "userIdx")>>),
   getMessages |-> Operation(<<"chatRoomIdx", "query", "userIdx">>,
      <<Get(<<"chat-rooms", "chatRoomIdx", "messages">>, "userIdx")>>),
   sendMessage |-> Operation(<<"chatRoomIdx", "body", "userIdx">>,
      <<Post(<<"chat-rooms", "chatRoomIdx", "messages">>, "userIdx")>>),
   readChatRoom |-> Operation(<<"chatRoomIdx", "body", "userIdx">>,
      <<Patch(<<"chat-rooms", "chatRoomIdx", "read">>, "userIdx")>>)]

\* Operations of the controllers themselves: getInfo() asks nobody, and the two
\* of the authentication that are not implemented throw.
NoService ==
  [getInfo |-> Operation(<<>>, <<>>),
   recover |-> Operation(<<>>, <<Step("notImplemented", <<>>, "")>>),
   logout |-> Operation(<<>>, <<Step("notImplemented", <<>>, "")>>)]

=============================================================================
