---------------------------- MODULE RequestBodies ----------------------------
(***************************************************************************)
(* The bodies and queries of REST requests: what the DTO classes let       *)
(* through ValidationPipe (main.ts), and what the services make of it for  *)
(* Core.                                                                   *)
(*                                                                         *)
(* A body gives each field of its DTO a value.  A value is "absent",       *)
(* "null", "empty" (the empty string or array, whichever the field's rule  *)
(* asks for), "wrong" (not empty, and against another rule of the field)   *)
(* or "good"; some fields have values of their own.  A form's 'true' is    *)
(* the Boolean: parseFormBoolean comes before the rules.                   *)
(*                                                                         *)
(* Several fields have two spellings, of which a client is to give one;    *)
(* the rule of each depends on the other.                                  *)
(***************************************************************************)

Nothing == {"absent", "null"}        (* what ?? and IsOptional() pass over   *)
Falsy == {"absent", "null", "empty"} (* what ! is true of                    *)

\* The fields of the DTO classes; what else a client sends no rule looks at.
Fields(dto) ==
  CASE dto = "LoginDto" -> {"email", "password"}
    [] dto = "EmailSendDto" -> {"email"}
    [] dto = "EmailVerificationDto" -> {"email", "code"}
    [] dto = "RegisterDto" -> {"id", "email", "password", "nickname", "profile_image_uuid"}
    [] dto = "RefreshTokenDto" -> {"refresh_token", "refreshToken"}
    [] dto = "UpdateMyInformationDto" -> {"nickname", "statusMessage"}
    [] dto = "UpdatePasswordDto" -> {"currentPassword", "newPassword"}
    [] dto = "JoinCallRoomDto" -> {"password"}
    [] dto \in {"CreateCallRoomDto", "UpdateCallRoomDto"} ->
         {"title", "description", "category", "password", "maxParticipant", "isPublic"}
    [] dto = "GetCallRoomsQueryDto" -> {"page", "size", "sort", "category"}
    [] dto = "GetCallRoomsByKeywordQueryDto" -> {"keyword", "page", "size", "sort", "category"}
    [] dto \in {"AddQuickSlotDto", "EditQuickSlotDto"} -> {"iconUuid", "name", "description"}
    [] dto = "SetPresetDto" -> {"quickSlotIds"}
    [] dto = "UpdateNotificationSettingDto" -> {"enabled"}
    [] dto = "CreateDirectMessageRoomDto" -> {"targetUserIdx"}
    [] dto = "ReplyChatRoomInvitationDto" -> {"accept"}
    [] dto = "GetChatMessagesQueryDto" -> {"cursor", "size"}
    [] dto = "SendChatMessageDto" -> {"type", "message", "file_uuid", "fileUuid"}
    [] dto = "ReadChatRoomDto" -> {"last_read_message_idx", "lastReadMessageIdx"}
    [] dto = "CreateMeetingMinutesDto" ->
         {"title", "transcript", "content", "participants", "aiSummary", "ai_summary", "conclusion"}
    [] dto = "UpdateMeetingMinutesDto" -> {"title", "content", "conclusion"}
    [] OTHER -> {}

----------------------------------------------------------------------------
(* The rules.                                                              *)

Good(b, fields) == \A f \in fields : b[f] = "good"
GoodIfGiven(b, fields) == \A f \in fields : b[f] \in Nothing \cup {"good"}
TextIfGiven(b, fields) == \A f \in fields : b[f] \in Nothing \cup {"empty", "good"}
NotEmpty(b, fields) == \A f \in fields : b[f] \notin Falsy
NotEmptyIfGiven(b, fields) == \A f \in fields : b[f] # "empty"

LoginDto(b) == Good(b, {"email", "password"})
EmailSendDto(b) == Good(b, {"email"})
EmailVerificationDto(b) == Good(b, {"email", "code"})
RegisterDto(b) ==
  Good(b, {"id", "email", "password", "nickname"}) /\ TextIfGiven(b, {"profile_image_uuid"})
RefreshTokenDto(b) ==
  /\ b.refreshToken \in Falsy => b.refresh_token = "good"
  /\ b.refresh_token \in Falsy => b.refreshToken = "good"

UpdateMyInformationDto(b) == NotEmptyIfGiven(b, {"nickname", "statusMessage"})
UpdatePasswordDto(b) == NotEmpty(b, {"currentPassword", "newPassword"})

JoinCallRoomDto(b) == GoodIfGiven(b, {"password"})
CreateCallRoomDto(b) ==
  /\ Good(b, {"title", "description", "category", "maxParticipant"})
  /\ b.isPublic \in {"true", "false"}
  /\ b.isPublic = "false" => b.password = "good"

\* (Mutant: the password is looked at only if one is given.)
UpdateCallRoomDto_IfGiven(b) ==
  /\ GoodIfGiven(b, {"title", "description", "category", "maxParticipant"})
  /\ b.isPublic \in Nothing \cup {"true", "false"}
  /\ b.password # "absent" => b.password = "good"
UpdateCallRoomDto(b) ==
  /\ GoodIfGiven(b, {"title", "description", "category", "maxParticipant"})
  /\ b.isPublic \in Nothing \cup {"true", "false"}
  /\ b.isPublic = "false" \/ b.password # "absent" => b.password = "good"
GetCallRoomsQueryDto(b) == GoodIfGiven(b, {"page", "size", "sort", "category"})
GetCallRoomsByKeywordQueryDto(b) == Good(b, {"keyword"}) /\ GetCallRoomsQueryDto(b)

AddQuickSlotDto(b) == Good(b, {"iconUuid", "name", "description"})
EditQuickSlotDto(b) == Good(b, {"iconUuid", "name", "description"})
SetPresetDto(b) == b.quickSlotIds \in {"empty", "good"}

UpdateNotificationSettingDto(b) == Good(b, {"enabled"})

CreateDirectMessageRoomDto(b) == Good(b, {"targetUserIdx"})
ReplyChatRoomInvitationDto(b) == Good(b, {"accept"})
GetChatMessagesQueryDto(b) == GoodIfGiven(b, {"cursor", "size"})
SendChatMessageDto(b) ==
  /\ b.type \in {"TEXT", "FILE"}
  /\ b.type = "TEXT" => b.message = "good"
  /\ b.type = "FILE" /\ b.fileUuid \in Falsy => b.file_uuid = "good"
  /\ b.type = "FILE" /\ b.file_uuid \in Falsy => b.fileUuid = "good"
ReadChatRoomDto(b) ==
  /\ b.lastReadMessageIdx = "absent" => b.last_read_message_idx = "good"
  /\ b.last_read_message_idx = "absent" => b.lastReadMessageIdx = "good"

\* A transcript may be any value that is not empty, an array ("list") also.
CreateMeetingMinutesDto(b) ==
  /\ Good(b, {"title"})
  /\ b.content \in Falsy => b.transcript \notin Falsy
  /\ b.transcript \in Falsy => b.content = "good"
  /\ b.participants \in {"empty", "good"}
  /\ TextIfGiven(b, {"aiSummary", "ai_summary"})
  /\ b.conclusion \in {"empty", "wrong", "good"}
UpdateMeetingMinutesDto(b) ==
  /\ GoodIfGiven(b, {"title", "content"})
  /\ b.conclusion \in Nothing \cup {"empty", "wrong", "good"}

Valid(dto, b) ==
  CASE dto = "LoginDto" -> LoginDto(b)
    [] dto = "EmailSendDto" -> EmailSendDto(b)
    [] dto = "EmailVerificationDto" -> EmailVerificationDto(b)
    [] dto = "RegisterDto" -> RegisterDto(b)
    [] dto = "RefreshTokenDto" -> RefreshTokenDto(b)
    [] dto = "UpdateMyInformationDto" -> UpdateMyInformationDto(b)
    [] dto = "UpdatePasswordDto" -> UpdatePasswordDto(b)
    [] dto = "JoinCallRoomDto" -> JoinCallRoomDto(b)
    [] dto = "CreateCallRoomDto" -> CreateCallRoomDto(b)
    [] dto = "UpdateCallRoomDto" -> UpdateCallRoomDto(b)
    [] dto = "GetCallRoomsQueryDto" -> GetCallRoomsQueryDto(b)
    [] dto = "GetCallRoomsByKeywordQueryDto" -> GetCallRoomsByKeywordQueryDto(b)
    [] dto = "AddQuickSlotDto" -> AddQuickSlotDto(b)
    [] dto = "EditQuickSlotDto" -> EditQuickSlotDto(b)
    [] dto = "SetPresetDto" -> SetPresetDto(b)
    [] dto = "UpdateNotificationSettingDto" -> UpdateNotificationSettingDto(b)
    [] dto = "CreateDirectMessageRoomDto" -> CreateDirectMessageRoomDto(b)
    [] dto = "ReplyChatRoomInvitationDto" -> ReplyChatRoomInvitationDto(b)
    [] dto = "GetChatMessagesQueryDto" -> GetChatMessagesQueryDto(b)
    [] dto = "SendChatMessageDto" -> SendChatMessageDto(b)
    [] dto = "ReadChatRoomDto" -> ReadChatRoomDto(b)
    [] dto = "CreateMeetingMinutesDto" -> CreateMeetingMinutesDto(b)
    [] dto = "UpdateMeetingMinutesDto" -> UpdateMeetingMinutesDto(b)
    [] OTHER -> TRUE  (* no DTO, or a body of any shape                      *)

----------------------------------------------------------------------------
(* What Core is sent.                                                      *)

\* x ?? y
Else(x, y) == IF x \in Nothing THEN y ELSE x

\* convertKeysToSnakeCase(), as far as the names of these fields go.
SnakeNames ==
  [statusMessage |-> "status_message", currentPassword |-> "current_password",
   newPassword |-> "new_password", isPublic |-> "is_public",
   maxParticipant |-> "max_participant", aiSummary |-> "ai_summary"]
toSnakeCase(f) == IF f \in DOMAIN SnakeNames THEN SnakeNames[f] ELSE f
convertKeysToSnakeCase(b) ==
  [g \in {toSnakeCase(f) : f \in DOMAIN b} |-> b[CHOOSE f \in DOMAIN b : toSnakeCase(f) = g]]

\* (Mutant: the second spelling is forgotten.)
toRefreshTokenRequest_OneSpelling(b) == [refresh_token |-> b.refresh_token]
toRefreshTokenRequest(b) == [refresh_token |-> Else(b.refresh_token, b.refreshToken)]

normalizeSendMessageBody(b) ==
  IF b.type = "FILE" THEN [type |-> b.type, file_uuid |-> Else(b.file_uuid, b.fileUuid)]
                     ELSE [type |-> b.type, message |-> b.message]

readChatRoomBody(b) ==
  [last_read_message_idx |-> Else(b.last_read_message_idx, b.lastReadMessageIdx)]

\* The array as it is, or else the one entry of the array that is made.
normalizeTranscript(b) ==
  IF b.transcript = "list" THEN "list" ELSE Else(b.content, Else(b.transcript, "empty"))

normalizeSaveBody(b) ==
  [title |-> b.title, transcript |-> normalizeTranscript(b), participants |-> b.participants,
   aiSummary |-> Else(b.aiSummary, b.ai_summary), conclusion |-> b.conclusion]

\* The indices of the call and the user are with the step that publishes it.
normalizeCreateBody(b) ==
  [title |-> b.title, transcript |-> normalizeTranscript(b), participants |-> b.participants,
   ai_summary |-> Else(b.aiSummary, Else(b.ai_summary, "empty")), conclusion |-> b.conclusion]

normalizeUpdateBody(b) ==
  [title |-> b.title, content |-> b.content, conclusion |-> b.conclusion]

quickSlotRequest(b) ==
  [icon_uuid |-> b.iconUuid, name |-> b.name, description |-> b.description]

\* What the operation op sends of the body b.
Passed(op, b) ==
  CASE op \in {"joinCallRoom", "createCallRoom", "updateCallRoomById",
               "updateMyInformation", "updatePassword"} -> convertKeysToSnakeCase(b)
    [] op \in {"refreshToken", "deleteRefreshToken"} -> toRefreshTokenRequest(b)
    [] op = "sendMessage" -> normalizeSendMessageBody(b)
    [] op = "readChatRoom" -> readChatRoomBody(b)
    [] op = "saveMeetingMinutes" -> convertKeysToSnakeCase(normalizeSaveBody(b))
    [] op = "createMeetingMinutes" -> normalizeCreateBody(b)
    [] op = "updateMeetingMinutes" -> convertKeysToSnakeCase(normalizeUpdateBody(b))
    [] op \in {"addQuickSlot", "editQuickSlot"} -> quickSlotRequest(b)
    [] op = "setPreset" -> [quick_slot_ids |-> b.quickSlotIds]
    [] OTHER -> b

=============================================================================
