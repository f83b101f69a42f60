---------------------------- MODULE RestClients ----------------------------
(***************************************************************************)
(* The requests that clients send in the runs: for each route every token, *)
(* parameter and file with a proper body, and, with a good token, bodies   *)
(* that differ from a proper one in up to two fields, which is what it     *)
(* takes to reach every pair of rules that depend on each other.           *)
(***************************************************************************)
EXTENDS RestRoutes, RequestBodies

CONSTANTS v, w, (* two users                                               *)
          n     (* an index that is no user's                              *)

Values(f) ==
  CASE f = "isPublic" -> {"absent", "null", "wrong", "true", "false"}
    [] f = "type" -> {"absent", "wrong", "TEXT", "FILE"}
    [] f = "transcript" -> {"absent", "null", "empty", "wrong", "good", "list"}
    [] OTHER -> {"absent", "null", "empty", "wrong", "good"}

Plain(dto) == [f \in Fields(dto) |->
  CASE f = "isPublic" -> "true" [] f = "type" -> "TEXT" [] OTHER -> "good"]
FileOne == [Plain("SendChatMessageDto") EXCEPT !.type = "FILE"]

Varied(b) ==
  {b} \cup UNION {{[[b EXCEPT ![f] = x] EXCEPT ![g] = y] : x \in Values(f), y \in Values(g)} :
                    f, g \in DOMAIN b}
Bodies(dto) == Varied(Plain(dto)) \cup IF dto = "SendChatMessageDto" THEN Varied(FileOne) ELSE {}

Args(r) == {r.args[i] : i \in DOMAIN r.args}

\* A parameter of the query has no pipe: one that is missing is `undefined', in the path
\* as well.  The argument of POST /chat-rooms/dm is a field of its DTO.
NoArg(r) == IF r.dto = "" THEN {"undefined"} ELSE {}
Segments(r) == IF \E i \in DOMAIN r.path : r.path[i] \in PathParams THEN {n, w, "type", "word"} ELSE {n}
Filled(path, x) == [i \in DOMAIN path |-> IF path[i] \in PathParams THEN x ELSE path[i]]
Req(i, token, x, arg, file, body) ==
  [aim |-> i, verb |-> Routes[i].verb, path |-> Filled(Routes[i].path, x), token |-> token,
   arg |-> arg, file |-> file, body |-> body]
RequestsFor(i) == LET r == Routes[i] IN
  {Req(i, token, x, arg, file, Plain(r.dto)) :
     token \in {v, w, "none", "expired", "invalid"}, x \in Segments(r),
     arg \in IF "arg" \in Args(r) THEN {n, w} \cup NoArg(r) ELSE {n},
     file \in IF "file" \in Args(r) THEN BOOLEAN ELSE {FALSE}}
  \cup {Req(i, v, IF EnumParams \cap {r.path[k] : k \in DOMAIN r.path} # {} THEN "type" ELSE n, n, FALSE, b) : b \in Bodies(r.dto)}
MCRequests == UNION {RequestsFor(i) : i \in DOMAIN Routes}
  \cup {[Req(1, v, n, n, FALSE, Plain("")) EXCEPT !.path = <<"word">>]}

=============================================================================
