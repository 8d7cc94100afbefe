----------------------------- MODULE ApiProtocol -----------------------------
(***************************************************************************)
(* How ApiClient (api_client.cpp) reads what the server answers to wa_reg, *)
(* wa_task and wa_result.  The operators are pure: a reply goes in, the    *)
(* value the method returns (or the fact that it throws) comes out.        *)
(*                                                                         *)
(* A reply is abstracted to what the code branches on.  A scalar field     *)
(* that is missing, null or not a scalar reads as "" (string_field).       *)
(***************************************************************************)
EXTENDS Integers

CONSTANTS
  Sessions    \* the session ids the server gives to tasks

\* code_responce values; the code looks only at a leading minus sign.
NegativeCodes == {"-2", "-3", "-11"}

(***************************************************************************)
(* http is the HTTP status, 0 when there was no response at all (refused   *)
(* connection, timeout, broken TLS).  body says what the text of the reply *)
(* parses to: a JSON object, another JSON value, or no JSON.  A msg        *)
(* that contains the letters of the Russian word for "no" is "net".        *)
(***************************************************************************)
Reply ==
  [http        : {0, 200, 302, 404, 500},
   body        : {"object", "value", "text"},
   status      : {"", "WAIT", "RUN", "ERROR"},
   code        : {"", "0", "1"} \cup NegativeCodes,
   msg         : {"", "plain", "net"},
   access_code : {"", "issued"},
   session     : Sessions \cup {""},
   task_code   : {"", "TASK"}]

IsNegativeCode(code) == code \in NegativeCodes

Is2xx(r) == r.http >= 200 /\ r.http < 300

\* post_json returns instead of throwing, and what it returns is an object.
ReturnsObject(r) == Is2xx(r) /\ r.body = "object"

\* Mutant: every error code taken for "no task".
LooksLikeNoTaskAnyCode(r) == r.status = "WAIT" \/ IsNegativeCode(r.code) \/ r.msg = "net"

LooksLikeNoTask(r) ==
  \/ r.status = "WAIT"
  \/ r.code = "-11"
  \/ r.msg = "net"

\* Mutant: the task code is not looked at.
HasSession(r) == r.session # ""

\* parse_task_instruction throws unless both identity fields are there.
HasIdentity(r) == r.session # "" /\ r.task_code # ""

(***************************************************************************)
(* fetch_task: "no_task" is std::nullopt, "task" a parsed instruction and  *)
(* "throws" an exception that main counts as a polling error.              *)
(***************************************************************************)
FetchTask(r) ==
  IF ReturnsObject(r) /\ LooksLikeNoTask(r) THEN "no_task"
  ELSE IF ReturnsObject(r) /\ ~IsNegativeCode(r.code) /\ HasIdentity(r) THEN "task"
  ELSE "throws"

(***************************************************************************)
(* register_agent: the access code the client holds afterwards.  A code    *)
(* issued by the server replaces the one from the configuration; on every  *)
(* failure, "already registered" (-3) included, the old one stays.         *)
(***************************************************************************)
RegisterAgent(r, code) ==
  IF ReturnsObject(r) /\ r.access_code # "" THEN r.access_code ELSE code

\* Mutant: the HTTP status alone decides.
SendResultByStatus(r) == Is2xx(r)

\* send_result: TRUE when the server took the result.
SendResult(r) ==
  Is2xx(r) /\ ~(r.body = "object" /\ IsNegativeCode(r.code))

=============================================================================
