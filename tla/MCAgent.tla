------------------------------ MODULE MCAgent ------------------------------
(***************************************************************************)
(* Values of the constants of Agent for TLC.                               *)
(***************************************************************************)
EXTENDS AgentProperties, TLC

Answer(http, body, status, code, accessCode, session) ==
  [http |-> http, body |-> body, status |-> status, code |-> code, msg |-> "",
   access_code |-> accessCode, session |-> session,
   task_code |-> IF session = "" THEN "" ELSE "TASK"]

NoAnswer == Answer(0, "text", "", "", "", "")
ServerError == Answer(500, "text", "", "", "", "")
Refusal == Answer(200, "object", "", "-3", "", "")
Accepted == Answer(200, "object", "", "0", "", "")
Registered == Answer(200, "object", "", "0", "issued", "")
Wait == Answer(200, "object", "WAIT", "0", "", "")
Run(s) == Answer(200, "object", "RUN", "1", "", s)

\* Any answer may come to any request: a lost one, an error of the server, a
\* refusal, an acceptance, a new access code, no task, and every session.
MCReplies ==
  {NoAnswer, Refusal, Accepted, Registered, Wait} \cup {Run(s) : s \in Sessions}

Symmetry == Permutations(Sessions) \cup Permutations(Workers)
=============================================================================
