------------------------------- MODULE Config -------------------------------
(***************************************************************************)
(* load_config (config.cpp): from the JSON object of the configuration     *)
(* file and the environment to the AgentConfig that main and ApiClient use.*)
(*                                                                         *)
(* A field of the file is a set: {} when it is missing or has a value of   *)
(* another type (read_string, read_int and read_bool do not tell the two   *)
(* apart), {v} when it has the value v.  The fields that are copied as     *)
(* they are (description, paths, certificates) are left out.               *)
(***************************************************************************)
EXTENDS Integers

CONSTANTS
  Names,        \* values of uid, hosts and access codes, "" among them
  EnvNames,     \* names of environment variables
  ValidNames,   \* those of letters, digits and "_" that start with no digit
  DefaultEnv,   \* "WEB_AGENT_ACCESS_CODE"
  Numbers       \* values of the integer fields

ASSUME NamesAssumption == "" \in Names
ASSUME EnvAssumption == ValidNames \subseteq EnvNames /\ DefaultEnv \in ValidNames
ASSUME NumbersAssumption == Numbers \subseteq Int

Maybe(S) == {{}} \cup {{v} : v \in S}

\* read_string, read_int and read_bool.
ReadField(field, fallback) == IF field = {} THEN fallback ELSE CHOOSE v \in field : TRUE

\* A url is its scheme, its host and its port, 0 for none.
Schemes == {"https", "http", "ftp"}
NoUrl == [scheme |-> "", host |-> "", port |-> 0]
Urls == {NoUrl} \cup [scheme : Schemes, host : Names \ {""}, port : {0}]

File ==
  [uid : Maybe(Names), server_url : Maybe(Urls), protocol : Maybe(Schemes),
   server : Maybe(Names), port : Maybe(Numbers), access_code : Maybe(Names),
   access_code_env : Maybe(EnvNames \cup {""}),
   poll_interval_sec : Maybe(Numbers), interval : Maybe(Numbers),
   request_timeout_sec : Maybe(Numbers), max_parallel_tasks : Maybe(Numbers),
   backoff_max_sec : Maybe(Numbers),
   register_on_startup : Maybe(BOOLEAN), allow_insecure_http : Maybe(BOOLEAN)]

\* getenv: the value of each name, "" when it is not set or empty.
Environment == [EnvNames -> Names]

\* The url of the separate fields protocol, server and port.
JoinServerUrl(obj) ==
  LET host == ReadField(obj.server, "")
      port == ReadField(obj.port, 0)
  IN  IF host = "" THEN NoUrl
      ELSE [scheme |-> ReadField(obj.protocol, "https"), host |-> host,
            port   |-> IF port > 0 THEN port ELSE 0]

ServerUrl(obj) ==
  LET url == ReadField(obj.server_url, NoUrl)
  IN  IF url = NoUrl THEN JoinServerUrl(obj) ELSE url

AccessCodeEnv(obj) == ReadField(obj.access_code_env, DefaultEnv)

\* A variable of the environment that is set goes before the file.
AccessCode(obj, env) ==
  LET name == AccessCodeEnv(obj)
      code == IF name # "" THEN env[name] ELSE ""
  IN  IF code # "" THEN code ELSE ReadField(obj.access_code, "")

IsSecure(obj) ==
  \/ ServerUrl(obj).scheme = "https"
  \/ ReadField(obj.allow_insecure_http, FALSE) /\ ServerUrl(obj).scheme = "http"

\* load_config throws unless all of this holds.
IsAccepted(obj) ==
  /\ AccessCodeEnv(obj) \in ValidNames \cup {""}
  /\ ReadField(obj.uid, "") # ""
  /\ ServerUrl(obj) # NoUrl
  /\ IsSecure(obj)

AtLeast(number, least) == IF number < least THEN least ELSE number

\* interval, when it is a number, goes before poll_interval_sec.
PollInterval(obj) ==
  AtLeast(ReadField(obj.interval, ReadField(obj.poll_interval_sec, 5)), 1)

\* Mutant: the limit is compared with the field that interval replaces.
BackoffMaxOfField(obj) ==
  AtLeast(ReadField(obj.backoff_max_sec, 60), ReadField(obj.poll_interval_sec, 5))

BackoffMax(obj) == AtLeast(ReadField(obj.backoff_max_sec, 60), PollInterval(obj))

\* The configuration of an accepted file.
LoadConfig(obj, env) ==
  [uid                 |-> ReadField(obj.uid, ""),
   server_url          |-> ServerUrl(obj),
   access_code         |-> AccessCode(obj, env),
   poll_interval_sec   |-> PollInterval(obj),
   request_timeout_sec |-> AtLeast(ReadField(obj.request_timeout_sec, 15), 1),
   max_parallel_tasks  |-> AtLeast(ReadField(obj.max_parallel_tasks, 4), 1),
   backoff_max_sec     |-> BackoffMax(obj),
   register_on_startup |-> ReadField(obj.register_on_startup, TRUE)]

\* What Agent.tla assumes of its constants (main, the polling loop).
FitsAgent(config) ==
  /\ config.poll_interval_sec \in Nat \ {0}
  /\ config.backoff_max_sec \in Nat
  /\ config.backoff_max_sec >= config.poll_interval_sec
  /\ config.max_parallel_tasks \in Nat \ {0}
  /\ config.request_timeout_sec \in Nat \ {0}
=============================================================================
