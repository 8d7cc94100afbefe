--------------------------- MODULE ResultDelivery ---------------------------
(***************************************************************************)
(* One delivery: send_result (api_client.cpp) posts a multipart body that  *)
(* the HTTP client builds while it sends it.  The fields come first; each  *)
(* file is opened again for every block of it, so it can vanish or change  *)
(* in the middle.  When the server closes a TLS connection, the client     *)
(* sends the request once more, with the same content provider.            *)
(*                                                                         *)
(* Lengths are counted in pieces: the fields, the header of a part, a      *)
(* block of 8192 bytes and the end of a part are one piece each.  What is  *)
(* appended to a file while it is sent has no bound and is not counted.    *)
(***************************************************************************)
EXTENDS Integers, FiniteSets

CONSTANTS
  NFiles,     \* result.files.size()
  MaxBlocks,  \* bound: blocks of a file, without what is appended to it
  Tls         \* server_url is https

ASSUME FilesAssumption == NFiles \in Nat
ASSUME BlocksAssumption == MaxBlocks \in Nat
ASSUME TlsAssumption == Tls \in BOOLEAN

Parts == 1 .. NFiles
Attempt == {1, 2}

VARIABLES
  pc,         \* where the client is
  attempt,    \* the first or the second call of send_
  offset,     \* pieces sent in this attempt
  cur_item,   \* state of the multipart provider: the part under way
  cur_start,  \* and the offset its content began at, 0 for a part not begun
  written,    \* write_request_success
  result,     \* what send_result returned
  closed,     \* the server has closed the connection (close_notify)
  answer,     \* the server's answer to each attempt
  begun,      \* parts whose header was sent in an attempt
  blocks,     \* blocks of each part sent in each attempt
  finished,   \* attempts whose body was sent to its end
  handled,    \* attempts the server has handled
  size,       \* blocks of each file, while it exists
  fresh,      \* files with blocks appended after those, that are not sent
  missing,    \* files that are gone
  rewritten   \* history: files changed since they were collected

providerVars == <<cur_item, cur_start>>
bodyVars == <<begun, blocks, finished>>
serverVars == <<closed, answer, handled>>
diskVars == <<size, fresh, missing, rewritten>>
vars == <<pc, attempt, offset, providerVars, written, result, serverVars,
          bodyVars, diskVars>>

TypeOK ==
  /\ pc \in {"connect", "write", "read", "done"}
  /\ attempt \in Attempt
  /\ offset \in Nat
  /\ cur_item \in 1 .. NFiles + 1
  /\ cur_start \in Nat
  /\ written \in BOOLEAN
  /\ result \in {"pending", "delivered", "undelivered"}
  /\ closed \in BOOLEAN
  /\ answer \in [Attempt -> {"none", "accepted", "refused"}]
  /\ begun \subseteq Attempt \X Parts
  /\ blocks \in [Attempt -> [Parts -> Nat]]
  /\ finished \subseteq Attempt
  /\ handled \subseteq Attempt
  /\ size \in [Parts -> 0 .. MaxBlocks]
  /\ fresh \subseteq Parts
  /\ missing \subseteq Parts
  /\ rewritten \subseteq Parts

\* A collected file may be gone before the request begins: the thread waits
\* for client_mutex_ in between.
Init ==
  /\ pc = "connect"
  /\ attempt = 1
  /\ offset = 0
  /\ cur_item = 1
  /\ cur_start = 0
  /\ written = FALSE
  /\ result = "pending"
  /\ closed = FALSE
  /\ answer = [a \in Attempt |-> "none"]
  /\ begun = {}
  /\ blocks = [a \in Attempt |-> [p \in Parts |-> 0]]
  /\ finished = {}
  /\ handled = {}
  /\ size \in [Parts -> 0 .. MaxBlocks]
  /\ fresh = {}
  /\ missing = {}
  /\ rewritten = {}

-----------------------------------------------------------------------------
(* The client *)

Return(value) ==
  /\ result' = value
  /\ pc' = "done"

\* Every attempt has a connection of its own, and starts its body anew; the
\* state of the provider is the one the last attempt left.
Connect ==
  /\ pc = "connect"
  /\ pc' = "write"
  /\ offset' = 0
  /\ closed' = FALSE
  /\ UNCHANGED <<attempt, providerVars, written, result, answer, handled,
                 bodyVars, diskVars>>

ConnectFails ==
  /\ pc = "connect"
  /\ Return("undelivered")
  /\ UNCHANGED <<attempt, offset, providerVars, written, serverVars, bodyVars,
                 diskVars>>

\* is_peer_closed: a close_notify, and nothing to read before it.
PeerIsClosed == Tls /\ closed /\ answer[attempt] = "none"

\* Mutant: the request is sent again as often as the server closes.
MayResendAlways == TRUE

MayResend == attempt = 1

\* What follows write_request: the retry, its failure, or the answer.
EndWrite(success) ==
  /\ \/ /\ PeerIsClosed /\ MayResend
        /\ attempt' = 2
        /\ pc' = "connect"
        /\ UNCHANGED result
     \/ /\ PeerIsClosed /\ ~MayResend
        /\ Return("undelivered")
        /\ UNCHANGED attempt
     \/ /\ ~PeerIsClosed
        /\ pc' = "read"
        /\ UNCHANGED <<attempt, result>>
  /\ written' = success
  /\ UNCHANGED <<serverVars, diskVars>>

\* The provider is called with offset 0: all fields of the form.
SendFields ==
  /\ pc = "write"
  /\ offset = 0
  /\ offset' = 1
  /\ UNCHANGED <<pc, attempt, providerVars, written, result, serverVars,
                 bodyVars, diskVars>>

\* The header of a part, when the provider has not written it.
Header == IF cur_start = 0 THEN 1 ELSE 0

ContentStart == IF cur_start = 0 THEN offset + 1 ELSE cur_start

\* Mutant: a position before the start of the file is taken for the start.
PositionClamped ==
  IF offset + Header < ContentStart THEN 0 ELSE offset + Header - ContentStart

\* Where the file is read; negative when the part was begun by an earlier
\* attempt (the subtraction wraps around, and the seek fails).
Position == offset + Header - ContentStart

\* Mutant: a file that cannot be opened is an empty one.
OpensAlways == TRUE

Opens == cur_item \notin missing

HasBlock == cur_item \notin missing /\ Position >= 0 /\ Position < size[cur_item]

BeginPart ==
  begun' = IF cur_start = 0 THEN begun \cup {<<attempt, cur_item>>} ELSE begun

SendsFile == pc = "write" /\ offset > 0 /\ cur_item <= NFiles

SendBlock ==
  /\ SendsFile
  /\ HasBlock
  /\ BeginPart
  /\ blocks' = [blocks EXCEPT ![attempt][cur_item] = @ + 1]
  /\ cur_start' = ContentStart
  /\ offset' = offset + Header + 1
  /\ UNCHANGED <<pc, attempt, cur_item, written, result, serverVars, finished,
                 diskVars>>

HasFresh ==
  cur_item \notin missing /\ Position = size[cur_item] /\ cur_item \in fresh

\* The provider looks for the end anew in every call: what was appended goes on
\* being read.
SendFresh ==
  /\ SendsFile
  /\ HasFresh
  /\ BeginPart
  /\ fresh' = fresh \ {cur_item}
  /\ cur_start' = ContentStart
  /\ offset' = offset + Header
  /\ UNCHANGED <<pc, attempt, cur_item, written, result, serverVars, blocks,
                 finished, size, missing, rewritten>>

\* The end of the file, or a position that cannot be sought.
EndPart ==
  /\ SendsFile
  /\ Opens /\ ~HasBlock /\ ~HasFresh
  /\ BeginPart
  /\ cur_item' = cur_item + 1
  /\ cur_start' = 0
  /\ offset' = offset + Header + 1
  /\ UNCHANGED <<pc, attempt, written, result, serverVars, blocks, finished,
                 diskVars>>

\* A file that cannot be opened cancels the request.
CancelWrite ==
  /\ SendsFile
  /\ ~Opens
  /\ BeginPart
  /\ cur_start' = ContentStart
  /\ EndWrite(FALSE)
  /\ UNCHANGED <<offset, cur_item, blocks, finished>>

\* The closing boundary and the last chunk.
FinishBody ==
  /\ pc = "write"
  /\ offset > 0 /\ cur_item > NFiles
  /\ finished' = finished \cup {attempt}
  /\ EndWrite(TRUE)
  /\ UNCHANGED <<offset, providerVars, begun, blocks>>

\* The connection is broken or not writable in time, between two calls of the
\* provider; what the last one wrote may be lost.
WriteFails ==
  /\ pc = "write"
  /\ EndWrite(FALSE)
  /\ UNCHANGED <<offset, providerVars, bodyVars>>

\* Mutant: any answer is an acceptance.
IsTakenAnyway(a) == a # "none"

\* send_result's reading of the answer (ApiProtocol: SendResult).
IsTaken(a) == a = "accepted"

\* An answer to a body that was not sent to its end is discarded.
ReadAnswer ==
  /\ pc = "read"
  /\ answer[attempt] # "none"
  /\ Return(IF written /\ IsTaken(answer[attempt]) THEN "delivered" ELSE "undelivered")
  /\ UNCHANGED <<attempt, offset, providerVars, written, serverVars, bodyVars,
                 diskVars>>

\* request_timeout_sec without a byte, or a connection that ends.
ReadFails ==
  /\ pc = "read"
  /\ Return("undelivered")
  /\ UNCHANGED <<attempt, offset, providerVars, written, serverVars, bodyVars,
                 diskVars>>

-----------------------------------------------------------------------------
(* The server and the disk *)

\* The server works on a body it has got to the end, whoever still waits.
HandleBody(a) ==
  /\ a \in finished \ handled
  /\ handled' = handled \cup {a}
  /\ UNCHANGED <<pc, attempt, offset, providerVars, written, result, closed,
                 answer, bodyVars, diskVars>>

\* It accepts what it has handled and refuses at any time.
GiveAnswer ==
  /\ pc \in {"write", "read"}
  /\ ~closed /\ answer[attempt] = "none"
  /\ \/ attempt \in handled /\ answer' = [answer EXCEPT ![attempt] = "accepted"]
     \/ answer' = [answer EXCEPT ![attempt] = "refused"]
  /\ UNCHANGED <<pc, attempt, offset, providerVars, written, result, closed,
                 handled, bodyVars, diskVars>>

CloseConnection ==
  /\ pc \in {"write", "read"}
  /\ ~closed
  /\ closed' = TRUE
  /\ UNCHANGED <<pc, attempt, offset, providerVars, written, result, answer,
                 handled, bodyVars, diskVars>>

\* Other commands share the directory of the results.
Vanish(p) ==
  /\ pc # "done"
  /\ p \notin missing
  /\ missing' = missing \cup {p}
  /\ UNCHANGED <<pc, attempt, offset, providerVars, written, result, serverVars,
                 bodyVars, size, fresh, rewritten>>

Rewrite(p) ==
  /\ pc # "done"
  /\ \E n \in 0 .. MaxBlocks : size' = [size EXCEPT ![p] = n]
  /\ fresh' = fresh \ {p}
  /\ missing' = missing \ {p}
  /\ rewritten' = rewritten \cup {p}
  /\ UNCHANGED <<pc, attempt, offset, providerVars, written, result, serverVars,
                 bodyVars>>

Append(p) ==
  /\ pc # "done"
  /\ p \notin missing \cup fresh
  /\ fresh' = fresh \cup {p}
  /\ rewritten' = rewritten \cup {p}
  /\ UNCHANGED <<pc, attempt, offset, providerVars, written, result, serverVars,
                 bodyVars, size, missing>>

-----------------------------------------------------------------------------
ClientStep ==
  \/ Connect \/ ConnectFails
  \/ SendFields \/ SendBlock \/ SendFresh \/ EndPart \/ CancelWrite
  \/ FinishBody \/ WriteFails
  \/ ReadAnswer \/ ReadFails

EnvironmentStep ==
  \/ \E a \in Attempt : HandleBody(a)
  \/ GiveAnswer \/ CloseConnection
  \/ \E p \in Parts : Vanish(p) \/ Rewrite(p) \/ Append(p)

Next == ClientStep \/ EnvironmentStep

Spec == Init /\ [][Next]_vars

\* The client's own steps take a bounded time each (request_timeout_sec); the
\* server and the disk owe nothing.
FairSpec == Spec /\ WF_vars(ClientStep)

-----------------------------------------------------------------------------
(* Properties *)

\* A first body that was sent to its end has a part for every file its fields
\* count, with the file from its first to its last block, unless somebody wrote
\* that file meanwhile: a file that vanishes cancels the request and is never
\* sent as a shorter one (make_file_provider, get_multipart_content_provider).
FirstBodyIsWhole ==
  1 \in finished =>
    /\ \A p \in Parts : <<1, p>> \in begun
    /\ \A p \in Parts \ rewritten : blocks[1][p] = size[p]

\* No block of a file is sent without the header of its part, in a second
\* attempt neither, although the provider goes on in the state the first one
\* left it in: its bytes would become part of the field before it.
NoHeadlessBlock ==
  \A a \in Attempt, p \in Parts : blocks[a][p] > 0 => <<a, p>> \in begun

\* technical_spec.md: the agent sends result_code, the JSON result and the
\* files to wa_result.  What the server accepted has every file that nobody
\* touched.
EveryFileArrives ==
  result = "delivered" =>
    \A p \in Parts \ rewritten : blocks[attempt][p] = size[p]

\* Nobody appends to the files for ever.
FilesSettle == <>[][\A p \in Parts : ~Append(p)]_vars

\* The worker gets its thread and the other threads get the client back,
\* whatever the server does and however the files vanish and change, if they do
\* not grow for ever.  One that does, a log that is written as fast as it is
\* read, is sent for ever, with client_mutex_ held.
DeliveryEnds == FilesSettle => <>(pc = "done")

\* What Agent assumes of a delivery.
Delivery == INSTANCE Exchange WITH copies <- Cardinality(handled), outcome <- result
ImplementsExchange == Delivery!Spec
=============================================================================
