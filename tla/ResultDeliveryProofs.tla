------------------------ MODULE ResultDeliveryProofs ------------------------
(***************************************************************************)
(* Proofs about a delivery for any number of files of any size, with and   *)
(* without TLS.                                                            *)
(***************************************************************************)
EXTENDS ResultDelivery, FiniteSetTheorems, TLAPS

-----------------------------------------------------------------------------
(* Types *)

\* What follows write_request leaves well-typed variables.
LEMMA TypeEndWrite ==
  ASSUME TypeOK, NEW success \in BOOLEAN, EndWrite(success)
  PROVE  /\ pc' \in {"connect", "write", "read", "done"}
         /\ attempt' \in Attempt
         /\ written' \in BOOLEAN
         /\ result' \in {"pending", "delivered", "undelivered"}
         /\ UNCHANGED <<serverVars, diskVars>>
BY DEF TypeOK, EndWrite, Return, Attempt

\* The provider's variables stay in their ranges while it works on a file.
LEMMA TypeProvider ==
  ASSUME TypeOK, SendsFile
  PROVE  /\ cur_item \in Parts
         /\ Header \in {0, 1}
         /\ ContentStart \in Nat
         /\ Position \in Int
         /\ BeginPart => begun' \subseteq Attempt \X Parts
<1>1. cur_item \in Parts /\ Header \in {0, 1} /\ ContentStart \in Nat
  BY DEF TypeOK, SendsFile, Parts, Header, ContentStart
<1>2. Position \in Int
  BY <1>1 DEF TypeOK, Position
<1>3. BeginPart => begun' \subseteq Attempt \X Parts
  BY <1>1 DEF TypeOK, BeginPart
<1> QED BY <1>1, <1>2, <1>3

\* One block more, of one part, in one attempt.
LEMMA OneBlockMore ==
  ASSUME TypeOK, SendBlock
  PROVE  /\ blocks' \in [Attempt -> [Parts -> Nat]]
         /\ blocks'[attempt][cur_item] = blocks[attempt][cur_item] + 1
         /\ \A a \in Attempt, p \in Parts :
              a # attempt \/ p # cur_item => blocks'[a][p] = blocks[a][p]
<1>1. cur_item \in Parts /\ attempt \in Attempt
  BY TypeProvider DEF SendBlock, TypeOK
<1>2. blocks' = [blocks EXCEPT ![attempt] =
                   [blocks[attempt] EXCEPT ![cur_item] = @ + 1]]
  BY DEF SendBlock
<1>3. blocks[attempt] \in [Parts -> Nat] /\ blocks[attempt][cur_item] + 1 \in Nat
  BY <1>1 DEF TypeOK
<1> DEFINE row == [blocks[attempt] EXCEPT ![cur_item] = @ + 1]
<1>4. /\ row \in [Parts -> Nat]
      /\ row[cur_item] = blocks[attempt][cur_item] + 1
      /\ \A p \in Parts : p # cur_item => row[p] = blocks[attempt][p]
  BY <1>1, <1>3
<1>5. blocks' = [blocks EXCEPT ![attempt] = row]
  BY <1>2
<1> HIDE DEF row
<1> QED BY <1>1, <1>4, <1>5 DEF TypeOK

\* The state a delivery starts from is well typed.
LEMMA TypeInit == Init => TypeOK
<1> SUFFICES ASSUME Init PROVE TypeOK
  OBVIOUS
<1>1. cur_item \in 1 .. NFiles + 1 /\ attempt \in Attempt
  BY FilesAssumption DEF Init, Attempt
<1>2. /\ blocks \in [Attempt -> [Parts -> Nat]]
      /\ answer \in [Attempt -> {"none", "accepted", "refused"}]
  BY DEF Init
<1> QED BY <1>1, <1>2 DEF Init, TypeOK

\* The client's steps keep the types.
LEMMA TypeClient ==
  ASSUME TypeOK, ClientStep
  PROVE  TypeOK'
<1> USE DEF serverVars, diskVars, bodyVars, providerVars
<1>1. CASE Connect
  BY <1>1 DEF Connect, TypeOK
<1>2. CASE ConnectFails \/ ReadAnswer \/ ReadFails
  BY <1>2 DEF ConnectFails, ReadAnswer, ReadFails, Return, TypeOK
<1>3. CASE SendFields
  BY <1>3 DEF SendFields, TypeOK
<1>4. CASE SendBlock
  BY <1>4, OneBlockMore, TypeProvider DEF SendBlock, TypeOK
<1>5. CASE EndPart
  <2>1. SendsFile /\ cur_item' = cur_item + 1 /\ offset' = offset + Header + 1
    BY <1>5 DEF EndPart
  <2>2. cur_item' \in 1 .. NFiles + 1 /\ offset' \in Nat
    BY <2>1, TypeProvider, FilesAssumption DEF TypeOK, Parts
  <2>3. begun' \subseteq Attempt \X Parts
    BY <1>5, <2>1, TypeProvider DEF EndPart
  <2> QED BY <1>5, <2>2, <2>3 DEF EndPart, TypeOK
<1>6. CASE CancelWrite
  <2>1. SendsFile /\ BeginPart /\ cur_start' = ContentStart
    BY <1>6 DEF CancelWrite
  <2>2. cur_start' \in Nat /\ begun' \subseteq Attempt \X Parts
    BY <2>1, TypeProvider
  <2> QED BY <1>6, <2>2, TypeEndWrite DEF CancelWrite, TypeOK
<1>7. CASE FinishBody
  BY <1>7, TypeEndWrite DEF FinishBody, TypeOK
<1>8. CASE WriteFails
  BY <1>8, TypeEndWrite DEF WriteFails, TypeOK
<1>9. CASE SendFresh
  <2>1. SendsFile /\ BeginPart /\ cur_start' = ContentStart /\ offset' = offset + Header
    BY <1>9 DEF SendFresh
  <2>2. cur_start' \in Nat /\ offset' \in Nat /\ begun' \subseteq Attempt \X Parts
    BY <2>1, TypeProvider DEF TypeOK
  <2> QED BY <1>9, <2>2 DEF SendFresh, TypeOK
<1> QED
  BY <1>1, <1>2, <1>3, <1>4, <1>5, <1>6, <1>7, <1>8, <1>9 DEF ClientStep

\* The server and the disk keep the types.
LEMMA TypeEnvironment ==
  ASSUME TypeOK, EnvironmentStep
  PROVE  TypeOK'
<1> USE DEF TypeOK, serverVars, diskVars, bodyVars, providerVars
<1>1. CASE \E a \in Attempt : HandleBody(a)
  BY <1>1 DEF HandleBody
<1>2. CASE GiveAnswer
  BY <1>2 DEF GiveAnswer
<1>3. CASE CloseConnection
  BY <1>3 DEF CloseConnection
<1>4. ASSUME NEW p \in Parts, Vanish(p) \/ Rewrite(p) \/ Append(p)
      PROVE  TypeOK'
  BY <1>4 DEF Vanish, Rewrite, Append
<1> QED BY <1>1, <1>2, <1>3, <1>4 DEF EnvironmentStep

\* The types are an inductive invariant.
LEMMA TypeNext ==
  ASSUME TypeOK, [Next]_vars
  PROVE  TypeOK'
<1>1. CASE UNCHANGED vars
  BY <1>1 DEF vars, TypeOK, serverVars, diskVars, bodyVars, providerVars
<1> QED BY <1>1, TypeClient, TypeEnvironment DEF Next

\* The variables of a delivery always have their types: the provider never
\* looks for a part beyond the last one.
THEOREM DeliveryTypes == Spec => []TypeOK
BY TypeInit, TypeNext, PTL DEF Spec

-----------------------------------------------------------------------------
(* Whole bodies *)

\* What the provider has sent of the first body.  Before the part under way
\* every file has its part and every file nobody wrote is whole, after it
\* nothing is sent, and of the part itself as many blocks as offset and
\* cur_start say.
PartsBefore ==
  /\ \A p \in Parts : p < cur_item => <<1, p>> \in begun
  /\ \A p \in Parts \ rewritten : p < cur_item => blocks[1][p] = size[p]

PartsAfter == \A p \in Parts : p > cur_item => blocks[1][p] = 0

PartUnderWay ==
  cur_item \in Parts =>
    IF cur_start = 0
    THEN blocks[1][cur_item] = 0
    ELSE /\ <<1, cur_item>> \in begun
         /\ pc = "write" => blocks[1][cur_item] = offset - cur_start
         /\ cur_item \notin rewritten => blocks[1][cur_item] <= size[cur_item]

FirstAttempt ==
  attempt = 1 /\ pc \in {"connect", "write"} =>
    /\ PartsBefore /\ PartsAfter /\ PartUnderWay
    /\ pc = "connect" => cur_start = 0
    /\ 1 \notin finished

BodyInv == FirstAttempt /\ FirstBodyIsWhole

\* Sending a block of the first body adds one to what has been sent.
LEMMA BodySendBlock ==
  ASSUME TypeOK, BodyInv, SendBlock
  PROVE  BodyInv'
<1>1. cur_item \in Parts /\ attempt \in Attempt
  BY TypeProvider DEF SendBlock, TypeOK
<1>2. /\ UNCHANGED <<pc, attempt, cur_item, finished, size, rewritten>>
      /\ pc = "write"
      /\ cur_start' = ContentStart /\ offset' = offset + Header + 1
      /\ Position >= 0 /\ Position < size[cur_item]
      /\ begun' = IF cur_start = 0 THEN begun \cup {<<attempt, cur_item>>} ELSE begun
  BY DEF SendBlock, SendsFile, HasBlock, BeginPart, diskVars
<1>3. CASE attempt = 1
  <2>1. FirstAttempt
    BY DEF BodyInv
  <2>2. /\ PartsBefore /\ PartsAfter /\ PartUnderWay
        /\ 1 \notin finished
    BY <1>2, <1>3, <2>1 DEF FirstAttempt
  <2>3. blocks[1][cur_item] = Position
    <3>1. blocks[1][cur_item] \in Nat /\ offset \in Nat /\ cur_start \in Nat
      BY <1>1, <1>3 DEF TypeOK
    <3>2. CASE cur_start = 0
      BY <1>1, <2>2, <3>1, <3>2 DEF PartUnderWay, Position, Header, ContentStart
    <3>3. CASE cur_start # 0
      BY <1>1, <1>2, <2>2, <3>1, <3>3
         DEF PartUnderWay, Position, Header, ContentStart
    <3> QED BY <3>2, <3>3
  <2>4. /\ blocks'[1][cur_item] = Position + 1
        /\ \A p \in Parts : p # cur_item => blocks'[1][p] = blocks[1][p]
    BY <1>1, <1>3, <2>3, OneBlockMore
  <2>5. /\ cur_start' # 0
        /\ offset' - cur_start' = Position + 1
        /\ Position + 1 <= size[cur_item]
    <3>1. /\ offset \in Nat /\ cur_start \in Nat /\ size[cur_item] \in Nat
          /\ Header \in {0, 1} /\ ContentStart \in Nat /\ Position \in Int
      BY <1>1, TypeProvider, BlocksAssumption DEF TypeOK, SendBlock
    <3>2. ContentStart # 0
      BY <3>1 DEF ContentStart
    <3>3. offset + Header - ContentStart = Position
      BY DEF Position
    <3> QED BY <1>2, <3>1, <3>2, <3>3
  <2>8. <<1, cur_item>> \in begun' /\ begun \subseteq begun'
    BY <1>1, <1>2, <1>3, <2>2 DEF PartUnderWay
  <2>6. PartUnderWay'
    BY <1>2, <2>4, <2>5, <2>8 DEF PartUnderWay
  <2>7. PartsBefore' /\ PartsAfter'
    BY <1>1, <1>2, <2>2, <2>4, <2>8 DEF PartsBefore, PartsAfter, Parts
  <2> QED
    BY <1>2, <1>3, <2>2, <2>6, <2>7 DEF BodyInv, FirstAttempt, FirstBodyIsWhole
<1>4. CASE attempt = 2
  <2>1. (\A p \in Parts : blocks'[1][p] = blocks[1][p]) /\ begun \subseteq begun'
    BY <1>2, <1>4, OneBlockMore DEF Attempt
  <2> QED
    BY <1>2, <1>4, <2>1 DEF BodyInv, FirstAttempt, FirstBodyIsWhole
<1> QED BY <1>1, <1>3, <1>4 DEF Attempt

\* Blocks that were appended add nothing to what the file was.
LEMMA BodySendFresh ==
  ASSUME TypeOK, BodyInv, SendFresh
  PROVE  BodyInv'
<1>1. cur_item \in Parts /\ attempt \in Attempt /\ offset \in Nat /\ cur_start \in Nat
  BY TypeProvider DEF SendFresh, TypeOK
<1>2. /\ UNCHANGED <<pc, attempt, cur_item, finished, size, rewritten, blocks>>
      /\ pc = "write" /\ cur_start' = ContentStart /\ offset' = offset + Header
      /\ Position = size[cur_item]
      /\ begun' = IF cur_start = 0 THEN begun \cup {<<attempt, cur_item>>} ELSE begun
  BY DEF SendFresh, SendsFile, HasFresh, BeginPart
<1>3. CASE attempt = 1
  <2>1. PartsBefore /\ PartsAfter /\ PartUnderWay /\ 1 \notin finished
    BY <1>2, <1>3 DEF BodyInv, FirstAttempt
  <2>2. <<1, cur_item>> \in begun' /\ begun \subseteq begun'
    BY <1>1, <1>2, <1>3, <2>1 DEF PartUnderWay
  <2>3. blocks[1][cur_item] \in Nat /\ size[cur_item] \in Nat
    BY <1>1, <1>3, BlocksAssumption DEF TypeOK
  <2>4. cur_start' # 0 /\ blocks[1][cur_item] = offset' - cur_start'
    <3>1. CASE cur_start = 0
      BY <1>1, <1>2, <2>1, <3>1 DEF PartUnderWay, Header, ContentStart
    <3>2. CASE cur_start # 0
      BY <1>1, <1>2, <2>1, <3>2 DEF PartUnderWay, Header, ContentStart
    <3> QED BY <3>1, <3>2
  <2>5. cur_item \notin rewritten => blocks[1][cur_item] <= size[cur_item]
    BY <1>1, <2>1, <2>3 DEF PartUnderWay
  <2>6. PartUnderWay'
    BY <1>2, <2>2, <2>4, <2>5 DEF PartUnderWay
  <2>7. PartsBefore' /\ PartsAfter'
    BY <1>2, <2>1, <2>2 DEF PartsBefore, PartsAfter
  <2> QED
    BY <1>2, <1>3, <2>1, <2>6, <2>7 DEF BodyInv, FirstAttempt, FirstBodyIsWhole
<1>4. CASE attempt = 2
  BY <1>2, <1>4 DEF BodyInv, FirstAttempt, FirstBodyIsWhole
<1> QED BY <1>1, <1>3, <1>4 DEF Attempt

\* A part of the first body ends when its file does.
LEMMA BodyEndPart ==
  ASSUME TypeOK, BodyInv, EndPart
  PROVE  BodyInv'
<1>1. cur_item \in Parts /\ attempt \in Attempt
  BY TypeProvider DEF EndPart, TypeOK
<1>2. /\ UNCHANGED <<pc, attempt, blocks, finished, size, rewritten>>
      /\ pc = "write"
      /\ cur_start' = 0 /\ cur_item' = cur_item + 1
      /\ ~(Position >= 0 /\ Position < size[cur_item])
      /\ begun' = IF cur_start = 0 THEN begun \cup {<<attempt, cur_item>>} ELSE begun
  BY DEF EndPart, SendsFile, Opens, HasBlock, BeginPart, diskVars
<1>3. CASE attempt = 1
  <2>1. /\ PartsBefore /\ PartsAfter /\ PartUnderWay
        /\ 1 \notin finished
    BY <1>2, <1>3 DEF BodyInv, FirstAttempt
  <2>2. /\ blocks[1][cur_item] \in Nat /\ offset \in Nat /\ cur_start \in Nat
        /\ size[cur_item] \in Nat
    BY <1>1, BlocksAssumption DEF TypeOK, Attempt
  <2>3. Position = blocks[1][cur_item]
    <3>1. CASE cur_start = 0
      BY <1>1, <2>1, <2>2, <3>1 DEF PartUnderWay, Position, Header, ContentStart
    <3>2. CASE cur_start # 0
      BY <1>1, <1>2, <2>1, <2>2, <3>2
         DEF PartUnderWay, Position, Header, ContentStart
    <3> QED BY <3>1, <3>2
  <2>4. cur_item \notin rewritten => blocks[1][cur_item] = size[cur_item]
    BY <1>1, <1>2, <2>1, <2>2, <2>3 DEF PartUnderWay
  <2>7. <<1, cur_item>> \in begun' /\ begun \subseteq begun'
    BY <1>1, <1>2, <1>3, <2>1 DEF PartUnderWay
  <2>5. PartsBefore'
    BY <1>1, <1>2, <2>1, <2>4, <2>7 DEF PartsBefore, Parts
  <2>6. PartsAfter' /\ PartUnderWay'
    BY <1>1, <1>2, <2>1 DEF PartsAfter, PartUnderWay, Parts
  <2> QED
    BY <1>2, <1>3, <2>1, <2>5, <2>6 DEF BodyInv, FirstAttempt, FirstBodyIsWhole
<1>4. CASE attempt = 2
  BY <1>2, <1>4 DEF BodyInv, FirstAttempt, FirstBodyIsWhole
<1> QED BY <1>1, <1>3, <1>4 DEF Attempt

\* The closing boundary comes when no part is left.
LEMMA BodyFinish ==
  ASSUME TypeOK, BodyInv, FinishBody
  PROVE  BodyInv'
<1>1. /\ UNCHANGED <<blocks, size, rewritten, begun>>
      /\ pc = "write" /\ cur_item > NFiles
      /\ finished' = finished \cup {attempt}
      /\ pc' = "connect" => attempt' = 2
      /\ pc' # "write"
  BY DEF FinishBody, EndWrite, Return, diskVars
<1>2. FirstAttempt'
  BY <1>1 DEF FirstAttempt
<1>3. FirstBodyIsWhole'
  <2>1. CASE attempt = 1
    BY <1>1, <2>1, FilesAssumption
       DEF BodyInv, FirstAttempt, PartsBefore, FirstBodyIsWhole, Parts, TypeOK
  <2>2. CASE attempt # 1
    BY <1>1, <2>2 DEF BodyInv, FirstBodyIsWhole
  <2> QED BY <2>1, <2>2
<1> QED BY <1>2, <1>3 DEF BodyInv

\* The client's steps keep the account of the first body.
LEMMA BodyClient ==
  ASSUME TypeOK, BodyInv, ClientStep
  PROVE  BodyInv'
<1> USE DEF serverVars, diskVars, bodyVars, providerVars
<1>1. CASE Connect
  BY <1>1
     DEF Connect, BodyInv, FirstAttempt, FirstBodyIsWhole, PartsBefore, PartsAfter,
         PartUnderWay
<1>2. CASE ConnectFails \/ ReadAnswer \/ ReadFails
  BY <1>2
     DEF ConnectFails, ReadAnswer, ReadFails, Return, BodyInv, FirstAttempt,
         FirstBodyIsWhole
<1>3. CASE SendFields
  <2>1. pc = "write" /\ pc' = pc /\ offset = 0 /\ offset' = 1
    BY <1>3 DEF SendFields
  <2>2. attempt = 1 /\ cur_item \in Parts => cur_start = 0
    BY <2>1 DEF BodyInv, FirstAttempt, PartUnderWay, TypeOK, Attempt
  <2> QED
    BY <1>3, <2>1, <2>2
       DEF SendFields, BodyInv, FirstAttempt, FirstBodyIsWhole, PartsBefore,
           PartsAfter, PartUnderWay
<1>4. CASE CancelWrite \/ WriteFails
  BY <1>4
     DEF CancelWrite, WriteFails, EndWrite, Return, BeginPart, BodyInv, FirstAttempt,
         FirstBodyIsWhole
<1> QED
  BY <1>1, <1>2, <1>3, <1>4, BodySendBlock, BodySendFresh, BodyEndPart, BodyFinish DEF ClientStep

\* Nor do the server and the disk disturb it.
LEMMA BodyEnvironment ==
  ASSUME TypeOK, BodyInv, EnvironmentStep
  PROVE  BodyInv'
<1> USE DEF serverVars, diskVars, bodyVars, providerVars
<1>1. CASE \/ \E a \in Attempt : HandleBody(a)
           \/ GiveAnswer \/ CloseConnection
           \/ \E p \in Parts : Vanish(p)
  BY <1>1
     DEF HandleBody, GiveAnswer, CloseConnection, Vanish, BodyInv, FirstAttempt,
         FirstBodyIsWhole, PartsBefore, PartsAfter, PartUnderWay
<1>2. ASSUME NEW p \in Parts, Rewrite(p) \/ Append(p)
      PROVE  BodyInv'
  <2>1. /\ rewritten' = rewritten \cup {p}
        /\ \A q \in Parts : q # p => size'[q] = size[q]
        /\ UNCHANGED <<pc, attempt, offset, cur_item, cur_start, blocks, finished, begun>>
    BY <1>2 DEF Rewrite, Append, TypeOK
  <2> QED
    BY <2>1
       DEF BodyInv, FirstAttempt, FirstBodyIsWhole, PartsBefore, PartsAfter,
           PartUnderWay
<1> QED BY <1>1, <1>2 DEF EnvironmentStep

\* A first body that is complete has every file that nobody wrote, whole, for
\* any number of files (get_multipart_content_provider).
THEOREM FirstBody == Spec => []FirstBodyIsWhole
<1>1. Init => BodyInv
  BY DEF Init, BodyInv, FirstAttempt, FirstBodyIsWhole, PartsBefore, PartsAfter,
         PartUnderWay, Attempt, Parts
<1>2. TypeOK /\ BodyInv /\ [Next]_vars => BodyInv'
  <2> SUFFICES ASSUME TypeOK, BodyInv, [Next]_vars PROVE BodyInv'
    OBVIOUS
  <2>1. CASE UNCHANGED vars
    BY <2>1
       DEF vars, BodyInv, FirstAttempt, FirstBodyIsWhole, PartsBefore, PartsAfter,
           PartUnderWay, serverVars, diskVars, bodyVars, providerVars
  <2> QED BY <2>1, BodyClient, BodyEnvironment DEF Next
<1>3. BodyInv => FirstBodyIsWhole
  BY DEF BodyInv
<1> QED BY <1>1, <1>2, <1>3, DeliveryTypes, PTL DEF Spec

-----------------------------------------------------------------------------
(* Headers and second attempts *)

\* A part under way was begun in this attempt, or it was begun in the first
\* one and the second has sent the fields at most: then its position in the
\* file is negative.
HeaderIsSent ==
  cur_start # 0 =>
    /\ cur_start >= 2
    /\ pc = "write" => <<attempt, cur_item>> \in begun \/ offset <= 1

HeaderInv == HeaderIsSent /\ NoHeadlessBlock

\* A block goes out under the header of its part.
LEMMA HeaderSendBlock ==
  ASSUME TypeOK, HeaderInv, SendBlock
  PROVE  HeaderInv'
<1>1. /\ cur_item \in Parts /\ attempt \in Attempt
      /\ offset \in Nat /\ cur_start \in Nat
      /\ begun \subseteq Attempt \X Parts
  BY TypeProvider DEF SendBlock, TypeOK
<1>2. /\ pc = "write" /\ offset > 0 /\ Position >= 0
      /\ UNCHANGED <<pc, attempt, cur_item>>
      /\ begun' = IF cur_start = 0 THEN begun \cup {<<attempt, cur_item>>} ELSE begun
      /\ cur_start' = ContentStart
  BY DEF SendBlock, SendsFile, HasBlock, BeginPart
<1>3. <<attempt, cur_item>> \in begun'
  <2>1. CASE cur_start = 0
    BY <1>2, <2>1
  <2>2. CASE cur_start # 0
    <3>1. Position = offset - cur_start
      BY <1>1, <2>2 DEF Position, Header, ContentStart
    <3>2. offset >= 2
      BY <1>1, <1>2, <2>2, <3>1 DEF HeaderInv, HeaderIsSent
    <3> QED BY <1>1, <1>2, <2>2, <3>2 DEF HeaderInv, HeaderIsSent
  <2> QED BY <2>1, <2>2
<1>4. begun \subseteq begun'
  BY <1>2
<1>5. cur_start' >= 2
  BY <1>1, <1>2 DEF HeaderInv, HeaderIsSent, ContentStart
<1>6. NoHeadlessBlock'
  BY <1>3, <1>4, OneBlockMore DEF HeaderInv, NoHeadlessBlock
<1> QED BY <1>2, <1>3, <1>5, <1>6 DEF HeaderInv, HeaderIsSent

\* Nor do blocks that were appended go out without it.
LEMMA HeaderSendFresh ==
  ASSUME TypeOK, HeaderInv, SendFresh
  PROVE  HeaderInv'
<1>1. /\ cur_item \in Parts /\ offset \in Nat /\ cur_start \in Nat
      /\ size[cur_item] \in Nat
  BY TypeProvider, BlocksAssumption DEF SendFresh, TypeOK
<1>2. /\ pc = "write" /\ offset > 0 /\ Position = size[cur_item]
      /\ UNCHANGED <<pc, attempt, cur_item, blocks>>
      /\ begun' = IF cur_start = 0 THEN begun \cup {<<attempt, cur_item>>} ELSE begun
      /\ cur_start' = ContentStart
  BY DEF SendFresh, SendsFile, HasFresh, BeginPart
<1>3. <<attempt, cur_item>> \in begun'
  <2>1. CASE cur_start = 0
    BY <1>2, <2>1
  <2>2. CASE cur_start # 0
    <3>1. Position = offset - cur_start
      BY <1>1, <2>2 DEF Position, Header, ContentStart
    <3>2. offset >= 2
      BY <1>1, <1>2, <2>2, <3>1 DEF HeaderInv, HeaderIsSent
    <3> QED BY <1>1, <1>2, <2>2, <3>2 DEF HeaderInv, HeaderIsSent
  <2> QED BY <2>1, <2>2
<1>4. cur_start' >= 2
  BY <1>1, <1>2 DEF HeaderInv, HeaderIsSent, ContentStart
<1> QED BY <1>2, <1>3, <1>4 DEF HeaderInv, HeaderIsSent, NoHeadlessBlock

\* No other step sends a block, and a new part has no header yet.
LEMMA HeaderNext ==
  ASSUME TypeOK, HeaderInv, [Next]_vars
  PROVE  HeaderInv'
<1> USE DEF HeaderInv, HeaderIsSent, NoHeadlessBlock, serverVars, diskVars, bodyVars,
            providerVars
<1>1. CASE Connect \/ SendFields
  BY <1>1 DEF Connect, SendFields
<1>2. CASE ConnectFails \/ ReadAnswer \/ ReadFails
  BY <1>2 DEF ConnectFails, ReadAnswer, ReadFails, Return
<1>3. CASE EndPart
  BY <1>3 DEF EndPart, BeginPart
<1>4. CASE CancelWrite
  <2>1. pc' # "write" /\ begun \subseteq begun' /\ UNCHANGED blocks
    BY <1>4 DEF CancelWrite, EndWrite, Return, BeginPart
  <2>2. cur_start' >= 2
    BY <1>4 DEF CancelWrite, SendsFile, ContentStart, TypeOK
  <2> QED BY <2>1, <2>2
<1>5. CASE FinishBody \/ WriteFails
  BY <1>5 DEF FinishBody, WriteFails, EndWrite, Return
<1>6. CASE EnvironmentStep
  BY <1>6
     DEF EnvironmentStep, HandleBody, GiveAnswer, CloseConnection, Vanish, Rewrite, Append
<1>7. CASE UNCHANGED vars
  BY <1>7 DEF vars
<1> QED
  BY <1>1, <1>2, <1>3, <1>4, <1>5, <1>6, <1>7, HeaderSendBlock, HeaderSendFresh DEF Next, ClientStep

\* No bytes of a file are sent outside a part of their own, the second attempt
\* included (get_multipart_content_provider).
THEOREM HeadersComeFirst == Spec => []NoHeadlessBlock
<1>1. Init => HeaderInv
  BY DEF Init, HeaderInv, HeaderIsSent, NoHeadlessBlock
<1>2. HeaderInv => NoHeadlessBlock
  BY DEF HeaderInv
<1> QED BY <1>1, <1>2, HeaderNext, DeliveryTypes, PTL DEF Spec

-----------------------------------------------------------------------------
(* The refinement *)

\* The client has no result before it returns, and the server accepts what it
\* has handled.
ResultInv ==
  /\ pc # "done" => result = "pending"
  /\ \A a \in Attempt : answer[a] = "accepted" => a \in handled

\* Every step keeps both.
LEMMA ResultNext ==
  ASSUME TypeOK, ResultInv, [Next]_vars
  PROVE  ResultInv'
<1> USE DEF ResultInv, serverVars
<1>1. ASSUME pc # "done", NEW success, EndWrite(success)
      PROVE  ResultInv'
  BY <1>1 DEF EndWrite, Return
<1>2. CASE ClientStep
  BY <1>1, <1>2
     DEF ClientStep, Connect, ConnectFails, SendFields, SendBlock, SendFresh, EndPart, SendsFile,
         CancelWrite, FinishBody, WriteFails, ReadAnswer, ReadFails, Return
<1>3. CASE EnvironmentStep
  BY <1>3
     DEF EnvironmentStep, HandleBody, GiveAnswer, CloseConnection, Vanish, Rewrite, Append,
         TypeOK
<1>4. CASE UNCHANGED vars
  BY <1>4 DEF vars
<1> QED BY <1>2, <1>3, <1>4 DEF Next

\* A body that is handled is one copy more, and there are two at most.
LEMMA RefineHandle ==
  ASSUME TypeOK, NEW a \in Attempt, HandleBody(a)
  PROVE  Delivery!Reach
<1>1. /\ handled \subseteq {1, 2} /\ a \in {1, 2} /\ a \notin handled
      /\ handled' = handled \cup {a} /\ result' = result
  BY DEF HandleBody, TypeOK, Attempt
<1>2. handled = {} \/ \E b \in {1, 2} : handled = {b}
  BY <1>1
<1>3. Cardinality(handled) \in {0, 1} /\ IsFiniteSet(handled)
  <2>1. CASE handled = {}
    BY <2>1, FS_EmptySet
  <2>2. ASSUME NEW b, handled = {b}
        PROVE  Cardinality(handled) \in {0, 1} /\ IsFiniteSet(handled)
    <3>1. Cardinality({b}) = 1 /\ IsFiniteSet({b})
      BY FS_Singleton
    <3> QED BY <2>2, <3>1
  <2> QED BY <1>2, <2>1, <2>2
<1>4. Cardinality(handled') = Cardinality(handled) + 1
  BY <1>1, <1>3, FS_AddElement
<1> QED BY <1>1, <1>3, <1>4 DEF Delivery!Reach, Delivery!MaxCopies

\* The client's return ends the exchange; it says that the result was taken
\* only if a copy has been handled.
LEMMA RefineReturn ==
  ASSUME TypeOK, ResultInv, pc # "done", UNCHANGED handled,
         \/ result' = "undelivered"
         \/ result' = "delivered" /\ answer[attempt] = "accepted"
  PROVE  Delivery!End
<1>1. result = "pending"
  BY DEF ResultInv
<1>2. CASE result' = "delivered" /\ answer[attempt] = "accepted"
  <2>1. handled # {} /\ IsFiniteSet(handled)
    <3>1. attempt \in handled /\ handled \in SUBSET {1, 2}
      BY <1>2 DEF ResultInv, TypeOK, Attempt
    <3>2. IsFiniteSet({1, 2})
      <4>1. IsFiniteSet({1})
        BY FS_Singleton
      <4>2. IsFiniteSet({1} \cup {2})
        BY <4>1, FS_AddElement
      <4> QED BY <4>2, {1, 2} = {1} \cup {2}
    <3> QED BY <3>1, <3>2, FS_Subset
  <2>2. Cardinality(handled) > 0
    BY <2>1, FS_EmptySet, FS_CardinalityType
  <2> QED BY <1>1, <1>2, <2>2 DEF Delivery!End
<1>3. CASE result' = "undelivered"
  BY <1>1, <1>3 DEF Delivery!End
<1> QED BY <1>2, <1>3

\* Every step of a delivery is a step of the exchange or none.
LEMMA RefineNext ==
  ASSUME TypeOK, ResultInv, [Next]_vars
  PROVE  [Delivery!Next]_(Delivery!vars)
<1> USE DEF serverVars, Delivery!vars
<1>1. ASSUME UNCHANGED <<handled, result>>
      PROVE  UNCHANGED Delivery!vars
  BY <1>1
<1>2. ASSUME pc # "done", NEW success, EndWrite(success)
      PROVE  [Delivery!Next]_(Delivery!vars)
  <2>1. CASE result' = "undelivered"
    BY <1>2, <2>1, RefineReturn DEF EndWrite, Delivery!Next
  <2>2. CASE result' # "undelivered"
    BY <1>1, <1>2, <2>2 DEF EndWrite, Return
  <2> QED BY <2>1, <2>2
<1>3. CASE CancelWrite \/ FinishBody \/ WriteFails
  BY <1>2, <1>3 DEF CancelWrite, FinishBody, WriteFails, SendsFile
<1>4. CASE ConnectFails \/ ReadFails \/ ReadAnswer
  BY <1>4, RefineReturn
     DEF ConnectFails, ReadFails, ReadAnswer, Return, IsTaken, Delivery!Next
<1>5. CASE Connect \/ SendFields \/ SendBlock \/ SendFresh \/ EndPart
  BY <1>1, <1>5 DEF Connect, SendFields, SendBlock, SendFresh, EndPart
<1>6. CASE EnvironmentStep
  <2>1. CASE \E a \in Attempt : HandleBody(a)
    BY <2>1, RefineHandle DEF Delivery!Next
  <2>2. CASE ~\E a \in Attempt : HandleBody(a)
    BY <1>1, <1>6, <2>2
       DEF EnvironmentStep, GiveAnswer, CloseConnection, Vanish, Rewrite, Append
  <2> QED BY <2>1, <2>2
<1>7. CASE UNCHANGED vars
  BY <1>1, <1>7 DEF vars
<1> QED BY <1>3, <1>4, <1>5, <1>6, <1>7 DEF Next, ClientStep

\* A delivery is the exchange Agent assumes: at most two copies, at any time,
\* and none is reported as taken that the server does not have.
THEOREM DeliveryImplementsExchange == Spec => ImplementsExchange
<1>1. Init => Delivery!Init
  BY FS_EmptySet DEF Init, Delivery!Init
<1>2. Init => ResultInv
  BY DEF Init, ResultInv
<1> QED
  BY <1>1, <1>2, ResultNext, RefineNext, DeliveryTypes, PTL
     DEF Spec, ImplementsExchange, Delivery!Spec
=============================================================================
