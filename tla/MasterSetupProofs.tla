-------------------------- MODULE MasterSetupProofs --------------------------
(***************************************************************************)
(* MasterSetup's safety properties, for every board and every size of the  *)
(* array of slave ids.                                                     *)
(***************************************************************************)
EXTENDS MasterSetup, TLAPS, SequenceTheorems

(* While the master's id is being set up, nothing else was ever asked for. *)
OnlyIdAsked ==
  step = "master_id" =>
    /\ \A i \in 1 .. Len(asked) : asked[i].what = "master_id"
    /\ \A i \in 1 .. Len(rx) : rx[i].to.what = "master_id"

(* Without a late answer, requests and answers are in step: at most one of *)
(* them is under way, and it is that of the present step.                  *)
Answers(r) == {<<[to |-> r, intact |-> b]>> : b \in BOOLEAN}

InStep ==
  ~late =>
    /\ step \in What /\ mode = "request" => asked = <<>> /\ rx = <<>>
    /\ step \in What /\ mode = "receive" =>
         \/ asked = <<RequestOf(step)>> /\ rx = <<>>
         \/ asked = <<>> /\ rx = <<>>
         \/ asked = <<>> /\ rx \in Answers(RequestOf(step))
    /\ step = "slave_ids" => slave_count = Len(BoardSlaves)

IInv == TypeOK /\ OnlyIdAsked /\ InStep /\ MasterIdRight /\ SlavesRight /\ NoCrash

-----------------------------------------------------------------------------
(* Requests, and the data the board answers with.                          *)

LEMMA RequestType == ASSUME TypeOK, step \in What PROVE RequestOf(step) \in Request
BY DEF TypeOK, RequestOf, Request, What, Byte

LEMMA BoardTypes ==
  /\ BoardIdHigh \in Byte /\ BoardIdLow \in Byte
  /\ BoardSlaves \in Seq(Byte)
  /\ Len(BoardSlaves) \in Nat /\ Len(BoardSlaves) \in Byte
  /\ 0 \in Byte
<1>1. BoardIdHigh \in Byte /\ BoardIdLow \in Byte /\ BoardSlaves \in Seq(Byte)
  BY SetupAssumption
<1>2. Len(BoardSlaves) \in Nat
  BY <1>1
<1>3. Len(BoardSlaves) <= kMaxSlaveCount /\ kMaxSlaveCount \in 2 .. 253
  BY SetupAssumption
<1>4. \A n \in Nat, k \in 2 .. 253 : n <= k => n \in Byte
  BY DEF Byte
<1>5. 0 \in Byte
  BY SMT DEF Byte
<1> QED  BY <1>1, <1>2, <1>3, <1>4, <1>5

LEMMA DataType == \A r \in Request : DataOf(r) \in Seq(Byte)
<1> TAKE r \in Request
<1>1. CASE r.what = "master_id"
  BY <1>1, BoardTypes DEF DataOf
<1>2. CASE r.what = "slave_count"
  BY <1>2, BoardTypes DEF DataOf
<1>3. CASE r.what = "slave_ids"
  <2> DEFINE F(i) == IF i <= Len(BoardSlaves) THEN BoardSlaves[i] ELSE 0
  <2>1. r.n \in Nat
    BY SMT DEF Request, Byte
  <2>2. \A i \in 1 .. r.n : F(i) \in Byte
    BY <2>1, BoardTypes
  <2> HIDE DEF F
  <2>3. [i \in 1 .. r.n |-> F(i)] \in Seq(Byte)
    BY <2>1, <2>2, IsASeq
  <2> QED  BY <1>3, <2>3 DEF DataOf, F
<1> QED  BY <1>1, <1>2, <1>3 DEF Request, What

LEMMA IdData == \A r \in Request : r.what = "master_id" => DataOf(r) = <<BoardIdHigh, BoardIdLow>>
BY DEF DataOf

LEMMA CountData == \A r \in Request : r.what = "slave_count" => DataOf(r) = <<Len(BoardSlaves)>>
BY DEF DataOf

\* As many ids as the board has slaves are exactly the board's slaves.
LEMMA IdsData ==
  \A r \in Request :
    r.what = "slave_ids" /\ r.n = Len(BoardSlaves) => DataOf(r) = BoardSlaves
<1> SUFFICES ASSUME NEW r \in Request, r.what = "slave_ids", r.n = Len(BoardSlaves)
             PROVE  DataOf(r) = BoardSlaves
  OBVIOUS
<1> DEFINE d == [i \in 1 .. r.n |-> IF i <= Len(BoardSlaves) THEN BoardSlaves[i] ELSE 0]
<1>1. BoardSlaves \in Seq(Byte) /\ Len(BoardSlaves) \in Nat
  BY SetupAssumption
<1>2. \A i \in 1 .. Len(BoardSlaves) : d[i] = BoardSlaves[i]
  BY <1>1
<1>3. d \in Seq(Byte) /\ Len(d) = Len(BoardSlaves)
  <2>1. \A i \in 1 .. Len(BoardSlaves) : d[i] \in Byte
    BY <1>1, <1>2
  <2> QED  BY <1>1, <2>1, IsASeq
<1>4. d = BoardSlaves
  BY <1>1, <1>2, <1>3, SeqEqual
<1> HIDE DEF d
<1>5. DataOf(r) = d
  BY DEF DataOf, d
<1> QED  BY <1>4, <1>5

-----------------------------------------------------------------------------
(* Types.                                                                  *)

LEMMA TypeInit == Init => TypeOK
<1> SUFFICES ASSUME Init PROVE TypeOK
  OBVIOUS
<1>1. /\ step \in What \cup {"ready", "exited", "crashed"}
      /\ mode \in {"request", "receive"}
  BY DEF Init, What
<1>2. /\ asked \in Seq(Request)
      /\ rx \in Seq([to : Request, intact : BOOLEAN])
      /\ slave_ids \in Seq(Byte) /\ Len(slave_ids) = 0
  BY DEF Init
<1>3. master_id \in Id /\ slave_count \in Byte
  <2>1. 0 = 0 * 256 + 0
    BY SMT
  <2> QED  BY <2>1, BoardTypes DEF Init, Id
<1>4. late \in BOOLEAN
  BY Zenon DEF Init
<1>5. 0 <= kMaxSlaveCount
  BY SetupAssumption
<1> QED  BY <1>1, <1>2, <1>3, <1>4, <1>5 DEF TypeOK

LEMMA HeadRx ==
  ASSUME TypeOK, rx # <<>>
  PROVE  /\ Head(rx) \in [to : Request, intact : BOOLEAN]
         /\ Head(rx).to \in Request
         /\ Received \in Seq(Byte)
         /\ Tail(rx) \in Seq([to : Request, intact : BOOLEAN])
<1> DEFINE Answer == [to : Request, intact : BOOLEAN]
<1>1. \A a \in Answer : a.to \in Request
  OBVIOUS
<1>2. rx \in Seq(Answer)
  BY DEF TypeOK
<1> HIDE DEF Answer
<1>3. Head(rx) \in Answer /\ Tail(rx) \in Seq(Answer)
  BY <1>2
<1>4. Head(rx).to \in Request
  BY <1>1, <1>3
<1> QED  BY <1>3, <1>4, DataType DEF Received, Answer

LEMMA TypeStep == TypeOK /\ [Next]_vars => TypeOK'
<1> SUFFICES ASSUME TypeOK, [Next]_vars PROVE TypeOK'
  OBVIOUS
<1>1. CASE SendRequest
  <2>1. CASE PortOpen
    <3>1. asked' \in Seq(Request) /\ mode' = "receive" /\ UNCHANGED <<step, rx, fields, late>>
      BY <1>1, <2>1, RequestType DEF SendRequest, TypeOK
    <3> QED  BY <3>1 DEF TypeOK, fields
  <2>2. CASE ~PortOpen
    BY <1>1, <2>2 DEF SendRequest, TypeOK, fields
  <2> QED  BY <2>1, <2>2
<1>2. CASE ReceiveNothing
  <2>1. late' \in BOOLEAN
    BY <1>2 DEF ReceiveNothing, TypeOK
  <2> QED  BY <1>2, <2>1 DEF ReceiveNothing, Retry, TypeOK, fields, What
<1>3. CASE ReceiveUnusable
  <2>1. rx' \in Seq([to : Request, intact : BOOLEAN])
    BY <1>3, HeadRx DEF ReceiveUnusable
  <2> QED  BY <1>3, <2>1 DEF ReceiveUnusable, Retry, TypeOK, fields, What
<1>4. CASE ReceiveMasterId
  <2>1. rx # <<>> /\ rx' = Tail(rx)
    BY <1>4 DEF ReceiveMasterId, Receive
  <2>2. rx' \in Seq([to : Request, intact : BOOLEAN]) /\ Received \in Seq(Byte)
    BY <2>1, HeadRx
  <2>3. \A i \in {1, 2} : DataAt(Received, i) \subseteq Byte
    BY <2>2, SetupAssumption DEF DataAt
  <2>4. PICK high \in DataAt(Received, 1), low \in DataAt(Received, 2) :
           master_id' = high * 256 + low
    BY <1>4 DEF ReceiveMasterId
  <2>5. high \in Byte /\ low \in Byte
    BY <2>3
  <2>6. master_id' \in Id
    BY <2>4, <2>5 DEF Id
  <2> QED  BY <1>4, <2>2, <2>6 DEF ReceiveMasterId, Receive, TypeOK, What
<1>5. CASE ReceiveSlaveCount
  <2>1. rx # <<>> /\ rx' = Tail(rx) /\ Received # <<>> /\ slave_count' = Received[1]
    BY <1>5 DEF ReceiveSlaveCount, Receive
  <2>2. rx' \in Seq([to : Request, intact : BOOLEAN]) /\ Received \in Seq(Byte)
    BY <2>1, HeadRx
  <2>3. slave_count' \in Byte
    BY <2>1, <2>2
  <2> QED  BY <1>5, <2>2, <2>3 DEF ReceiveSlaveCount, Receive, TypeOK, What
<1>6. CASE ReceiveNoData
  <2>1. rx # <<>> /\ rx' = Tail(rx)
    BY <1>6 DEF ReceiveNoData, Receive
  <2>2. rx' \in Seq([to : Request, intact : BOOLEAN])
    BY <2>1, HeadRx
  <2> QED  BY <1>6, <2>2 DEF ReceiveNoData, Receive, TypeOK, fields
<1>7. CASE ReceiveSlaveIds
  <2>1. rx # <<>> /\ rx' = Tail(rx) /\ Usable(Head(rx)) /\ slave_ids' = Received
    BY <1>7 DEF ReceiveSlaveIds, Receive
  <2>2. rx' \in Seq([to : Request, intact : BOOLEAN]) /\ Received \in Seq(Byte)
    BY <2>1, HeadRx
  <2>3. Len(slave_ids') <= kMaxSlaveCount
    BY <2>1, <2>2, SetupAssumption DEF Usable, Received
  <2> QED  BY <1>7, <2>1, <2>2, <2>3 DEF ReceiveSlaveIds, Receive, TypeOK
<1>8. CASE \E w \in What : BoardAnswers(w)
  <2>1. asked # <<>> /\ asked' = Tail(asked) /\ rx' = Append(rx, [to |-> Head(asked), intact |-> TRUE])
        /\ UNCHANGED <<step, mode, fields, late>>
    BY <1>8 DEF BoardAnswers
  <2>2. Head(asked) \in Request /\ asked' \in Seq(Request)
    BY <2>1 DEF TypeOK
  <2> QED  BY <2>1, <2>2 DEF TypeOK, fields
<1>9. CASE AnswerDamaged
  <2>1. Head(asked) \in Request /\ asked' \in Seq(Request)
    BY <1>9 DEF AnswerDamaged, TypeOK
  <2> QED  BY <1>9, <2>1 DEF AnswerDamaged, TypeOK, fields
<1>10. CASE AnswerLost
  <2>1. asked' \in Seq(Request)
    BY <1>10 DEF AnswerLost, TypeOK
  <2> QED  BY <1>10, <2>1 DEF AnswerLost, TypeOK, fields
<1>11. CASE UNCHANGED vars
  BY <1>11 DEF vars, TypeOK, fields
<1> QED
  BY <1>1, <1>2, <1>3, <1>4, <1>5, <1>6, <1>7, <1>8, <1>9, <1>10, <1>11 DEF Next, Gateway

-----------------------------------------------------------------------------
(* The master's id.                                                        *)

\* A retry never goes back to the id, and while the id is read only requests
\* for it are sent.
LEMMA OnlyIdStep == TypeOK /\ OnlyIdAsked /\ [Next]_vars => OnlyIdAsked'
<1> SUFFICES ASSUME TypeOK, OnlyIdAsked, [Next]_vars, step' = "master_id"
             PROVE  /\ \A i \in 1 .. Len(asked') : asked'[i].what = "master_id"
                    /\ \A i \in 1 .. Len(rx') : rx'[i].to.what = "master_id"
  BY DEF OnlyIdAsked
<1>0. asked \in Seq(Request) /\ rx \in Seq([to : Request, intact : BOOLEAN])
  BY DEF TypeOK
<1>1. CASE SendRequest
  <2>1. step = "master_id" /\ asked' = Append(asked, RequestOf(step)) /\ rx' = rx
    BY <1>1 DEF SendRequest
  <2>2. RequestOf(step).what = "master_id"
    BY <2>1 DEF RequestOf
  <2> QED  BY <1>0, <2>1, <2>2 DEF OnlyIdAsked
<1>2. CASE ReceiveNothing
  BY <1>2 DEF ReceiveNothing, Retry, OnlyIdAsked
<1>3. CASE ReceiveUnusable
  <2>1. step = "master_id" /\ asked' = asked /\ rx # <<>> /\ rx' = Tail(rx)
    BY <1>3 DEF ReceiveUnusable, Retry
  <2> QED  BY SMTT(30), <1>0, <2>1 DEF OnlyIdAsked
<1>4. CASE ReceiveMasterId \/ ReceiveSlaveCount \/ ReceiveNoData \/ ReceiveSlaveIds
  BY <1>4 DEF ReceiveMasterId, ReceiveSlaveCount, ReceiveNoData, ReceiveSlaveIds, Receive
<1>5. CASE (\E w \in What : BoardAnswers(w)) \/ AnswerDamaged
  <2>1. PICK b \in BOOLEAN : /\ step' = step /\ asked # <<>> /\ asked' = Tail(asked)
                             /\ rx' = Append(rx, [to |-> Head(asked), intact |-> b])
    BY <1>5 DEF BoardAnswers, AnswerDamaged
  <2>2. step = "master_id" /\ Head(asked).what = "master_id"
    BY SMTT(30), <1>0, <2>1 DEF OnlyIdAsked
  <2>3. \A i \in 1 .. Len(asked') : asked'[i].what = "master_id"
    BY <1>0, <2>1, <2>2 DEF OnlyIdAsked
  <2> DEFINE a == [to |-> Head(asked), intact |-> b]
  <2>4. a.to.what = "master_id"
    BY <2>2
  <2> HIDE DEF a
  <2>5. rx' = Append(rx, a)
    BY <2>1 DEF a
  <2>6. \A i \in 1 .. Len(rx') : rx'[i].to.what = "master_id"
    BY <1>0, <2>2, <2>4, <2>5 DEF OnlyIdAsked
  <2> QED  BY <2>3, <2>6
<1>6. CASE AnswerLost
  <2>1. step' = step /\ asked # <<>> /\ asked' = Tail(asked) /\ rx' = rx
    BY <1>6 DEF AnswerLost
  <2> QED  BY <1>0, <2>1 DEF OnlyIdAsked
<1>7. CASE UNCHANGED vars
  BY <1>7 DEF vars, OnlyIdAsked
<1> QED  BY <1>1, <1>2, <1>3, <1>4, <1>5, <1>6, <1>7 DEF Next, Gateway

LEMMA MasterIdStep ==
  TypeOK /\ OnlyIdAsked /\ MasterIdRight /\ [Next]_vars => MasterIdRight'
<1> SUFFICES ASSUME TypeOK, OnlyIdAsked, MasterIdRight, [Next]_vars PROVE MasterIdRight'
  OBVIOUS
<1> USE DEF MasterIdRight, fields
<1>1. CASE ReceiveMasterId
  <2>1. rx # <<>> /\ step = "master_id"
    BY <1>1 DEF ReceiveMasterId, Receive
  <2>2. Head(rx).to \in Request
    BY <2>1, HeadRx
  <2>3. Head(rx).to.what = "master_id"
    BY <2>1 DEF OnlyIdAsked, TypeOK
  <2>4. Received = <<BoardIdHigh, BoardIdLow>>
    BY <2>2, <2>3, IdData DEF Received
  <2>5. master_id' = BoardId
    BY <1>1, <2>4 DEF ReceiveMasterId, DataAt, BoardId
  <2> QED  BY <2>5 DEF BoardId
<1>2. CASE SendRequest \/ ReceiveNothing \/ ReceiveUnusable
  BY <1>2 DEF SendRequest, ReceiveNothing, ReceiveUnusable, Retry, What, BoardId
<1>3. CASE ReceiveSlaveCount \/ ReceiveNoData \/ ReceiveSlaveIds
  BY <1>3 DEF ReceiveSlaveCount, ReceiveNoData, ReceiveSlaveIds, Receive, BoardId
<1>4. CASE (\E w \in What : BoardAnswers(w)) \/ AnswerDamaged \/ AnswerLost
  BY <1>4 DEF BoardAnswers, AnswerDamaged, AnswerLost, BoardId
<1>5. CASE UNCHANGED vars
  BY <1>5 DEF vars, BoardId
<1> QED  BY <1>1, <1>2, <1>3, <1>4, <1>5 DEF Next, Gateway

-----------------------------------------------------------------------------
(* Requests and answers in step.                                           *)

\* What a step of InStep's requests finds in the buffer.
LEMMA AnswerInStep ==
  ASSUME TypeOK, InStep, ~late, step \in What, mode = "receive", rx # <<>>
  PROVE  /\ asked = <<>>
         /\ Tail(rx) = <<>>
         /\ Head(rx).to = RequestOf(step)
<1>1. asked = <<>> /\ rx \in Answers(RequestOf(step))
  BY DEF InStep
<1>2. PICK b \in BOOLEAN : rx = <<[to |-> RequestOf(step), intact |-> b]>>
  BY <1>1 DEF Answers
<1> DEFINE a == [to |-> RequestOf(step), intact |-> b]
<1>3. a.to = RequestOf(step)
  OBVIOUS
<1> HIDE DEF a
<1>4. rx = <<a>>
  BY <1>2 DEF a
<1>5. Head(rx) = a /\ Tail(rx) = <<>>
  BY <1>4
<1> QED  BY <1>1, <1>3, <1>5

LEMMA InStepStep == TypeOK /\ InStep /\ [Next]_vars => InStep'
<1> SUFFICES ASSUME TypeOK, InStep, [Next]_vars, ~late' PROVE InStep'
  BY DEF InStep
<1> USE DEF fields
<1>0. ~late
  BY DEF Next, Gateway, SendRequest, ReceiveNothing, ReceiveUnusable, ReceiveMasterId,
         ReceiveSlaveCount, ReceiveNoData, ReceiveSlaveIds, Receive, BoardAnswers,
         AnswerDamaged, AnswerLost, vars
<1>1. CASE SendRequest
  <2>1. step \in What /\ mode = "request" /\ asked = <<>> /\ rx = <<>>
    BY <1>0, <1>1 DEF SendRequest, InStep
  <2>2. CASE PortOpen
    <3>1. /\ asked' = <<RequestOf(step)>> /\ rx' = <<>> /\ step' = step /\ mode' = "receive"
          /\ slave_count' = slave_count
      BY <1>1, <2>1, <2>2 DEF SendRequest
    <3>2. RequestOf(step)' = RequestOf(step)
      BY <3>1 DEF RequestOf
    <3>3. step' = "slave_ids" => slave_count' = Len(BoardSlaves)
      BY <1>0, <3>1 DEF InStep
    <3> QED  BY <3>1, <3>2, <3>3 DEF InStep
  <2>3. CASE ~PortOpen
    BY <1>1, <2>3 DEF SendRequest, InStep, What
  <2> QED  BY <2>2, <2>3
<1>2. CASE ReceiveNothing
  <2>1. asked' = <<>> /\ rx' = <<>> /\ mode' = "request" /\ step' # "slave_ids"
    BY <1>2 DEF ReceiveNothing, Retry
  <2> QED  BY <2>1 DEF InStep
<1>3. CASE ReceiveUnusable
  <2>1. asked = <<>> /\ Tail(rx) = <<>>
    BY <1>0, <1>3, AnswerInStep DEF ReceiveUnusable
  <2>2. asked' = <<>> /\ rx' = <<>> /\ mode' = "request" /\ step' # "slave_ids"
    BY <1>3, <2>1 DEF ReceiveUnusable, Retry
  <2> QED  BY <2>2 DEF InStep
<1>4. CASE ReceiveSlaveCount
  <2>1. step = "slave_count" /\ mode = "receive" /\ rx # <<>>
    BY <1>4 DEF ReceiveSlaveCount, Receive
  <2>2. step \in What
    BY <2>1 DEF What
  <2>3. asked = <<>> /\ Tail(rx) = <<>> /\ Head(rx).to = RequestOf(step)
    BY <1>0, <2>1, <2>2, AnswerInStep
  <2>4. asked' = <<>> /\ rx' = <<>> /\ mode' = "request"
    BY <1>4, <2>3 DEF ReceiveSlaveCount, Receive
  <2>5. Head(rx).to.what = "slave_count"
    BY <2>1, <2>3 DEF RequestOf
  <2>6. Received = <<Len(BoardSlaves)>>
    BY <2>1, <2>5, HeadRx, CountData DEF Received
  <2>7. slave_count' = Len(BoardSlaves)
    BY <1>4, <2>6 DEF ReceiveSlaveCount
  <2> QED  BY <2>4, <2>7 DEF InStep
<1>5. CASE ReceiveMasterId \/ ReceiveSlaveIds \/ ReceiveNoData
  <2>1. step \in What /\ mode = "receive" /\ rx # <<>>
    BY <1>5 DEF ReceiveMasterId, ReceiveSlaveIds, ReceiveNoData, Receive, What
  <2>2. asked = <<>> /\ Tail(rx) = <<>>
    BY <1>0, <2>1, AnswerInStep
  <2>3. asked' = <<>> /\ rx' = <<>> /\ mode' = "request" /\ step' # "slave_ids"
    BY <1>5, <2>2 DEF ReceiveMasterId, ReceiveSlaveIds, ReceiveNoData, Receive
  <2> QED  BY <2>3 DEF InStep
<1>6. CASE (\E w \in What : BoardAnswers(w)) \/ AnswerDamaged
  <2>1. PICK b \in BOOLEAN : /\ UNCHANGED <<step, mode, slave_count>>
                             /\ asked # <<>> /\ asked' = Tail(asked)
                             /\ rx' = Append(rx, [to |-> Head(asked), intact |-> b])
    BY <1>6 DEF BoardAnswers, AnswerDamaged
  <2>2. step' = "slave_ids" => slave_count' = Len(BoardSlaves)
    BY <1>0, <2>1 DEF InStep
  <2>3. CASE step \in What /\ mode = "receive"
    <3>1. asked = <<RequestOf(step)>> /\ rx = <<>>
      BY <1>0, <2>1, <2>3 DEF InStep, Answers
    <3>2. asked' = <<>> /\ rx' = <<[to |-> RequestOf(step), intact |-> b]>>
      BY <2>1, <3>1
    <3>3. RequestOf(step)' = RequestOf(step)
      BY <2>1 DEF RequestOf
    <3>4. rx' \in Answers(RequestOf(step)')
      BY <3>2, <3>3 DEF Answers
    <3> QED  BY <2>1, <2>2, <2>3, <3>2, <3>4 DEF InStep
  <2>4. CASE step \in What /\ mode = "request"
    BY <1>0, <2>1, <2>4 DEF InStep
  <2>5. CASE step \notin What
    BY <2>1, <2>5 DEF InStep, What
  <2> QED  BY <2>3, <2>4, <2>5 DEF TypeOK
<1>7. CASE AnswerLost
  <2>1. UNCHANGED <<step, mode, rx, slave_count>> /\ asked # <<>> /\ asked' = Tail(asked)
    BY <1>7 DEF AnswerLost
  <2>2. step' = "slave_ids" => slave_count' = Len(BoardSlaves)
    BY <1>0, <2>1 DEF InStep
  <2>3. step \in What => mode = "receive" /\ asked = <<RequestOf(step)>> /\ rx = <<>>
    BY <1>0, <2>1 DEF InStep, TypeOK
  <2>4. step \in What => mode' = "receive" /\ asked' = <<>> /\ rx' = <<>>
    <3> SUFFICES ASSUME step \in What PROVE mode' = "receive" /\ asked' = <<>> /\ rx' = <<>>
      OBVIOUS
    <3>1. asked' = Tail(<<RequestOf(step)>>) /\ rx' = <<>> /\ mode' = "receive"
      BY <2>1, <2>3, Zenon
    <3>2. Tail(<<RequestOf(step)>>) = <<>>
      OBVIOUS
    <3> QED  BY <3>1, <3>2, Zenon
  <2> QED  BY <2>1, <2>2, <2>4 DEF InStep
<1>8. CASE UNCHANGED vars
  BY <1>8 DEF vars, InStep, RequestOf
<1> QED  BY <1>1, <1>2, <1>3, <1>4, <1>5, <1>6, <1>7, <1>8 DEF Next, Gateway

LEMMA SlavesStep == TypeOK /\ InStep /\ SlavesRight /\ [Next]_vars => SlavesRight'
<1> SUFFICES ASSUME TypeOK, InStep, SlavesRight, [Next]_vars, step' = "ready", ~late'
             PROVE  slave_count' = Len(BoardSlaves) /\ slave_ids' = BoardSlaves
  BY DEF SlavesRight
<1> USE DEF fields
<1>1. CASE ReceiveSlaveIds
  <2>1. /\ step = "slave_ids" /\ mode = "receive" /\ rx # <<>> /\ ~late
        /\ slave_ids' = Received /\ slave_count' = slave_count
    BY <1>1 DEF ReceiveSlaveIds, Receive
  <2>2. slave_count = Len(BoardSlaves)
    BY <2>1 DEF InStep
  <2>3. step \in What
    BY <2>1 DEF What
  <2>4. Head(rx).to = RequestOf(step)
    BY <2>1, <2>3, AnswerInStep
  <2>5. Head(rx).to.what = "slave_ids" /\ Head(rx).to.n = Len(BoardSlaves)
    BY <2>1, <2>2, <2>4 DEF RequestOf
  <2>6. Received = BoardSlaves
    BY <2>1, <2>5, HeadRx, IdsData DEF Received
  <2> QED  BY <2>1, <2>2, <2>6
<1>2. CASE SendRequest \/ ReceiveNothing \/ ReceiveUnusable
  BY <1>2 DEF SendRequest, ReceiveNothing, ReceiveUnusable, Retry, What
<1>3. CASE ReceiveMasterId \/ ReceiveSlaveCount \/ ReceiveNoData
  BY <1>3 DEF ReceiveMasterId, ReceiveSlaveCount, ReceiveNoData, Receive
<1>4. CASE (\E w \in What : BoardAnswers(w)) \/ AnswerDamaged \/ AnswerLost
  BY <1>4 DEF BoardAnswers, AnswerDamaged, AnswerLost, SlavesRight
<1>5. CASE UNCHANGED vars
  BY <1>5 DEF vars, SlavesRight
<1> QED  BY <1>1, <1>2, <1>3, <1>4, <1>5 DEF Next, Gateway

LEMMA NoCrashStep == TypeOK /\ InStep /\ NoCrash /\ [Next]_vars => NoCrash'
<1> SUFFICES ASSUME TypeOK, InStep, NoCrash, [Next]_vars, ~late', step' = "crashed"
             PROVE  FALSE
  BY DEF NoCrash
<1> USE DEF fields
<1>1. CASE ReceiveNoData
  <2>1. /\ step \in {"master_id", "slave_count"} /\ mode = "receive" /\ rx # <<>> /\ ~late
        /\ Received = <<>>
    BY <1>1 DEF ReceiveNoData, Receive
  <2>2. step \in What
    BY <2>1 DEF What
  <2>3. Head(rx).to = RequestOf(step)
    BY <2>1, <2>2, AnswerInStep
  <2>4. Head(rx).to.what = step /\ Head(rx).to \in Request
    BY <2>1, <2>3, HeadRx DEF RequestOf
  <2>5. Received = <<BoardIdHigh, BoardIdLow>> \/ Received = <<Len(BoardSlaves)>>
    BY <2>1, <2>4, IdData, CountData DEF Received
  <2>6. <<BoardIdHigh, BoardIdLow>> # <<>> /\ <<Len(BoardSlaves)>> # <<>>
    OBVIOUS
  <2> QED  BY <2>1, <2>5, <2>6
<1>2. CASE SendRequest \/ ReceiveNothing \/ ReceiveUnusable
  BY <1>2 DEF SendRequest, ReceiveNothing, ReceiveUnusable, Retry, What
<1>3. CASE ReceiveMasterId \/ ReceiveSlaveCount \/ ReceiveSlaveIds
  BY <1>3 DEF ReceiveMasterId, ReceiveSlaveCount, ReceiveSlaveIds, Receive
<1>4. CASE (\E w \in What : BoardAnswers(w)) \/ AnswerDamaged \/ AnswerLost
  BY <1>4 DEF BoardAnswers, AnswerDamaged, AnswerLost, NoCrash
<1>5. CASE UNCHANGED vars
  BY <1>5 DEF vars, NoCrash
<1> QED  BY <1>1, <1>2, <1>3, <1>4, <1>5 DEF Next, Gateway

-----------------------------------------------------------------------------
(* The invariant.                                                          *)

LEMMA InitInv == Init => IInv
<1> SUFFICES ASSUME Init PROVE IInv
  OBVIOUS
<1>1. TypeOK
  BY TypeInit
<1>2. OnlyIdAsked /\ InStep
  BY DEF Init, OnlyIdAsked, InStep
<1>3. MasterIdRight /\ SlavesRight /\ NoCrash
  BY DEF Init, MasterIdRight, SlavesRight, NoCrash
<1> QED  BY <1>1, <1>2, <1>3 DEF IInv

LEMMA InvStep == IInv /\ [Next]_vars => IInv'
BY TypeStep, OnlyIdStep, MasterIdStep, InStepStep, SlavesStep, NoCrashStep DEF IInv

\* The inductive invariant: what has been asked for so far, and how far the
\* requests and the answers can be apart.
THEOREM Invariant == Spec => []IInv
<1> QED  BY InitInv, InvStep, PTL DEF Spec

\* The copy of GetSlaveIds stays inside the array, for every size of it that
\* the length check of ReceivePacket goes with.
THEOREM TypeCorrect == Spec => []TypeOK
<1>1. IInv => TypeOK
  BY DEF IInv
<1> QED  BY <1>1, Invariant, PTL

\* The master's id is the board's, whatever is late, lost or damaged.
THEOREM MasterIdIsRight == Spec => []MasterIdRight
<1>1. IInv => MasterIdRight
  BY DEF IInv
<1> QED  BY <1>1, Invariant, PTL

\* Without a late answer the gateway enters its loop with the board's slaves.
THEOREM SlavesAreRight == Spec => []SlavesRight
<1>1. IInv => SlavesRight
  BY DEF IInv
<1> QED  BY <1>1, Invariant, PTL

\* Without a late answer no packet without data is indexed.
THEOREM NeverCrashes == Spec => []NoCrash
<1>1. IInv => NoCrash
  BY DEF IInv
<1> QED  BY <1>1, Invariant, PTL

=============================================================================
