---------------------- MODULE ConversationStoreProofs ----------------------
(* Proofs about ConversationStore for any number of Runs, calls, messages   *)
(* and checkpoints.                                                        *)
EXTENDS ConversationStore, WellFoundedInduction, TLAPS

\* Before the first use of the conversation there is nothing to point at.
Unused == current = 0 => checkpoints = <<>> /\ active = NoRun

IInv == TypeOK /\ Unused /\ OwnerRunsAtHead

\* A function on 1..m is a sequence of length m.
LEMMA FunctionIsSeq ==
  ASSUME NEW S, NEW m \in Nat, NEW f \in [1 .. m -> S]
  PROVE  f \in Seq(S) /\ Len(f) = m
OBVIOUS

\* The checkpoint table after ensure_conversation_tx.
LEMMA EnsuredType ==
  ASSUME TypeOK, Unused
  PROVE  /\ Ensured \in Seq(CheckpointType)
         /\ EnsuredCurrent \in 1 .. Len(Ensured)
         /\ Len(checkpoints) <= Len(Ensured)
<1>1. CASE current = 0
  <2>1. Root \in CheckpointType
    BY DEF Root, CheckpointType
  <2>2. <<Root>> \in Seq(CheckpointType) /\ Len(<<Root>>) = 1
    BY <2>1
  <2>3. Len(checkpoints) = 0
    BY <1>1 DEF Unused
  <2> QED BY <1>1, <2>2, <2>3 DEF Ensured, EnsuredCurrent
<1>2. CASE current # 0
  BY <1>2 DEF TypeOK, Ensured, EnsuredCurrent
<1> QED BY Zenon, <1>1, <1>2

\* insert_checkpoint_tx adds one row of the right type.
LEMMA InsertType ==
  ASSUME TypeOK, NEW table \in Seq(CheckpointType), NEW parent \in Nat,
         NEW additions \in Seq(Message), NEW full \in Seq(Message),
         InsertCheckpoint(table, parent, additions, full)
  PROVE  /\ checkpoints' \in Seq(CheckpointType)
         /\ Len(checkpoints') = Len(table) + 1
         /\ messages' \in [MessageId -> Content \cup {"absent"}]
<1> DEFINE ids == [i \in DOMAIN additions |-> additions[i].id]
           row == [parent |-> parent, added |-> ids, digest |-> full]
<1>1. Len(additions) \in Nat /\ DOMAIN additions = 1 .. Len(additions)
  OBVIOUS
<1>2. \A i \in DOMAIN additions : additions[i] \in Message
  BY <1>1
<1>3. \A i \in DOMAIN additions : additions[i].id \in MessageId /\ additions[i].body \in Content
  BY Zenon, <1>2 DEF Message
<1>4. ids \in [1 .. Len(additions) -> MessageId]
  BY Zenon, <1>1, <1>3
<1>5. ids \in Seq(MessageId)
  BY Zenon, <1>1, <1>4, FunctionIsSeq
<1>6. row \in CheckpointType
  <2> HIDE DEF ids
  <2> QED BY Zenon, <1>5 DEF CheckpointType
<1>7. checkpoints' = Append(table, row)
  BY Zenon DEF InsertCheckpoint
<1>8. checkpoints' \in Seq(CheckpointType) /\ Len(checkpoints') = Len(table) + 1
  <2> HIDE DEF row
  <2> QED BY <1>6, <1>7
<1>9. messages' \in [MessageId -> Content \cup {"absent"}]
  <2> DEFINE val(k) == IF \E i \in DOMAIN additions : additions[i].id = k
                       THEN additions[CHOOSE i \in DOMAIN additions : additions[i].id = k].body
                       ELSE messages[k]
  <2>1. messages' = [k \in MessageId |-> val(k)]
    BY Zenon DEF InsertCheckpoint, PutMessages
  <2>2. ASSUME NEW k \in MessageId PROVE val(k) \in Content \cup {"absent"}
    <3>1. CASE \E i \in DOMAIN additions : additions[i].id = k
      <4>1. (CHOOSE i \in DOMAIN additions : additions[i].id = k) \in DOMAIN additions
        BY Zenon, <3>1
      <4> QED BY Zenon, <3>1, <4>1, <1>3
    <3>2. CASE ~ \E i \in DOMAIN additions : additions[i].id = k
      BY Zenon, <3>2 DEF TypeOK
    <3> QED BY Zenon, <3>1, <3>2
  <2> HIDE DEF val
  <2> QED BY Zenon, <2>1, <2>2
<1> QED BY Zenon, <1>8, <1>9

\* Moving the owner's head and the conversation to a new row keeps the invariant.
LEMMA AdvanceIInv ==
  ASSUME IInv, NEW r \in Run, active = r, current # 0, Advance(r),
         checkpoints' \in Seq(CheckpointType),
         Len(checkpoints') = Len(checkpoints) + 1,
         messages' \in [MessageId -> Content \cup {"absent"}],
         rounds' \in [Round -> [status : {"none", "pending", "settled"},
                                calls : SUBSET Call, done : Seq(Call)]]
  PROVE  IInv'
<1>1. /\ Len(checkpoints) \in Nat /\ Len(checkpoints') \in Nat
      /\ current' = Len(checkpoints') /\ active' = active
      /\ runs' = [runs EXCEPT ![r].head = Len(checkpoints')]
      /\ current' # 0
  BY DEF Advance, IInv, TypeOK
<1>2. /\ DOMAIN runs' = Run
      /\ \A x \in Run : runs'[x].status = runs[x].status
      /\ runs'[r].head = Len(checkpoints')
      /\ \A x \in Run \ {r} : runs'[x] = runs[x]
      /\ runs'[r] = [runs[r] EXCEPT !.head = Len(checkpoints')]
  BY <1>1 DEF IInv, TypeOK
<1>3. ASSUME NEW x \in Run
      PROVE  runs'[x] \in [status : {"none", "running", "completed", "cancelled", "failed"},
                           head : 0 .. Len(checkpoints'), calls : 0 .. MaxProviderCalls]
  <2>1. runs[x] \in [status : {"none", "running", "completed", "cancelled", "failed"},
                     head : 0 .. Len(checkpoints), calls : 0 .. MaxProviderCalls]
    BY Zenon DEF IInv, TypeOK
  <2>2. /\ 0 .. Len(checkpoints) \subseteq 0 .. Len(checkpoints')
        /\ Len(checkpoints') \in 0 .. Len(checkpoints')
    BY <1>1
  <2>3. CASE x = r
    <3>1. runs'[x] = [runs[x] EXCEPT !.head = Len(checkpoints')]
      BY Zenon, <1>2, <2>3
    <3> QED BY Zenon, <2>1, <2>2, <3>1
  <2>4. CASE x # r
    <3>1. runs'[x] = runs[x]
      BY Zenon, <1>2, <2>4
    <3> QED BY Zenon, <2>1, <2>2, <3>1
  <2> QED BY Zenon, <2>3, <2>4
<1>4. runs' \in [Run -> [status : {"none", "running", "completed", "cancelled", "failed"},
                        head : 0 .. Len(checkpoints'), calls : 0 .. MaxProviderCalls]]
  <2>1. runs' = [x \in Run |-> runs'[x]]
    BY <1>1, Zenon DEF IInv, TypeOK
  <2> QED BY Zenon, <1>3, <2>1
<1>5. OwnerRunsAtHead'
  BY Zenon, <1>1, <1>2 DEF IInv, OwnerRunsAtHead
<1> QED BY <1>1, <1>4, <1>5 DEF IInv, TypeOK, Unused

\* append_checkpoint keeps the invariant: only the owner's head moves, and the
\* conversation moves with it.
LEMMA AppendIInv ==
  ASSUME IInv, NEW r \in Run, NEW additions \in Seq(Message), AppendCheckpoint(r, additions),
         rounds' \in [Round -> [status : {"none", "pending", "settled"},
                                calls : SUBSET Call, done : Seq(Call)]]
  PROVE  IInv'
<1> DEFINE full == checkpoints[runs[r].head].digest \o additions
<1>1. /\ active = r /\ current # 0 /\ current = runs[r].head
      /\ current \in 1 .. Len(checkpoints)
      /\ checkpoints \in Seq(CheckpointType)
  BY DEF AppendCheckpoint, ActiveHead, IInv, TypeOK
<1>2. full \in Seq(Message)
  <2>1. checkpoints[current] \in CheckpointType
    BY <1>1
  <2>2. checkpoints[current].digest \in Seq(Message)
    BY Zenon, <2>1 DEF CheckpointType
  <2> QED BY <1>1, <2>2
<1>3. InsertCheckpoint(checkpoints, runs[r].head, additions, full)
  BY Zenon DEF AppendCheckpoint
<1>4. /\ checkpoints' \in Seq(CheckpointType)
      /\ Len(checkpoints') = Len(checkpoints) + 1
      /\ messages' \in [MessageId -> Content \cup {"absent"}]
  <2> HIDE DEF full
  <2>1. TypeOK /\ runs[r].head \in Nat
    BY <1>1 DEF IInv
  <2> QED BY Zenon, <1>1, <1>2, <1>3, <2>1, InsertType
<1>5. Advance(r)
  BY Zenon DEF AppendCheckpoint
<1> QED BY Zenon, <1>1, <1>4, <1>5, AdvanceIInv

\* The messages the operations append, and the client histories, are typed.
LEMMA MessageTypes ==
  /\ \A k \in Round, c \in Call : CallId(k, c) \in MessageId /\ ResultId(k, c) \in MessageId
  /\ \A k \in Round : FinalId(k) \in MessageId /\ SummaryId(k) \in MessageId
  /\ \A i \in MessageId, b \in Content : Message1(i, b) \in Message
  /\ \A ms \in History : ms \in Seq(Message)
<1>1. /\ \A k \in Round, c \in Call : CallId(k, c) \in MessageId /\ ResultId(k, c) \in MessageId
      /\ \A k \in Round : FinalId(k) \in MessageId /\ SummaryId(k) \in MessageId
  BY Zenon DEF CallId, ResultId, FinalId, SummaryId, MessageId
<1>2. \A i \in MessageId, b \in Content : Message1(i, b) \in Message
  BY Zenon DEF Message1, Message
<1>3. \A i \in ExternalId, b \in Body : Message1(i, b) \in Message
  BY Zenon, <1>2 DEF MessageId, Content
<1>4. \A ms \in History : ms \in Seq(Message)
  <2> SUFFICES ASSUME NEW ms \in History PROVE ms \in Seq(Message)
    BY Zenon
  <2>1. CASE ms = <<>>
    BY <2>1
  <2>2. ASSUME NEW i \in ExternalId, NEW b \in Body, ms = <<Message1(i, b)>>
        PROVE  ms \in Seq(Message)
    <3>1. Message1(i, b) \in Message
      BY Zenon, <1>3
    <3> QED BY <3>1, <2>2
  <2>3. ASSUME NEW i \in ExternalId, NEW j \in ExternalId, NEW a \in Body, NEW b \in Body,
               ms = <<Message1(i, a), Message1(j, b)>>
        PROVE  ms \in Seq(Message)
    <3>1. Message1(i, a) \in Message /\ Message1(j, b) \in Message
      BY Zenon, <1>3
    <3> QED BY <3>1, <2>3
  <2> QED BY <2>1, <2>2, <2>3 DEF History
<1> QED BY Zenon, <1>1, <1>2, <1>4

\* The empty store satisfies the inductive invariant.
LEMMA InitIInv == Init => IInv
<1> SUFFICES ASSUME Init PROVE IInv
  BY Zenon
<1>1. checkpoints \in Seq(CheckpointType) /\ Len(checkpoints) = 0
  BY DEF Init
<1>2. messages \in [MessageId -> Content \cup {"absent"}]
  BY Zenon DEF Init
<1>3. runs \in [Run -> [status : {"none", "running", "completed", "cancelled", "failed"},
                       head : 0 .. Len(checkpoints), calls : 0 .. MaxProviderCalls]]
  BY <1>1, BoundsAssumption DEF Init
<1>4. rounds \in [Round -> [status : {"none", "pending", "settled"},
                           calls : SUBSET Call, done : Seq(Call)]]
  BY DEF Init
<1> QED BY <1>1, <1>2, <1>3, <1>4 DEF Init, IInv, TypeOK, Unused, OwnerRunsAtHead

\* import_checkpoint adds a row that nobody's head refers to.
LEMMA ImportIInv ==
  ASSUME IInv, NEW ms \in Seq(Message), ImportCheckpoint(ms)
  PROVE  IInv'
<1>1. /\ Ensured \in Seq(CheckpointType)
      /\ EnsuredCurrent \in 1 .. Len(Ensured)
      /\ Len(checkpoints) <= Len(Ensured)
      /\ Len(checkpoints) \in Nat /\ Len(Ensured) \in Nat
  BY EnsuredType DEF IInv, TypeOK
<1>2. /\ checkpoints' \in Seq(CheckpointType)
      /\ Len(Ensured) <= Len(checkpoints')
      /\ messages' \in [MessageId -> Content \cup {"absent"}]
  <2>1. CASE Exists(Ensured, ms)
    BY <1>1, <2>1 DEF ImportCheckpoint, IInv, TypeOK
  <2>2. CASE ~ Exists(Ensured, ms)
    <3> DEFINE below == Ensured[EnsuredCurrent].digest
               extends == StartsWith(ms, below)
               parent == IF extends THEN EnsuredCurrent ELSE 1
               rest == IF extends THEN SubSeq(ms, Len(below) + 1, Len(ms)) ELSE ms
    <3>1. InsertCheckpoint(Ensured, parent, rest, ms)
      BY Zenon, <2>2 DEF ImportCheckpoint
    <3>2. below \in Seq(Message)
      <4>1. Ensured[EnsuredCurrent] \in CheckpointType
        BY <1>1
      <4> QED BY Zenon, <4>1 DEF CheckpointType
    <3>3. rest \in Seq(Message)
      <4>1. CASE extends
        <5>1. Len(below) \in Nat /\ Len(ms) \in Nat /\ Len(below) <= Len(ms)
          BY <3>2, <4>1 DEF StartsWith
        <5> HIDE DEF below
        <5>2. SubSeq(ms, Len(below) + 1, Len(ms)) \in Seq(Message)
          BY <5>1
        <5> QED BY Zenon, <4>1, <5>2
      <4>2. CASE ~ extends
        BY Zenon, <4>2
      <4> QED BY Zenon, <4>1, <4>2
    <3>4. parent \in Nat
      BY <1>1
    <3> HIDE DEF parent, rest
    <3>5. TypeOK
      BY Zenon DEF IInv
    <3> QED BY <1>1, <3>1, <3>3, <3>4, <3>5, InsertType
  <2> QED BY Zenon, <2>1, <2>2
<1>3. /\ current' = EnsuredCurrent /\ EnsuredCurrent # 0
      /\ UNCHANGED <<active, runs, rounds>>
  BY <1>1 DEF ImportCheckpoint
<1>4. Len(checkpoints') \in Nat /\ Len(checkpoints) <= Len(checkpoints')
  BY <1>1, <1>2
<1>5. current' \in 0 .. Len(checkpoints')
  BY <1>1, <1>2, <1>3, <1>4
<1>6. runs' \in [Run -> [status : {"none", "running", "completed", "cancelled", "failed"},
                        head : 0 .. Len(checkpoints'), calls : 0 .. MaxProviderCalls]]
  BY <1>1, <1>3, <1>4 DEF IInv, TypeOK
<1>7. OwnerRunsAtHead'
  <2>1. CASE current = 0
    <3>1. active = NoRun
      BY Zenon, <2>1 DEF IInv, Unused
    <3> QED BY Zenon, <3>1, <1>3 DEF IInv, OwnerRunsAtHead
  <2>2. CASE current # 0
    BY Zenon, <2>2, <1>3 DEF IInv, OwnerRunsAtHead, EnsuredCurrent
  <2> QED BY Zenon, <2>1, <2>2
<1> QED BY Zenon, <1>2, <1>3, <1>5, <1>6, <1>7 DEF IInv, TypeOK, Unused

\* ensure_conversation creates the root, which nobody owns.
LEMMA EnsureIInv ==
  ASSUME IInv, EnsureConversation
  PROVE  IInv'
<1>1. /\ Ensured \in Seq(CheckpointType)
      /\ EnsuredCurrent \in 1 .. Len(Ensured)
      /\ Len(checkpoints) <= Len(Ensured)
      /\ Len(checkpoints) \in Nat /\ Len(Ensured) \in Nat
  BY EnsuredType DEF IInv, TypeOK
<1>2. /\ checkpoints' = Ensured /\ current' = EnsuredCurrent /\ EnsuredCurrent # 0
      /\ UNCHANGED <<messages, active, runs, rounds>> /\ current = 0
  BY <1>1 DEF EnsureConversation
<1>3. runs' \in [Run -> [status : {"none", "running", "completed", "cancelled", "failed"},
                        head : 0 .. Len(checkpoints'), calls : 0 .. MaxProviderCalls]]
  BY <1>1, <1>2 DEF IInv, TypeOK
<1>4. OwnerRunsAtHead'
  BY Zenon, <1>2 DEF IInv, OwnerRunsAtHead, Unused
<1> QED BY <1>1, <1>2, <1>3, <1>4 DEF IInv, TypeOK, Unused

\* replace_checkpoint moves the owner's head and the conversation to the new row.
LEMMA ReplaceIInv ==
  ASSUME IInv, NEW r \in Run, NEW before \in Seq(Message), NEW after \in Seq(Message),
         ReplaceCheckpoint(r, before, after)
  PROVE  IInv'
<1> DEFINE s == Message1(SummaryId(<<r, runs[r].calls>>), "text")
           ms == before \o <<s>> \o after
<1>1. /\ active = r /\ current # 0 /\ current = runs[r].head
      /\ current \in 1 .. Len(checkpoints)
      /\ checkpoints \in Seq(CheckpointType)
      /\ runs[r].calls \in 0 .. MaxProviderCalls
  BY DEF ReplaceCheckpoint, ActiveHead, IInv, TypeOK
<1>2. s \in Message
  <2>1. <<r, runs[r].calls>> \in Round
    BY Zenon, <1>1 DEF Round
  <2>2. "text" \in Content
    BY Zenon DEF Content
  <2> QED BY Zenon, <2>1, <2>2, MessageTypes
<1>3. ms \in Seq(Message)
  <2> HIDE DEF s
  <2>1. <<s>> \in Seq(Message)
    BY <1>2
  <2>2. before \o <<s>> \in Seq(Message)
    BY <2>1
  <2> QED BY <2>2
<1>4. InsertCheckpoint(checkpoints, 1, ms, ms) /\ Advance(r) /\ UNCHANGED rounds
  BY Zenon DEF ReplaceCheckpoint
<1>5. /\ checkpoints' \in Seq(CheckpointType)
      /\ Len(checkpoints') = Len(checkpoints) + 1
      /\ messages' \in [MessageId -> Content \cup {"absent"}]
  <2> HIDE DEF ms
  <2>1. TypeOK
    BY Zenon DEF IInv
  <2> QED BY Zenon, <1>1, <1>3, <1>4, <2>1, InsertType
<1> HIDE DEF ms
<1>6. rounds' \in [Round -> [status : {"none", "pending", "settled"},
                            calls : SUBSET Call, done : Seq(Call)]]
  BY Zenon, <1>4 DEF IInv, TypeOK
<1> QED BY Zenon, <1>1, <1>4, <1>5, <1>6, AdvanceIInv

\* claim_run ends the Run it replaces before the new one owns the conversation.
LEMMA ClaimIInv ==
  ASSUME IInv, NEW r \in Run, NEW base \in DOMAIN checkpoints, ClaimRun(r, base)
  PROVE  IInv'
<1>1. /\ Len(checkpoints) \in Nat /\ base \in 1 .. Len(checkpoints)
      /\ checkpoints' = checkpoints /\ messages' = messages /\ rounds' = rounds
      /\ current' = base /\ active' = r
  BY DEF ClaimRun, IInv, TypeOK
<1>2. /\ runs'[r] = [status |-> "running", head |-> base, calls |-> 0]
      /\ \A x \in Run \ {r} :
           /\ runs'[x].head = runs[x].head /\ runs'[x].calls = runs[x].calls
           /\ x = active /\ runs[x].status = "running" => runs'[x].status = "cancelled"
           /\ ~ (x = active /\ runs[x].status = "running") => runs'[x] = runs[x]
           /\ runs'[x] \in [status : {"none", "running", "completed", "cancelled", "failed"},
                            head : 0 .. Len(checkpoints), calls : 0 .. MaxProviderCalls]
      /\ DOMAIN runs' = Run
  BY ZenonT(30) DEF ClaimRun, IInv, TypeOK
<1>3. \A x \in Run \ {r} : runs'[x].status # "running"
  BY Zenon, <1>2 DEF IInv, OwnerRunsAtHead
<1>4. runs' \in [Run -> [status : {"none", "running", "completed", "cancelled", "failed"},
                        head : 0 .. Len(checkpoints), calls : 0 .. MaxProviderCalls]]
  <2>1. runs'[r] \in [status : {"none", "running", "completed", "cancelled", "failed"},
                     head : 0 .. Len(checkpoints), calls : 0 .. MaxProviderCalls]
    BY <1>1, <1>2, BoundsAssumption
  <2> QED BY Zenon, <1>2, <2>1 DEF ClaimRun
<1>5. OwnerRunsAtHead'
  BY <1>1, <1>2, <1>3 DEF OwnerRunsAtHead
<1> QED BY <1>1, <1>4, <1>5 DEF IInv, TypeOK, Unused

\* begin_provider_call counts a call and moves no head.
LEMMA BeginProviderCallIInv ==
  ASSUME IInv, NEW r \in Run, BeginProviderCall(r)
  PROVE  IInv'
<1>1. /\ \A x \in Run : runs'[x].status = runs[x].status /\ runs'[x].head = runs[x].head
      /\ UNCHANGED <<checkpoints, messages, current, active, rounds>>
      /\ runs[r].calls \in 0 .. MaxProviderCalls /\ runs[r].calls < MaxProviderCalls
  BY Zenon DEF BeginProviderCall, IInv, TypeOK
<1>2. runs[r].calls + 1 \in 0 .. MaxProviderCalls
  BY <1>1, BoundsAssumption
<1>3. runs' \in [Run -> [status : {"none", "running", "completed", "cancelled", "failed"},
                        head : 0 .. Len(checkpoints), calls : 0 .. MaxProviderCalls]]
  BY <1>2, ZenonT(30) DEF BeginProviderCall, IInv, TypeOK
<1> QED BY Zenon, <1>1, <1>3 DEF IInv, TypeOK, Unused, OwnerRunsAtHead

\* finish_run releases the conversation with the Run's row.
LEMMA FinishIInv ==
  ASSUME IInv, NEW r \in Run, NEW outcome \in {"completed", "cancelled", "failed"},
         FinishRun(r, outcome)
  PROVE  IInv'
<1>1. /\ runs' \in [Run -> [status : {"none", "running", "completed", "cancelled", "failed"},
                             head : 0 .. Len(checkpoints), calls : 0 .. MaxProviderCalls]]
      /\ \A x \in Run \ {r} : runs'[x] = runs[x]
      /\ runs'[r].status # "running"
      /\ active' = IF active = r THEN NoRun ELSE active
      /\ UNCHANGED <<checkpoints, messages, current, rounds>>
  BY ZenonT(30) DEF FinishRun, IInv, TypeOK
<1>2. OwnerRunsAtHead'
  BY <1>1, Zenon DEF IInv, TypeOK, OwnerRunsAtHead
<1> QED BY Zenon, <1>1, <1>2 DEF IInv, TypeOK, Unused

\* create_tool_round moves no head.
LEMMA CreateToolRoundIInv ==
  ASSUME IInv, NEW r \in Run, NEW cs \in SUBSET Call, CreateToolRound(r, cs)
  PROVE  IInv'
<1>1. UNCHANGED <<checkpoints, messages, current, active, runs>>
  BY Zenon DEF CreateToolRound
<1>2. rounds' \in [Round -> [status : {"none", "pending", "settled"},
                            calls : SUBSET Call, done : Seq(Call)]]
  <2> DEFINE new == [status |-> "pending", calls |-> cs, done |-> <<>>]
  <2>1. new \in [status : {"none", "pending", "settled"}, calls : SUBSET Call, done : Seq(Call)]
    OBVIOUS
  <2>2. rounds' = [rounds EXCEPT ![<<r, runs[r].calls>>] = new]
    BY Zenon DEF CreateToolRound
  <2> HIDE DEF new
  <2> QED BY <2>1, <2>2, Zenon DEF IInv, TypeOK
<1> QED BY Zenon, <1>1, <1>2 DEF IInv, TypeOK, Unused, OwnerRunsAtHead

\* commit_tool_result moves the owner's head by append_checkpoint.
LEMMA CommitToolResultIInv ==
  ASSUME IInv, NEW r \in Run, NEW k \in Round, NEW c \in Call, CommitToolResult(r, k, c)
  PROVE  IInv'
<1>1. Pair(k, c) \in Seq(Message)
  <2>1. "text" \in Content /\ "empty" \in Content
    BY Zenon DEF Content
  <2>2. CallId(k, c) \in MessageId /\ ResultId(k, c) \in MessageId
    BY Zenon, MessageTypes
  <2>3. /\ Message1(CallId(k, c), IF rounds[k].done = <<>> THEN "text" ELSE "empty") \in Message
        /\ Message1(ResultId(k, c), "text") \in Message
    BY Zenon, <2>1, <2>2, MessageTypes
  <2> QED BY <2>3 DEF Pair
<1>2. rounds' \in [Round -> [status : {"none", "pending", "settled"},
                            calls : SUBSET Call, done : Seq(Call)]]
  <2>1. rounds[k] \in [status : {"none", "pending", "settled"}, calls : SUBSET Call, done : Seq(Call)]
    BY Zenon DEF IInv, TypeOK
  <2>2. Append(rounds[k].done, c) \in Seq(Call)
    BY <2>1
  <2> DEFINE done == Append(rounds[k].done, c)
             stat == IF Range(done) = rounds[k].calls THEN "settled" ELSE "pending"
  <2>3. rounds' = [rounds EXCEPT ![k].done = done, ![k].status = stat]
    BY Zenon DEF CommitToolResult
  <2>4. stat \in {"none", "pending", "settled"} /\ done \in Seq(Call)
    BY Zenon, <2>2
  <2> HIDE DEF done, stat
  <2>5. [[rounds[k] EXCEPT !.done = done] EXCEPT !.status = stat]
          \in [status : {"none", "pending", "settled"}, calls : SUBSET Call, done : Seq(Call)]
    BY <2>1, <2>4, Zenon
  <2>6. rounds' = [rounds EXCEPT ![k] = [[rounds[k] EXCEPT !.done = done] EXCEPT !.status = stat]]
    BY <2>3, Zenon DEF IInv, TypeOK
  <2> QED BY Zenon, <2>5, <2>6 DEF IInv, TypeOK
<1>3. AppendCheckpoint(r, Pair(k, c))
  BY Zenon DEF CommitToolResult
<1> QED BY Zenon, <1>1, <1>2, <1>3, AppendIInv

\* Every operation of the store keeps the inductive invariant.
LEMMA NextIInv == IInv /\ [Next]_vars => IInv'
<1> SUFFICES ASSUME IInv, [Next]_vars PROVE IInv'
  BY Zenon
<1>0. rounds \in [Round -> [status : {"none", "pending", "settled"},
                           calls : SUBSET Call, done : Seq(Call)]]
  BY Zenon DEF IInv, TypeOK
<1>1. CASE EnsureConversation
  BY Zenon, <1>1, EnsureIInv
<1>2. ASSUME NEW ms \in History, ImportCheckpoint(ms) PROVE IInv'
  BY Zenon, <1>2, MessageTypes, ImportIInv
<1>3. ASSUME NEW r \in Run, NEW base \in DOMAIN checkpoints, ClaimRun(r, base) PROVE IInv'
  BY Zenon, <1>3, ClaimIInv
<1>4. ASSUME NEW r \in Run, BeginProviderCall(r) PROVE IInv'
  BY Zenon, <1>4, BeginProviderCallIInv
<1>5. ASSUME NEW r \in Run, NEW outcome \in {"completed", "cancelled", "failed"},
             FinishRun(r, outcome) PROVE IInv'
  BY Zenon, <1>5, FinishIInv
<1>6. ASSUME NEW r \in Run, NEW i \in ExternalId, NEW b \in Body,
             AppendMessageOnce(r, Message1(i, b)) PROVE IInv'
  <2>1. Message1(i, b) \in Message
    BY Zenon, MessageTypes DEF MessageId, Content
  <2>2. <<Message1(i, b)>> \in Seq(Message)
    BY <2>1
  <2>3. AppendCheckpoint(r, <<Message1(i, b)>>) /\ rounds' = rounds
    BY Zenon, <1>6 DEF AppendMessageOnce
  <2> QED BY <1>0, <2>2, <2>3, AppendIInv, Zenon
<1>7. ASSUME NEW r \in Run, AppendAssistant(r) PROVE IInv'
  <2> DEFINE m == Message1(FinalId(<<r, runs[r].calls>>), "text")
  <2>1. <<r, runs[r].calls>> \in Round /\ "text" \in Content
    BY Zenon DEF IInv, TypeOK, Round, Content
  <2>2. m \in Message
    BY Zenon, <2>1, MessageTypes
  <2>3. <<m>> \in Seq(Message)
    BY <2>2
  <2>4. AppendCheckpoint(r, <<m>>) /\ rounds' = rounds
    BY Zenon, <1>7 DEF AppendAssistant
  <2> QED BY <1>0, <2>3, <2>4, AppendIInv, Zenon
<1>8. ASSUME NEW r \in Run, NEW before \in History, NEW after \in History,
             ReplaceCheckpoint(r, before, after) PROVE IInv'
  BY Zenon, <1>8, MessageTypes, ReplaceIInv
<1>9. ASSUME NEW r \in Run, NEW cs \in SUBSET Call, CreateToolRound(r, cs) PROVE IInv'
  BY Zenon, <1>9, CreateToolRoundIInv
<1>10. ASSUME NEW r \in Run, NEW k \in Round, NEW c \in Call, CommitToolResult(r, k, c) PROVE IInv'
  BY Zenon, <1>10, CommitToolResultIInv
<1>11. CASE UNCHANGED vars
  BY Zenon, <1>11 DEF vars, IInv, TypeOK, Unused, OwnerRunsAtHead
<1> QED BY Zenon, <1>1, <1>2, <1>3, <1>4, <1>5, <1>6, <1>7, <1>8, <1>9, <1>10, <1>11 DEF Next

(* claim_run, the appends, replace_checkpoint and finish_run keep one       *)
(* running Run per conversation at most, and that Run, the conversation    *)
(* and their common head agree, whatever the callers and their order.      *)
THEOREM OwnershipHolds == Spec => [](TypeOK /\ OwnerRunsAtHead)
<1>1. IInv => TypeOK /\ OwnerRunsAtHead
  BY Zenon DEF IInv
<1> QED BY InitIInv, NextIInv, <1>1, PTL DEF Spec

\* A step leaves the row of a Run that is not running, and was claimed, alone.
LEMMA EndedStep ==
  ASSUME IInv, [Next]_vars, NEW x \in Run, runs[x].status \notin {"none", "running"}
  PROVE  runs'[x] = runs[x]
<1>1. ASSUME NEW r \in Run, active = r, Advance(r) PROVE runs'[x] = runs[x]
  <2>1. x # r
    BY Zenon, <1>1, NoRunAssumption DEF IInv, OwnerRunsAtHead
  <2> QED BY Zenon, <1>1, <2>1 DEF Advance, IInv, TypeOK
<1>2. ASSUME NEW r \in Run, NEW base \in DOMAIN checkpoints, ClaimRun(r, base)
      PROVE  runs'[x] = runs[x]
  BY Zenon, <1>2 DEF ClaimRun
<1>3. ASSUME NEW r \in Run, BeginProviderCall(r) PROVE runs'[x] = runs[x]
  BY Zenon, <1>3 DEF BeginProviderCall, IInv, TypeOK
<1>4. ASSUME NEW r \in Run, NEW outcome, FinishRun(r, outcome) PROVE runs'[x] = runs[x]
  BY Zenon, <1>4 DEF FinishRun, IInv, TypeOK
<1>5. ASSUME NEW r \in Run, NEW ms, AppendCheckpoint(r, ms) PROVE runs'[x] = runs[x]
  BY Zenon, <1>1, <1>5 DEF AppendCheckpoint, ActiveHead
<1>6. ASSUME NEW r \in Run, NEW before, NEW after, ReplaceCheckpoint(r, before, after)
      PROVE  runs'[x] = runs[x]
  BY Zenon, <1>1, <1>6 DEF ReplaceCheckpoint, ActiveHead
<1>7. ASSUME NEW ms, ImportCheckpoint(ms) PROVE runs'[x] = runs[x]
  BY Zenon, <1>7 DEF ImportCheckpoint
<1>8. CASE EnsureConversation
  BY Zenon, <1>8 DEF EnsureConversation
<1>9. ASSUME NEW r \in Run, NEW cs, CreateToolRound(r, cs) PROVE runs'[x] = runs[x]
  BY Zenon, <1>9 DEF CreateToolRound
<1>10. ASSUME NEW r \in Run, NEW m, AppendMessageOnce(r, m) PROVE runs'[x] = runs[x]
  BY Zenon, <1>5, <1>10 DEF AppendMessageOnce
<1>11. ASSUME NEW r \in Run, AppendAssistant(r) PROVE runs'[x] = runs[x]
  BY Zenon, <1>5, <1>11 DEF AppendAssistant
<1>12. ASSUME NEW r \in Run, NEW k, NEW c, CommitToolResult(r, k, c) PROVE runs'[x] = runs[x]
  BY Zenon, <1>5, <1>12 DEF CommitToolResult
<1>13. CASE UNCHANGED vars
  BY Zenon, <1>13 DEF vars
<1> QED BY Zenon, <1>2, <1>3, <1>4, <1>6, <1>7, <1>8, <1>9, <1>10, <1>11, <1>12, <1>13 DEF Next

(* A Run that was replaced or has ended never changes anything again: not   *)
(* by a late append, tool result or compaction, nor by a second finish_run. *)
THEOREM EndedRunsStayFinal == Spec => EndedRunIsFinal
<1>1. IInv /\ [Next]_vars =>
        [\A r \in Run : runs[r].status \notin {"none", "running"} => runs'[r] = runs[r]]_vars
  BY Zenon, EndedStep
<1> QED BY InitIInv, NextIInv, <1>1, PTL DEF Spec, EndedRunIsFinal

-----------------------------------------------------------------------------
(* What the checkpoints hold.  A row is tied to the row below it, which is  *)
(* older; what a row lists stays in the messages table with the payload it  *)
(* had; and the ids of a round are in the table exactly when its ledger     *)
(* says so.  From this the second invariant, StoreInv, is made.             *)

\* A set of row numbers has a smallest one: the induction over the lineage.
LEMMA LeastElement == ASSUME NEW T \in SUBSET Nat, T # {} PROVE \E x \in T : \A y \in T : x <= y
<1> DEFINE Less == {ss \in Nat \X Nat : ss[1] < ss[2]}
<1>1. IsWellFoundedOn(Less, Nat)
  <2>1. OpToRel(<, Nat) = Less
    BY Zenon DEF OpToRel
  <2> QED BY <2>1, NatLessThanWellFounded, Zenon
<1>2. \A x, y \in T : <<y, x>> \notin Less => x <= y
  OBVIOUS
<1> HIDE DEF Less
<1>3. \E x \in T : \A y \in T : ~ (<<y, x>> \in Less)
  BY <1>1, WFMin, Zenon
<1> QED BY <1>2, <1>3, Zenon

\* The messages a row adds, as load_checkpoint_messages reads them.
Own(row, table) == [i \in DOMAIN row.added |-> Message1(row.added[i], table[row.added[i]])]

\* Row c against the rows below it and the messages table.
Tied(c, row, rows, table) ==
  /\ row.parent \in 0 .. (c - 1)
  /\ \A i \in DOMAIN row.added : table[row.added[i]] # "absent"
  /\ \A i \in DOMAIN row.digest : table[row.digest[i].id] = row.digest[i].body
  /\ row.digest = IF row.parent = 0 THEN Own(row, table) ELSE rows[row.parent].digest \o Own(row, table)

Sound(rows, table) == \A c \in DOMAIN rows : Tied(c, rows[c], rows, table)

\* put_message_tx stores what is new and leaves what is stored alone.
LEMMA PutFacts ==
  ASSUME TypeOK, NEW ms \in Seq(Message), CanPut(ms), PutMessages(ms)
  PROVE  /\ \A i \in DOMAIN ms : ms[i].id \in MessageId /\ messages'[ms[i].id] = ms[i].body
         /\ \A k \in MessageId : messages[k] # "absent" => messages'[k] = messages[k]
         /\ \A k \in MessageId : (\A i \in DOMAIN ms : ms[i].id # k) => messages'[k] = messages[k]
<1>0. \A i \in DOMAIN ms : ms[i] \in Message
  OBVIOUS
<1>1. \A i \in DOMAIN ms : ms[i].id \in MessageId
  BY Zenon, <1>0 DEF Message
<1>2. ASSUME NEW i \in DOMAIN ms PROVE messages'[ms[i].id] = ms[i].body
  <2>1. (CHOOSE j \in DOMAIN ms : ms[j].id = ms[i].id) = i
    BY Zenon DEF CanPut
  <2> QED BY Zenon, <1>1, <2>1 DEF PutMessages
<1>3. \A k \in MessageId : (\A i \in DOMAIN ms : ms[i].id # k) => messages'[k] = messages[k]
  BY Zenon DEF PutMessages
<1>4. ASSUME NEW k \in MessageId, messages[k] # "absent" PROVE messages'[k] = messages[k]
  <2>1. CASE \E i \in DOMAIN ms : ms[i].id = k
    BY Zenon, <1>2, <1>4, <2>1 DEF CanPut
  <2> QED BY Zenon, <1>3, <2>1
<1> QED BY Zenon, <1>1, <1>2, <1>3, <1>4

\* The walk along the lineage gives the list each row was created with: otherwise
\* there would be an oldest row for which it does not, and its parent is older.
LEMMA LoadedFacts ==
  ASSUME TypeOK, Sound(checkpoints, messages)
  PROVE  LoadedIsDigest
<1> DEFINE D == DOMAIN checkpoints
           Step(f, c) == IF checkpoints[c].parent = 0 THEN Own(checkpoints[c], messages)
                         ELSE f[checkpoints[c].parent] \o Own(checkpoints[c], messages)
           g == [c \in D |-> checkpoints[c].digest]
<1>1. \A c \in D : /\ c \in Nat /\ checkpoints[c].parent \in 0 .. (c - 1)
                   /\ checkpoints[c].parent # 0 => checkpoints[c].parent \in D
  BY DEF Sound, Tied, TypeOK
<1>2. g = [c \in D |-> Step(g, c)]
  <2>1. \A c \in D : checkpoints[c].digest = Step(g, c)
    BY Zenon, <1>1 DEF Sound, Tied
  <2> QED BY Zenon, <2>1
<1>3. Loaded = CHOOSE f : f = [c \in D |-> Step(f, c)]
  BY Zenon DEF Loaded, Own
<1>4. Loaded = [c \in D |-> Step(Loaded, c)]
  <2> HIDE DEF g, Step, D
  <2> QED BY <1>2, <1>3, Zenon
<1>5. ASSUME NEW c \in D, Loaded[c] # g[c] PROVE FALSE
  <2> DEFINE T == {x \in D : Loaded[x] # g[x]}
  <2>1. T \in SUBSET Nat /\ T # {}
    BY Zenon, <1>1, <1>5
  <2>2. PICK x \in T : \A y \in T : x <= y
    <3> HIDE DEF T
    <3> QED BY Zenon, <2>1, LeastElement
  <2>3. \A y \in D : y < x => Loaded[y] = g[y]
    BY <1>1, <2>2
  <2>4. x \in D /\ Loaded[x] # g[x]
    BY Zenon, <2>2
  <2>5. Step(Loaded, x) = Step(g, x)
    <3> HIDE DEF g
    <3> QED BY <1>1, <2>3, <2>4
  <2>6. Loaded[x] = Step(Loaded, x) /\ g[x] = Step(g, x)
    <3> HIDE DEF g, Step
    <3> QED BY Zenon, <1>2, <1>4, <2>4
  <2> QED BY Zenon, <2>4, <2>5, <2>6
<1> QED BY Zenon, <1>5 DEF LoadedIsDigest

\* A history without a repeated id, one in which calls and results alternate, and
\* one without any call or result.
Distinct(h) == \A i, j \in DOMAIN h : h[i].id = h[j].id => i = j

Answered(h) ==
  \A k \in Round, x \in Call :
    /\ \A i \in DOMAIN h : h[i].id = CallId(k, x) =>
         i + 1 \in DOMAIN h /\ h[i + 1].id = ResultId(k, x)
    /\ \A i \in DOMAIN h : h[i].id = ResultId(k, x) =>
         i - 1 \in DOMAIN h /\ h[i - 1].id = CallId(k, x)

Plain(h) == \A i \in DOMAIN h, k \in Round, x \in Call : h[i].id # CallId(k, x) /\ h[i].id # ResultId(k, x)

\* What holds of the whole table; the first row is the empty root.
Good(rows, table) ==
  /\ Sound(rows, table)
  /\ rows # <<>> => rows[1].digest = <<>>
  /\ \A c \in DOMAIN rows : Distinct(rows[c].digest) /\ Answered(rows[c].digest)

\* The ids of calls, results, answers and summaries, and the ones from outside, differ.
LEMMA IdFacts ==
  /\ \A k, l \in Round, c, d \in Call :
       /\ CallId(k, c) = CallId(l, d) => k = l /\ c = d
       /\ ResultId(k, c) = ResultId(l, d) => k = l /\ c = d
       /\ CallId(k, c) # ResultId(l, d)
       /\ FinalId(k) # CallId(l, d) /\ FinalId(k) # ResultId(l, d)
       /\ SummaryId(k) # CallId(l, d) /\ SummaryId(k) # ResultId(l, d)
  /\ \A i \in ExternalId, k \in Round, c \in Call : i # CallId(k, c) /\ i # ResultId(k, c)
<1>1. ASSUME NEW k \in Round, NEW l \in Round, NEW c \in Call, NEW d \in Call
      PROVE  /\ CallId(k, c) = CallId(l, d) => k = l /\ c = d
             /\ ResultId(k, c) = ResultId(l, d) => k = l /\ c = d
             /\ CallId(k, c) # ResultId(l, d)
             /\ FinalId(k) # CallId(l, d) /\ FinalId(k) # ResultId(l, d)
             /\ SummaryId(k) # CallId(l, d) /\ SummaryId(k) # ResultId(l, d)
  BY Zenon DEF CallId, ResultId, FinalId, SummaryId
<1>2. ASSUME NEW i \in ExternalId, NEW k \in Round, NEW c \in Call
      PROVE  i # CallId(k, c) /\ i # ResultId(k, c)
  <2>1. CallId(k, c) \in Round \X Call \X {"assistant", "result"}
    BY Zenon DEF CallId
  <2>2. ResultId(k, c) \in Round \X Call \X {"assistant", "result"}
    BY Zenon DEF ResultId
  <2> QED BY Zenon, <2>1, <2>2, IdsAssumption
<1> QED BY Zenon, <1>1, <1>2

\* The ids of another call are stored in other rows.
LEMMA OtherIds ==
  ASSUME NEW k \in Round, NEW l \in Round, NEW c \in Call, NEW d \in Call, k # l \/ c # d
  PROVE  /\ CallId(l, d) \in MessageId /\ CallId(l, d) # CallId(k, c) /\ CallId(l, d) # ResultId(k, c)
         /\ ResultId(l, d) \in MessageId /\ ResultId(l, d) # CallId(k, c) /\ ResultId(l, d) # ResultId(k, c)
BY MessageTypes, IdFacts

\* A row keeps what it holds while stored messages stay.
LEMMA TiedKept ==
  ASSUME NEW c, NEW row \in CheckpointType, NEW rows, NEW more, NEW old, NEW new, Tied(c, row, rows, old),
         \A k \in MessageId : old[k] # "absent" => new[k] = old[k],
         row.parent # 0 => more[row.parent] = rows[row.parent]
  PROVE  Tied(c, row, more, new)
<1>1. row.added \in Seq(MessageId) /\ row.digest \in Seq(Message)
  BY Zenon DEF CheckpointType
<1>2. \A i \in DOMAIN row.added : new[row.added[i]] = old[row.added[i]] /\ new[row.added[i]] # "absent"
  BY <1>1 DEF Tied
<1>3. \A i \in DOMAIN row.digest : row.digest[i].id \in MessageId /\ row.digest[i].body # "absent"
  <2>1. \A m \in Message : m.id \in MessageId /\ m.body # "absent"
    BY Zenon, BodyAssumption DEF Message, Content
  <2> QED BY <1>1, <2>1
<1>4. Own(row, new) = Own(row, old)
  BY Zenon, <1>2 DEF Own
<1>5. \A i \in DOMAIN row.digest : new[row.digest[i].id] = row.digest[i].body
  BY <1>3, Zenon DEF Tied
<1> QED BY <1>2, <1>4, <1>5, Zenon DEF Tied

\* insert_checkpoint_tx keeps the table good when the list it is given is the
\* parent's list and the additions.
LEMMA InsertGood ==
  ASSUME TypeOK, NEW table \in Seq(CheckpointType), Good(table, messages), NEW parent \in 1 .. Len(table),
         NEW additions \in Seq(Message), NEW full \in Seq(Message),
         full = table[parent].digest \o additions, Distinct(full), Answered(full),
         InsertCheckpoint(table, parent, additions, full)
  PROVE  Good(checkpoints', messages')
<1> DEFINE ids == [i \in DOMAIN additions |-> additions[i].id]
           row == [parent |-> parent, added |-> ids, digest |-> full]
           n == Len(table)
<1>1. checkpoints' = Append(table, row) /\ CanPut(additions) /\ PutMessages(additions)
  BY Zenon DEF InsertCheckpoint
<1>2. /\ \A i \in DOMAIN additions : additions[i].id \in MessageId /\ messages'[additions[i].id] = additions[i].body
      /\ \A k \in MessageId : messages[k] # "absent" => messages'[k] = messages[k]
  BY Zenon, <1>1, PutFacts
<1>3. /\ n \in Nat /\ DOMAIN table = 1 .. n /\ DOMAIN checkpoints' = 1 .. n + 1
      /\ checkpoints'[n + 1] = row /\ \A c \in 1 .. n : checkpoints'[c] = table[c]
  <2> HIDE DEF row
  <2> QED BY <1>1
<1>4. \A i \in DOMAIN additions : additions[i] \in Message
  OBVIOUS
<1>5. \A m \in Message : m.body # "absent" /\ m = Message1(m.id, m.body)
  BY BodyAssumption DEF Message, Content, Message1
<1>6. Own(row, messages') = additions
  <2>1. \A i \in DOMAIN additions : Message1(ids[i], messages'[ids[i]]) = additions[i]
    BY <1>2, <1>4, <1>5
  <2> QED BY <2>1 DEF Own
<1>7. ASSUME NEW c \in 1 .. n PROVE Tied(c, table[c], checkpoints', messages')
  <2>1. table[c] \in CheckpointType
    BY <1>3
  <2>2. Tied(c, table[c], table, messages)
    BY <1>3, Zenon DEF Good, Sound
  <2>3. table[c].parent # 0 => checkpoints'[table[c].parent] = table[table[c].parent]
    <3>1. table[c].parent \in 0 .. (c - 1)
      BY <2>2, Zenon DEF Tied
    <3> QED BY <1>3, <3>1
  <2> QED BY <1>2, <2>1, <2>2, <2>3, TiedKept, ZenonT(30)
<1>8. Tied(n + 1, row, checkpoints', messages')
  <2> DEFINE h == table[parent].digest
  <2>1. h \in Seq(Message) /\ checkpoints'[parent] = table[parent] /\ parent \in 0 .. n /\ parent # 0
    <3>1. table[parent] \in CheckpointType
      OBVIOUS
    <3> QED BY <1>3, <3>1 DEF CheckpointType
  <2>2. \A i \in DOMAIN h : messages'[h[i].id] = h[i].body
    BY <1>7, <1>3, Zenon DEF Tied
  <2> HIDE DEF h
  <2>3. \A i \in DOMAIN full : \/ i \in DOMAIN h /\ full[i] = h[i]
                               \/ i - Len(h) \in DOMAIN additions /\ full[i] = additions[i - Len(h)]
    <3>1. full = h \o additions
      BY Zenon DEF h
    <3> QED BY <2>1, <3>1
  <2>4. \A i \in DOMAIN full : messages'[full[i].id] = full[i].body
    BY <1>2, <2>2, <2>3, ZenonT(30)
  <2>5. \A i \in DOMAIN ids : messages'[ids[i]] # "absent"
    BY ZenonT(30), <1>2, <1>4, <1>5
  <2>6. row.parent = parent /\ row.added = ids /\ row.digest = full
    BY Zenon
  <2> HIDE DEF row, ids
  <2>7. full = checkpoints'[parent].digest \o additions
    BY <2>1, Zenon
  <2>8. parent \in 0 .. ((n + 1) - 1)
    BY <1>3, <2>1
  <2>9. row.digest = IF row.parent = 0 THEN Own(row, messages')
                     ELSE checkpoints'[row.parent].digest \o Own(row, messages')
    BY <1>6, <2>1, <2>6, <2>7, Zenon
  <2> QED BY <2>4, <2>5, <2>6, <2>8, <2>9, Zenon DEF Tied
<1>9. Sound(checkpoints', messages')
  <2>1. n \in Nat /\ DOMAIN checkpoints' = 1 .. n + 1
    BY <1>3, Zenon
  <2> HIDE DEF n, ids, row
  <2>2. \A c \in DOMAIN checkpoints' : c = n + 1 \/ c \in 1 .. n
    BY <2>1
  <2> QED BY <1>3, <1>7, <1>8, <2>2, Zenon DEF Sound
<1>10. checkpoints'[1].digest = <<>>
  <2>1. table # <<>> /\ 1 \in 1 .. n
    OBVIOUS
  <2>2. table[1].digest = <<>>
    BY Zenon, <2>1 DEF Good
  <2> QED BY Zenon, <1>3, <2>1, <2>2
<1>11. \A c \in DOMAIN checkpoints' : Distinct(checkpoints'[c].digest) /\ Answered(checkpoints'[c].digest)
  <2> SUFFICES ASSUME NEW c \in 1 .. n + 1
               PROVE  Distinct(checkpoints'[c].digest) /\ Answered(checkpoints'[c].digest)
    BY Zenon, <1>3
  <2>1. CASE c = n + 1
    <3>1. row.digest = full
      BY Zenon
    <3> HIDE DEF row
    <3> QED BY <1>3, <2>1, <3>1, Zenon
  <2>2. CASE c \in 1 .. n
    <3>1. checkpoints'[c].digest = table[c].digest
      BY Zenon, <1>3, <2>2
    <3> QED BY Zenon, <1>3, <2>2, <3>1 DEF Good
  <2> QED BY <1>3, <2>1, <2>2
<1> QED BY Zenon, <1>9, <1>10, <1>11 DEF Good

\* The row of round k against the messages table.
RowSound(k, row, table) ==
  /\ IsInjective(row.done) /\ Range(row.done) \subseteq row.calls
  /\ row.status = "settled" <=> row.calls # {} /\ Range(row.done) = row.calls
  /\ row.status = "none" => row.done = <<>>
  /\ \A c \in Call : table[CallId(k, c)] # "absent" <=> c \in Range(row.done)
  /\ \A c \in Call : table[ResultId(k, c)] # "absent" => c \in Range(row.done)
  /\ \A i \in DOMAIN row.done : table[CallId(k, row.done[i])] = "text" <=> i = 1

\* RoundLedger, and what it needs to be kept.
Ledger == \A k \in Round : RowSound(k, rounds[k], messages)

StoreInv == IInv /\ Good(checkpoints, messages) /\ Ledger

\* What an append does to a history without repetitions, and to answered calls.
LEMMA ConcatFacts ==
  ASSUME NEW h \in Seq(Message), NEW ms \in Seq(Message)
  PROVE  /\ h \o ms \in Seq(Message)
         /\ Distinct(h) /\ Distinct(ms)
              /\ (\A i \in DOMAIN h, j \in DOMAIN ms : h[i].id # ms[j].id) => Distinct(h \o ms)
         /\ Answered(h) /\ Answered(ms) => Answered(h \o ms)
<1> DEFINE n == Len(h)
           f == h \o ms
<1>1. /\ n \in Nat /\ Len(ms) \in Nat /\ DOMAIN f = 1 .. n + Len(ms)
      /\ DOMAIN h = 1 .. n /\ DOMAIN ms = 1 .. Len(ms)
      /\ \A i \in 1 .. n : f[i] = h[i]
      /\ \A i \in 1 .. Len(ms) : f[n + i] = ms[i]
      /\ f \in Seq(Message)
  OBVIOUS
<1> HIDE DEF f, n
<1>2. \A i \in DOMAIN f : \/ i \in DOMAIN h /\ f[i] = h[i]
                          \/ i - n \in DOMAIN ms /\ f[i] = ms[i - n]
  <2> SUFFICES ASSUME NEW i \in DOMAIN f, i \notin DOMAIN h
               PROVE  i - n \in DOMAIN ms /\ f[i] = ms[i - n]
    BY Zenon, <1>1
  <2>1. i - n \in 1 .. Len(ms) /\ n + (i - n) = i
    BY <1>1
  <2> QED BY Zenon, <1>1, <2>1
<1>3. ASSUME Distinct(h), Distinct(ms), \A i \in DOMAIN h, j \in DOMAIN ms : h[i].id # ms[j].id
      PROVE  Distinct(f)
  BY SMTT(20), <1>1, <1>2, <1>3 DEF Distinct
<1>4. ASSUME Answered(h), Answered(ms) PROVE Answered(f)
  <2> SUFFICES ASSUME NEW k \in Round, NEW x \in Call, NEW i \in DOMAIN f
               PROVE  /\ f[i].id = CallId(k, x) => i + 1 \in DOMAIN f /\ f[i + 1].id = ResultId(k, x)
                      /\ f[i].id = ResultId(k, x) => i - 1 \in DOMAIN f /\ f[i - 1].id = CallId(k, x)
    BY Zenon DEF Answered
  <2>1. CASE i \in DOMAIN h /\ f[i] = h[i]
    <3>1. /\ h[i].id = CallId(k, x) => i + 1 \in DOMAIN h /\ h[i + 1].id = ResultId(k, x)
          /\ h[i].id = ResultId(k, x) => i - 1 \in DOMAIN h /\ h[i - 1].id = CallId(k, x)
      BY Zenon, <1>4, <2>1 DEF Answered
    <3> QED BY <1>1, <2>1, <3>1
  <2>2. CASE i - n \in DOMAIN ms /\ f[i] = ms[i - n]
    <3>1. /\ ms[i - n].id = CallId(k, x) => (i - n) + 1 \in DOMAIN ms /\ ms[(i - n) + 1].id = ResultId(k, x)
          /\ ms[i - n].id = ResultId(k, x) => (i - n) - 1 \in DOMAIN ms /\ ms[(i - n) - 1].id = CallId(k, x)
      BY Zenon, <1>4, <2>2 DEF Answered
    <3>2. n + ((i - n) + 1) = i + 1 /\ n + ((i - n) - 1) = i - 1
      BY <1>1
    <3>3. (i - n) + 1 \in DOMAIN ms => i + 1 \in DOMAIN f /\ f[i + 1] = ms[(i - n) + 1]
      BY <1>1, <3>2
    <3>4. (i - n) - 1 \in DOMAIN ms => i - 1 \in DOMAIN f /\ f[i - 1] = ms[(i - n) - 1]
      BY <1>1, <3>2
    <3> QED BY Zenon, <2>2, <3>1, <3>3, <3>4
  <2> QED BY Zenon, <1>2, <2>1, <2>2
<1> QED BY Zenon, <1>1, <1>3, <1>4 DEF f

\* Where there is no call, no call is unanswered.
LEMMA PlainAnswered == ASSUME NEW h, Plain(h) PROVE Answered(h)
BY Zenon DEF Plain, Answered

\* append_checkpoint keeps the table good when the ids it adds are new to the history.
LEMMA AppendGood ==
  ASSUME IInv, Good(checkpoints, messages), NEW r \in Run, NEW additions \in Seq(Message),
         AppendCheckpoint(r, additions), Answered(additions),
         \A i \in DOMAIN additions, j \in DOMAIN checkpoints[runs[r].head].digest :
           additions[i].id # checkpoints[runs[r].head].digest[j].id
  PROVE  Good(checkpoints', messages')
<1> DEFINE h == checkpoints[runs[r].head].digest
<1>1. runs[r].head \in 1 .. Len(checkpoints) /\ checkpoints \in Seq(CheckpointType) /\ TypeOK
  BY DEF AppendCheckpoint, ActiveHead, IInv, TypeOK
<1>2. h \in Seq(Message)
  <2>1. checkpoints[runs[r].head] \in CheckpointType
    BY <1>1
  <2> QED BY Zenon, <2>1 DEF CheckpointType
<1>3. Distinct(h) /\ Answered(h)
  BY <1>1 DEF Good
<1>4. InsertCheckpoint(checkpoints, runs[r].head, additions, h \o additions)
  BY Zenon DEF AppendCheckpoint
<1>5. Distinct(additions)
  BY <1>4, Zenon DEF InsertCheckpoint, CanPut, Distinct
<1>6. h \o additions \in Seq(Message) /\ Distinct(h \o additions) /\ Answered(h \o additions)
  <2>1. \A i \in DOMAIN h, j \in DOMAIN additions : h[i].id # additions[j].id
    BY Zenon
  <2> HIDE DEF h
  <2> QED BY Zenon, <1>2, <1>3, <1>5, <2>1, ConcatFacts
<1> QED BY <1>1, <1>4, <1>6, InsertGood, Zenon

\* A round's row stays sound while none of its messages changes.
LEMMA RowKept ==
  ASSUME NEW k, NEW row, row.done \in Seq(Call), NEW old, NEW new, RowSound(k, row, old),
         \A d \in Call : new[CallId(k, d)] = old[CallId(k, d)] /\ new[ResultId(k, d)] = old[ResultId(k, d)]
  PROVE  RowSound(k, row, new)
<1>1. \A i \in DOMAIN row.done : row.done[i] \in Call
  OBVIOUS
<1> QED BY Zenon, <1>1 DEF RowSound

\* Messages that belong to no round leave the ledger alone.
LEMMA PlainLedger ==
  ASSUME TypeOK, Ledger, NEW ms \in Seq(Message), CanPut(ms), PutMessages(ms), Plain(ms), rounds' = rounds
  PROVE  Ledger'
<1>1. ASSUME NEW k \in Round, NEW c \in Call
      PROVE  messages'[CallId(k, c)] = messages[CallId(k, c)] /\ messages'[ResultId(k, c)] = messages[ResultId(k, c)]
  <2>1. CallId(k, c) \in MessageId /\ ResultId(k, c) \in MessageId
    BY MessageTypes, Zenon
  <2>2. \A i \in DOMAIN ms : ms[i].id # CallId(k, c) /\ ms[i].id # ResultId(k, c)
    BY Zenon DEF Plain
  <2> QED BY <2>1, <2>2, PutFacts, Zenon
<1>2. \A k \in Round : rounds[k].done \in Seq(Call)
  BY Zenon DEF TypeOK
<1> QED BY <1>1, <1>2, RowKept, Zenon DEF Ledger

\* append_checkpoint with one message that belongs to no round.
LEMMA PlainAppend ==
  ASSUME StoreInv, NEW r \in Run, NEW m \in Message, AppendCheckpoint(r, <<m>>), rounds' = rounds,
         Plain(<<m>>), \A j \in DOMAIN checkpoints[runs[r].head].digest :
                          checkpoints[runs[r].head].digest[j].id # m.id
  PROVE  Good(checkpoints', messages') /\ Ledger'
<1>1. IInv /\ TypeOK /\ Good(checkpoints, messages) /\ Ledger
  BY Zenon DEF StoreInv, IInv
<1>2. <<m>> \in Seq(Message) /\ Answered(<<m>>)
  BY PlainAnswered
<1>3. \A i \in DOMAIN <<m>> : <<m>>[i] = m
  OBVIOUS
<1>4. Good(checkpoints', messages')
  <2> DEFINE ms == <<m>>
  <2>1. \A i \in DOMAIN ms, j \in DOMAIN checkpoints[runs[r].head].digest :
          ms[i].id # checkpoints[runs[r].head].digest[j].id
    BY Zenon, <1>3
  <2>2. ms \in Seq(Message) /\ Answered(ms) /\ AppendCheckpoint(r, ms)
    BY Zenon, <1>2
  <2> HIDE DEF ms
  <2> QED BY <1>1, <2>1, <2>2, AppendGood, Zenon
<1>5. CanPut(<<m>>) /\ PutMessages(<<m>>)
  BY Zenon DEF AppendCheckpoint, InsertCheckpoint
<1>6. Ledger'
  <2> DEFINE ms == <<m>>
  <2>1. ms \in Seq(Message) /\ CanPut(ms) /\ PutMessages(ms) /\ Plain(ms)
    BY Zenon, <1>2, <1>5
  <2> HIDE DEF ms
  <2> QED BY Zenon, <1>1, <2>1, PlainLedger
<1> QED BY Zenon, <1>4, <1>6

\* append_message_once has looked for the id in the history.
LEMMA AppendMessageOnceStore ==
  ASSUME StoreInv, NEW r \in Run, NEW i \in ExternalId, NEW b \in Body,
         AppendMessageOnce(r, Message1(i, b))
  PROVE  Good(checkpoints', messages') /\ Ledger'
<1> DEFINE m == Message1(i, b)
<1>1. m \in Message /\ m.id = i
  BY Zenon, MessageTypes DEF MessageId, Content, Message1
<1>2. AppendCheckpoint(r, <<m>>) /\ rounds' = rounds
  BY Zenon DEF AppendMessageOnce
<1>3. \A j \in DOMAIN checkpoints[runs[r].head].digest : checkpoints[runs[r].head].digest[j].id # m.id
  BY Zenon DEF AppendMessageOnce
<1> HIDE DEF m
<1>4. Plain(<<m>>)
  BY <1>1, IdFacts DEF Plain
<1> QED BY <1>1, <1>2, <1>3, <1>4, PlainAppend, Zenon

\* What a history holds is in the messages table.
LEMMA StoredDigest ==
  ASSUME StoreInv, NEW c \in DOMAIN checkpoints, NEW j \in DOMAIN checkpoints[c].digest
  PROVE  /\ checkpoints[c].digest[j].id \in MessageId
         /\ messages[checkpoints[c].digest[j].id] # "absent"
<1>1. checkpoints[c] \in CheckpointType
  BY DEF StoreInv, IInv, TypeOK
<1>2. checkpoints[c].digest \in Seq(Message)
  BY Zenon, <1>1 DEF CheckpointType
<1>3. checkpoints[c].digest[j] \in Message
  BY <1>2
<1>4. messages[checkpoints[c].digest[j].id] = checkpoints[c].digest[j].body
  BY Zenon DEF StoreInv, Good, Sound, Tied
<1> QED BY Zenon, <1>3, <1>4, BodyAssumption DEF Message, Content

\* The final message of a cycle has an id that is not stored yet.
LEMMA AppendAssistantStore ==
  ASSUME StoreInv, NEW r \in Run, AppendAssistant(r)
  PROVE  Good(checkpoints', messages') /\ Ledger'
<1> DEFINE k == <<r, runs[r].calls>>
           m == Message1(FinalId(k), "text")
<1>1. k \in Round /\ "text" \in Content
  BY Zenon DEF StoreInv, IInv, TypeOK, Round, Content
<1>2. m \in Message /\ m.id = FinalId(k)
  BY Zenon, <1>1, MessageTypes DEF Message1
<1>3. AppendCheckpoint(r, <<m>>) /\ rounds' = rounds /\ messages[FinalId(k)] = "absent"
  BY Zenon DEF AppendAssistant
<1>4. runs[r].head \in DOMAIN checkpoints
  BY <1>3 DEF AppendCheckpoint, ActiveHead, StoreInv, IInv, TypeOK
<1> HIDE DEF m, k
<1>5. \A j \in DOMAIN checkpoints[runs[r].head].digest : checkpoints[runs[r].head].digest[j].id # m.id
  BY <1>2, <1>3, <1>4, StoredDigest, Zenon
<1>6. Plain(<<m>>)
  BY <1>1, <1>2, IdFacts DEF Plain
<1> QED BY <1>2, <1>3, <1>5, <1>6, PlainAppend, Zenon

\* The histories of clients have no repeated ids and none of a round.
LEMMA HistoryFacts ==
  ASSUME NEW ms \in History PROVE ms \in Seq(Message) /\ Plain(ms) /\ Distinct(ms)
<1>1. ms \in Seq(Message)
  BY Zenon, MessageTypes
<1>2. CASE ms = <<>>
  BY <1>1, <1>2 DEF Plain, Distinct
<1>3. ASSUME NEW i \in ExternalId, NEW b \in Body, ms = <<Message1(i, b)>>
      PROVE  Plain(ms) /\ Distinct(ms)
  <2>1. \A n \in DOMAIN ms : n = 1 /\ ms[n].id = i
    BY <1>3 DEF Message1
  <2> QED BY <2>1, IdFacts DEF Plain, Distinct
<1>4. ASSUME NEW i \in ExternalId, NEW j \in ExternalId, i # j, NEW a \in Body, NEW b \in Body,
             ms = <<Message1(i, a), Message1(j, b)>>
      PROVE  Plain(ms) /\ Distinct(ms)
  <2>1. \A n \in DOMAIN ms : (n = 1 /\ ms[n].id = i) \/ (n = 2 /\ ms[n].id = j)
    BY <1>4 DEF Message1
  <2> QED BY <1>4, <2>1, IdFacts DEF Plain, Distinct
<1> QED BY <1>1, <1>2, <1>3, <1>4 DEF History

\* replace_checkpoint builds on the empty root.
LEMMA ReplaceStore ==
  ASSUME StoreInv, NEW r \in Run, NEW before \in History, NEW after \in History,
         ReplaceCheckpoint(r, before, after)
  PROVE  Good(checkpoints', messages') /\ Ledger'
<1> DEFINE s == Message1(SummaryId(<<r, runs[r].calls>>), "text")
           ms == before \o <<s>> \o after
<1>1. <<r, runs[r].calls>> \in Round /\ "text" \in Content
  BY Zenon DEF StoreInv, IInv, TypeOK, Round, Content
<1>2. s \in Message /\ s.id = SummaryId(<<r, runs[r].calls>>)
  BY Zenon, <1>1, MessageTypes DEF Message1
<1>3. /\ before \in Seq(Message) /\ Plain(before)
      /\ after \in Seq(Message) /\ Plain(after)
      /\ <<s>> \in Seq(Message) /\ Plain(<<s>>)
  <2> HIDE DEF s
  <2> QED BY <1>1, <1>2, HistoryFacts, IdFacts DEF Plain
<1>4. ms \in Seq(Message) /\ Plain(ms)
  <2> DEFINE t == <<s>>
  <2>1. t \in Seq(Message) /\ Plain(t)
    BY Zenon, <1>3
  <2> HIDE DEF t
  <2>2. ASSUME NEW x \in Seq(Message), NEW y \in Seq(Message), Plain(x), Plain(y)
        PROVE  x \o y \in Seq(Message) /\ Plain(x \o y)
    <3>1. \A i \in DOMAIN (x \o y) : \/ i \in DOMAIN x /\ (x \o y)[i] = x[i]
                                     \/ i - Len(x) \in DOMAIN y /\ (x \o y)[i] = y[i - Len(x)]
      OBVIOUS
    <3> QED BY <2>2, <3>1 DEF Plain
  <2>3. before \o t \in Seq(Message) /\ Plain(before \o t)
    BY Zenon, <1>3, <2>1, <2>2
  <2>4. (before \o t) \o after \in Seq(Message) /\ Plain((before \o t) \o after)
    BY <1>3, <2>2, <2>3, Zenon
  <2> QED BY Zenon, <2>4 DEF t
<1>5. InsertCheckpoint(checkpoints, 1, ms, ms) /\ rounds' = rounds /\ ActiveHead(r)
  BY Zenon DEF ReplaceCheckpoint
<1> HIDE DEF ms
<1>6. Distinct(ms) /\ CanPut(ms) /\ PutMessages(ms)
  BY Zenon, <1>5 DEF InsertCheckpoint, CanPut, Distinct
<1>7. TypeOK /\ Good(checkpoints, messages) /\ Ledger /\ checkpoints \in Seq(CheckpointType) /\ 1 \in 1 .. Len(checkpoints)
  BY <1>5 DEF StoreInv, IInv, TypeOK, ActiveHead
<1>8. checkpoints[1].digest = <<>>
  BY <1>7 DEF Good
<1>9. ms = checkpoints[1].digest \o ms
  BY <1>4, <1>8
<1> QED BY Zenon, <1>4, <1>5, <1>6, <1>7, <1>9, PlainAnswered, InsertGood, PlainLedger

\* ensure_conversation_tx: the root alone is a good table.
LEMMA EnsuredGood ==
  ASSUME StoreInv
  PROVE  Good(Ensured, messages) /\ Ensured # <<>>
<1>1. CASE current # 0
  <2>1. Ensured = checkpoints
    BY Zenon, <1>1 DEF Ensured
  <2>2. checkpoints # <<>>
    BY <1>1 DEF StoreInv, IInv, TypeOK
  <2> QED BY Zenon, <2>1, <2>2 DEF StoreInv
<1>2. CASE current = 0
  <2>1. Ensured = <<Root>>
    BY Zenon, <1>2 DEF Ensured
  <2>2. DOMAIN <<Root>> = {1} /\ <<Root>>[1] = Root /\ <<Root>> # <<>>
    OBVIOUS
  <2>3. Root.parent = 0 /\ Root.added = <<>> /\ Root.digest = <<>>
    BY Zenon DEF Root
  <2>4. Own(Root, messages) = <<>>
    BY <2>3 DEF Own
  <2>5. Distinct(<<>>) /\ Answered(<<>>)
    BY DEF Distinct, Answered
  <2> HIDE DEF Root
  <2>6. Sound(<<Root>>, messages)
    BY <2>2, <2>3, <2>4 DEF Sound, Tied
  <2> QED BY Zenon, <2>1, <2>2, <2>3, <2>5, <2>6 DEF Good
<1> QED BY Zenon, <1>1, <1>2

\* import_checkpoint builds on the current row, when the history continues it, or on the root.
LEMMA ImportStore ==
  ASSUME StoreInv, NEW ms \in History, ImportCheckpoint(ms)
  PROVE  Good(checkpoints', messages') /\ Ledger'
<1>1. /\ TypeOK /\ Ledger /\ Good(Ensured, messages) /\ Ensured # <<>>
      /\ Ensured \in Seq(CheckpointType) /\ EnsuredCurrent \in 1 .. Len(Ensured) /\ 1 \in 1 .. Len(Ensured)
  BY EnsuredGood, EnsuredType DEF StoreInv, IInv
<1>2. ms \in Seq(Message) /\ Plain(ms) /\ Distinct(ms) /\ Answered(ms)
  BY Zenon, HistoryFacts, PlainAnswered
<1>3. rounds' = rounds
  BY Zenon DEF ImportCheckpoint
<1>4. CASE Exists(Ensured, ms)
  <2>1. checkpoints' = Ensured /\ messages' = messages
    BY Zenon, <1>4 DEF ImportCheckpoint
  <2> QED BY <1>1, <1>3, <2>1, Zenon DEF Ledger
<1>5. CASE ~ Exists(Ensured, ms)
  <2> DEFINE below == Ensured[EnsuredCurrent].digest
             rest == SubSeq(ms, Len(below) + 1, Len(ms))
  <2>1. CASE StartsWith(ms, below)
    <3>1. InsertCheckpoint(Ensured, EnsuredCurrent, rest, ms)
      BY Zenon, <1>5, <2>1 DEF ImportCheckpoint
    <3>2. below \in Seq(Message)
      <4>1. Ensured[EnsuredCurrent] \in CheckpointType
        BY <1>1
      <4> QED BY Zenon, <4>1 DEF CheckpointType
    <3>3. Len(below) \in Nat /\ Len(ms) \in Nat /\ Len(below) <= Len(ms) /\ SubSeq(ms, 1, Len(below)) = below
      BY <1>2, <2>1, <3>2 DEF StartsWith
    <3> HIDE DEF below
    <3>4. rest \in Seq(Message) /\ Len(rest) = Len(ms) - Len(below)
          /\ \A i \in DOMAIN rest : Len(below) + i \in DOMAIN ms /\ rest[i] = ms[Len(below) + i]
      BY <1>2, <3>3
    <3>5. \A i \in 1 .. Len(below) : below[i] = ms[i]
      <4>1. \A i \in 1 .. Len(below) : SubSeq(ms, 1, Len(below))[i] = ms[i]
        BY <1>2, <3>3
      <4> QED BY Zenon, <3>3, <4>1
    <3> HIDE DEF rest
    <3>6. ms = below \o rest
      <4>1. /\ below \o rest \in Seq(Message) /\ Len(below \o rest) = Len(ms)
            /\ \A i \in 1 .. Len(ms) : (below \o rest)[i] = ms[i]
        BY <1>2, <3>2, <3>3, <3>4, <3>5
      <4> DEFINE w == below \o rest
      <4> HIDE DEF w
      <4>2. w \in Seq(Message) /\ Len(w) = Len(ms) /\ \A i \in 1 .. Len(ms) : w[i] = ms[i]
        BY Zenon, <4>1 DEF w
      <4>3. ms = w
        BY <1>2, <4>2
      <4> QED BY Zenon, <4>3 DEF w
    <3>7. Plain(rest)
      BY Zenon, <1>2, <3>4 DEF Plain
    <3>8. Good(checkpoints', messages')
      BY <1>1, <1>2, <3>1, <3>4, <3>6, InsertGood, Zenon DEF below
    <3>9. CanPut(rest) /\ PutMessages(rest)
      BY <3>1, Zenon DEF InsertCheckpoint
    <3> QED BY <1>1, <1>3, <3>4, <3>7, <3>8, <3>9, PlainLedger, Zenon
  <2>2. CASE ~ StartsWith(ms, below)
    <3>1. InsertCheckpoint(Ensured, 1, ms, ms)
      BY Zenon, <1>5, <2>2 DEF ImportCheckpoint
    <3>2. Ensured[1].digest = <<>>
      BY Zenon, <1>1 DEF Good
    <3>3. ms = Ensured[1].digest \o ms
      BY <1>2, <3>2
    <3>4. CanPut(ms) /\ PutMessages(ms)
      BY <3>1, Zenon DEF InsertCheckpoint
    <3> QED BY <1>1, <1>2, <1>3, <3>1, <3>3, <3>4, InsertGood, PlainLedger, Zenon
  <2> QED BY Zenon, <2>1, <2>2
<1> QED BY Zenon, <1>4, <1>5

\* create_tool_round opens a round of which nothing is stored.
LEMMA CreateStore ==
  ASSUME StoreInv, NEW r \in Run, NEW cs \in SUBSET Call, CreateToolRound(r, cs)
  PROVE  Good(checkpoints', messages') /\ Ledger'
<1> DEFINE k == <<r, runs[r].calls>>
<1>1. /\ checkpoints' = checkpoints /\ messages' = messages /\ cs # {} /\ rounds[k].status = "none"
      /\ rounds' = [rounds EXCEPT ![k] = [status |-> "pending", calls |-> cs, done |-> <<>>]]
      /\ TypeOK /\ Ledger /\ Good(checkpoints, messages)
  BY Zenon DEF CreateToolRound, StoreInv, IInv
<1>2. k \in Round /\ Good(checkpoints', messages')
  BY Zenon, <1>1 DEF TypeOK, Round
<1> HIDE DEF k
<1>3. RowSound(k, rounds[k], messages)
  BY <1>1, <1>2, Zenon DEF Ledger
<1>4. /\ rounds'[k] = [status |-> "pending", calls |-> cs, done |-> <<>>]
      /\ \A l \in Round \ {k} : rounds'[l] = rounds[l]
  BY Zenon, <1>1, <1>2 DEF TypeOK
<1>5. RowSound(k, [status |-> "pending", calls |-> cs, done |-> <<>>], messages)
  <2>1. IsInjective(<<>>) /\ Range(<<>>) = {}
    BY DEF IsInjective, Range
  <2> QED BY Zenon, <1>1, <1>3, <2>1 DEF RowSound
<1>6. ASSUME NEW l \in Round PROVE RowSound(l, rounds'[l], messages')
  BY Zenon, <1>1, <1>4, <1>5 DEF Ledger
<1> QED BY <1>2, <1>6, Zenon DEF Ledger

\* A sequence with one more element.
LEMMA AppendFacts ==
  ASSUME NEW S, NEW s \in Seq(S), NEW x \in S
  PROVE  /\ Append(s, x) \in Seq(S) /\ Len(Append(s, x)) = Len(s) + 1 /\ Append(s, x)[Len(s) + 1] = x
         /\ \A i \in 1 .. Len(s) : Append(s, x)[i] = s[i] /\ s[i] \in S
         /\ Len(s) \in Nat /\ (s = <<>> <=> Len(s) = 0) /\ DOMAIN s = 1 .. Len(s)
OBVIOUS

\* commit_tool_result as it changes the row of its round and the two messages.
RowStep(k, c) ==
  /\ rounds[k].done \in Seq(Call) /\ c \in rounds[k].calls /\ c \notin Range(rounds[k].done)
  /\ RowSound(k, rounds[k], messages)
  /\ rounds'[k].calls = rounds[k].calls /\ rounds'[k].done = Append(rounds[k].done, c)
  /\ rounds'[k].status = IF Range(rounds'[k].done) = rounds[k].calls THEN "settled" ELSE "pending"
  /\ messages'[CallId(k, c)] = IF rounds[k].done = <<>> THEN "text" ELSE "empty"
  /\ \A d \in Call \ {c} : /\ messages'[CallId(k, d)] = messages[CallId(k, d)]
                           /\ messages'[ResultId(k, d)] = messages[ResultId(k, d)]

\* What commit_tool_result makes of the row of its round.
LEMMA RowCommitted ==
  ASSUME NEW k \in Round, NEW c \in Call, RowStep(k, c)
  PROVE  RowSound(k, rounds'[k], messages')
<1> DEFINE done == rounds[k].done
           more == rounds'[k].done
           calls == rounds[k].calls
<1>0. /\ done \in Seq(Call) /\ more = Append(done, c) /\ c \in calls /\ c \notin Range(done)
      /\ rounds'[k].calls = calls
      /\ rounds'[k].status = IF Range(more) = calls THEN "settled" ELSE "pending"
      /\ messages'[CallId(k, c)] = IF done = <<>> THEN "text" ELSE "empty"
      /\ \A d \in Call \ {c} : /\ messages'[CallId(k, d)] = messages[CallId(k, d)]
                               /\ messages'[ResultId(k, d)] = messages[ResultId(k, d)]
  BY Zenon DEF RowStep
<1>1. /\ IsInjective(done) /\ Range(done) \subseteq calls
      /\ \A d \in Call : messages[CallId(k, d)] # "absent" <=> d \in Range(done)
      /\ \A d \in Call : messages[ResultId(k, d)] # "absent" => d \in Range(done)
      /\ \A i \in DOMAIN done : messages[CallId(k, done[i])] = "text" <=> i = 1
  BY Zenon DEF RowStep, RowSound
<1>2. RowSound(k, rounds'[k], messages') <=>
        /\ IsInjective(more) /\ Range(more) \subseteq rounds'[k].calls
        /\ rounds'[k].status = "settled" <=> rounds'[k].calls # {} /\ Range(more) = rounds'[k].calls
        /\ rounds'[k].status = "none" => more = <<>>
        /\ \A d \in Call : messages'[CallId(k, d)] # "absent" <=> d \in Range(more)
        /\ \A d \in Call : messages'[ResultId(k, d)] # "absent" => d \in Range(more)
        /\ \A i \in DOMAIN more : messages'[CallId(k, more[i])] = "text" <=> i = 1
  BY Zenon DEF RowSound
<1> HIDE DEF done, more, calls
<1>3. /\ Len(done) \in Nat /\ (done = <<>> <=> Len(done) = 0) /\ DOMAIN done = 1 .. Len(done)
      /\ DOMAIN more = 1 .. Len(done) + 1 /\ more[Len(done) + 1] = c
      /\ \A i \in DOMAIN done : more[i] = done[i] /\ done[i] \in Call
  <2>1. done \in Seq(Call) /\ more = Append(done, c)
    BY <1>0, Zenon
  <2> QED BY <2>1, AppendFacts
<1>4. \A i \in DOMAIN more : (i \in DOMAIN done /\ more[i] = done[i]) \/ (i = Len(done) + 1 /\ more[i] = c)
  BY <1>3
<1>5. Range(more) = Range(done) \cup {c}
  BY <1>3, <1>4 DEF Range
<1>6. \A i \in DOMAIN done : done[i] \in Call \ {c} /\ done[i] \in Range(done)
  BY Zenon, <1>0, <1>3 DEF Range
<1>7. IsInjective(more)
  BY <1>1, <1>3, <1>4, <1>6 DEF IsInjective
<1>8. \A d \in Call : /\ messages'[CallId(k, d)] # "absent" <=> d \in Range(more)
                      /\ messages'[ResultId(k, d)] # "absent" => d \in Range(more)
  <2> SUFFICES ASSUME NEW d \in Call
               PROVE  /\ messages'[CallId(k, d)] # "absent" <=> d \in Range(more)
                      /\ messages'[ResultId(k, d)] # "absent" => d \in Range(more)
    BY Zenon
  <2>1. CASE d = c
    BY Zenon, <1>0, <1>5, <2>1
  <2>2. CASE d # c
    BY Zenon, <1>0, <1>1, <1>5, <2>2
  <2> QED BY <2>1, <2>2, Zenon
<1>9. ASSUME NEW i \in DOMAIN more PROVE messages'[CallId(k, more[i])] = "text" <=> i = 1
  <2>1. CASE i \in DOMAIN done /\ more[i] = done[i]
    <3>1. messages'[CallId(k, done[i])] = messages[CallId(k, done[i])]
      BY Zenon, <1>0, <1>6, <2>1
    <3>2. messages[CallId(k, done[i])] = "text" <=> i = 1
      BY Zenon, <1>1, <2>1
    <3> QED BY <2>1, <3>1, <3>2, Zenon
  <2>2. CASE i = Len(done) + 1 /\ more[i] = c
    <3>1. done = <<>> <=> i = 1
      BY <1>3, <2>2
    <3> QED BY Zenon, <1>0, <2>2, <3>1
  <2> QED BY <1>4, <2>1, <2>2, Zenon
<1>10. Range(more) \subseteq calls /\ calls # {}
  BY Zenon, <1>0, <1>1, <1>5
<1>11. (rounds'[k].status = "settled" <=> Range(more) = calls) /\ rounds'[k].status # "none"
  BY Zenon, <1>0
<1> QED BY <1>0, <1>2, <1>7, <1>8, <1>9, <1>10, <1>11, Zenon

\* commit_tool_result: the call was pending, so neither of its messages is stored.
LEMMA CommitStore ==
  ASSUME StoreInv, NEW r \in Run, NEW k \in Round, NEW c \in Call, CommitToolResult(r, k, c)
  PROVE  Good(checkpoints', messages') /\ Ledger'
<1> DEFINE a == Message1(CallId(k, c), IF rounds[k].done = <<>> THEN "text" ELSE "empty")
           b == Message1(ResultId(k, c), "text")
           pair == <<a, b>>
           done == Append(rounds[k].done, c)
           stat == IF Range(done) = rounds[k].calls THEN "settled" ELSE "pending"
<1>1. /\ rounds[k].status = "pending" /\ c \in rounds[k].calls /\ c \notin Range(rounds[k].done)
      /\ AppendCheckpoint(r, pair)
      /\ rounds' = [rounds EXCEPT ![k].done = done, ![k].status = stat]
  BY Zenon DEF CommitToolResult, Pair
<1>2. TypeOK /\ IInv /\ Ledger /\ Good(checkpoints, messages)
  BY Zenon DEF StoreInv, IInv
<1>3. CallId(k, c) \in MessageId /\ ResultId(k, c) \in MessageId /\ "text" \in Content /\ "empty" \in Content
  BY Zenon, MessageTypes DEF Content
<1>4. /\ a \in Message /\ a.id = CallId(k, c)
      /\ a.body = IF rounds[k].done = <<>> THEN "text" ELSE "empty"
      /\ b \in Message /\ b.id = ResultId(k, c) /\ b.body = "text"
  BY Zenon, <1>3, MessageTypes DEF Message1
<1> HIDE DEF a, b
<1>5. pair \in Seq(Message) /\ DOMAIN pair = 1 .. 2 /\ pair[1] = a /\ pair[2] = b
  BY <1>4
<1> HIDE DEF pair
<1>6. Answered(pair)
  BY <1>4, <1>5, IdFacts DEF Answered
<1>7. RowSound(k, rounds[k], messages) /\ messages[CallId(k, c)] = "absent" /\ messages[ResultId(k, c)] = "absent"
  BY <1>1, <1>2, Zenon DEF Ledger, RowSound
<1>8. Good(checkpoints', messages')
  <2>1. runs[r].head \in DOMAIN checkpoints
    BY <1>1, <1>2 DEF AppendCheckpoint, ActiveHead, TypeOK
  <2>2. \A i \in DOMAIN pair, j \in DOMAIN checkpoints[runs[r].head].digest :
          pair[i].id # checkpoints[runs[r].head].digest[j].id
    BY <1>4, <1>5, <1>7, <2>1, StoredDigest
  <2> QED BY Zenon, <1>1, <1>2, <1>5, <1>6, <2>2, AppendGood
<1>9. CanPut(pair) /\ PutMessages(pair)
  BY Zenon, <1>1 DEF AppendCheckpoint, InsertCheckpoint
<1>10. /\ messages'[CallId(k, c)] = IF rounds[k].done = <<>> THEN "text" ELSE "empty"
       /\ messages'[ResultId(k, c)] = "text"
       /\ \A id \in MessageId : id # CallId(k, c) /\ id # ResultId(k, c) => messages'[id] = messages[id]
  <2>1. /\ \A i \in DOMAIN pair : messages'[pair[i].id] = pair[i].body
        /\ \A id \in MessageId : (\A i \in DOMAIN pair : pair[i].id # id) => messages'[id] = messages[id]
    BY Zenon, <1>2, <1>5, <1>9, PutFacts
  <2> QED BY <1>4, <1>5, <2>1
<1>11. /\ rounds'[k].done = done /\ rounds'[k].status = stat /\ rounds'[k].calls = rounds[k].calls
       /\ \A l \in Round \ {k} : rounds'[l] = rounds[l]
  <2> HIDE DEF done, stat
  <2> QED BY Zenon, <1>1, <1>2 DEF TypeOK
<1>12. \A l \in Round : rounds[l].done \in Seq(Call)
  BY Zenon, <1>2 DEF TypeOK
<1>13. RowSound(k, rounds'[k], messages')
  <2>1. ASSUME NEW d \in Call \ {c}
        PROVE  messages'[CallId(k, d)] = messages[CallId(k, d)] /\ messages'[ResultId(k, d)] = messages[ResultId(k, d)]
    BY <1>10, <2>1, OtherIds, Zenon
  <2>2. /\ rounds'[k].calls = rounds[k].calls /\ rounds'[k].done = Append(rounds[k].done, c)
        /\ rounds'[k].status = IF Range(rounds'[k].done) = rounds[k].calls THEN "settled" ELSE "pending"
    BY <1>11, Zenon
  <2> HIDE DEF done, stat
  <2>3. RowStep(k, c)
    BY <1>1, <1>7, <1>10, <1>12, <2>1, <2>2, Zenon DEF RowStep
  <2> QED BY <2>3, RowCommitted, Zenon
<1>14. ASSUME NEW l \in Round \ {k} PROVE RowSound(l, rounds'[l], messages')
  <2>1. ASSUME NEW d \in Call
        PROVE  messages'[CallId(l, d)] = messages[CallId(l, d)] /\ messages'[ResultId(l, d)] = messages[ResultId(l, d)]
    BY <1>10, <1>14, <2>1, OtherIds, Zenon
  <2>2. RowSound(l, rounds[l], messages) /\ rounds'[l] = rounds[l] /\ rounds[l].done \in Seq(Call)
    BY <1>2, <1>11, <1>12, Zenon DEF Ledger
  <2> QED BY <2>1, <2>2, RowKept, Zenon
<1> QED BY <1>8, <1>13, <1>14, Zenon DEF Ledger

\* Every operation of the store keeps the second invariant.
LEMMA NextStoreInv == StoreInv /\ [Next]_vars => StoreInv'
<1> SUFFICES ASSUME StoreInv, [Next]_vars PROVE StoreInv'
  OBVIOUS
<1>1. IInv'
  BY Zenon, NextIInv DEF StoreInv
<1> SUFFICES Good(checkpoints', messages') /\ Ledger'
  BY Zenon, <1>1 DEF StoreInv
<1>2. CASE EnsureConversation
  <2>1. checkpoints' = Ensured /\ messages' = messages /\ rounds' = rounds
    BY Zenon, <1>2 DEF EnsureConversation
  <2> QED BY <2>1, EnsuredGood, Zenon DEF StoreInv, Ledger
<1>3. ASSUME NEW ms \in History, ImportCheckpoint(ms) PROVE Good(checkpoints', messages') /\ Ledger'
  BY Zenon, <1>3, ImportStore
<1>4. ASSUME UNCHANGED <<checkpoints, messages, rounds>> PROVE Good(checkpoints', messages') /\ Ledger'
  BY <1>4, Zenon DEF StoreInv, Ledger
<1>5. ASSUME NEW r \in Run, NEW base \in DOMAIN checkpoints, ClaimRun(r, base)
      PROVE  Good(checkpoints', messages') /\ Ledger'
  BY Zenon, <1>4, <1>5 DEF ClaimRun
<1>6. ASSUME NEW r \in Run, BeginProviderCall(r) PROVE Good(checkpoints', messages') /\ Ledger'
  BY Zenon, <1>4, <1>6 DEF BeginProviderCall
<1>7. ASSUME NEW r \in Run, NEW outcome, FinishRun(r, outcome) PROVE Good(checkpoints', messages') /\ Ledger'
  BY Zenon, <1>4, <1>7 DEF FinishRun
<1>8. ASSUME NEW r \in Run, NEW i \in ExternalId, NEW b \in Body, AppendMessageOnce(r, Message1(i, b))
      PROVE  Good(checkpoints', messages') /\ Ledger'
  BY Zenon, <1>8, AppendMessageOnceStore
<1>9. ASSUME NEW r \in Run, AppendAssistant(r) PROVE Good(checkpoints', messages') /\ Ledger'
  BY Zenon, <1>9, AppendAssistantStore
<1>10. ASSUME NEW r \in Run, NEW before \in History, NEW after \in History, ReplaceCheckpoint(r, before, after)
       PROVE  Good(checkpoints', messages') /\ Ledger'
  BY Zenon, <1>10, ReplaceStore
<1>11. ASSUME NEW r \in Run, NEW cs \in SUBSET Call, CreateToolRound(r, cs)
       PROVE  Good(checkpoints', messages') /\ Ledger'
  BY Zenon, <1>11, CreateStore
<1>12. ASSUME NEW r \in Run, NEW k \in Round, NEW c \in Call, CommitToolResult(r, k, c)
       PROVE  Good(checkpoints', messages') /\ Ledger'
  BY Zenon, <1>12, CommitStore
<1>13. CASE UNCHANGED vars
  BY Zenon, <1>4, <1>13 DEF vars
<1> QED BY Zenon, <1>2, <1>3, <1>5, <1>6, <1>7, <1>8, <1>9, <1>10, <1>11, <1>12, <1>13 DEF Next

\* The empty store satisfies the second invariant.
LEMMA InitStoreInv == Init => StoreInv
<1> SUFFICES ASSUME Init PROVE StoreInv
  OBVIOUS
<1>1. IInv
  BY Zenon, InitIInv
<1>2. Good(checkpoints, messages)
  BY DEF Init, Good, Sound
<1>3. IsInjective(<<>>) /\ Range(<<>>) = {}
  BY DEF IsInjective, Range
<1>4. \A k \in Round : rounds[k].status = "none" /\ rounds[k].calls = {} /\ rounds[k].done = <<>>
  BY Zenon DEF Init
<1>5. \A k \in Round, c \in Call : messages[CallId(k, c)] = "absent" /\ messages[ResultId(k, c)] = "absent"
  BY Zenon, MessageTypes DEF Init
<1>6. Ledger
  BY <1>3, <1>4, <1>5 DEF Ledger, RowSound
<1> QED BY Zenon, <1>1, <1>2, <1>6 DEF StoreInv

(* A checkpoint is immutable: whatever is appended, imported, compacted or  *)
(* committed afterwards, load_checkpoint_messages reads the list of which   *)
(* its digest was taken.                                                    *)
THEOREM HistoriesAreKept == Spec => []LoadedIsDigest
<1>1. StoreInv => LoadedIsDigest
  BY Zenon, LoadedFacts DEF StoreInv, IInv, Good
<1> QED BY InitStoreInv, NextStoreInv, <1>1, PTL DEF Spec

(* No history holds a message twice, for any number of Runs, messages and   *)
(* calls (append_message_once, commit_tool_result, import_checkpoint,       *)
(* replace_checkpoint).                                                     *)
THEOREM MessagesOnce == Spec => []NoMessageTwice
<1>1. StoreInv => NoMessageTwice
  BY Zenon DEF StoreInv, Good, Distinct, NoMessageTwice
<1> QED BY InitStoreInv, NextStoreInv, <1>1, PTL DEF Spec

(* In every history a tool call is followed at once by its result, and the  *)
(* rows of a round agree with the messages table: a call is done exactly    *)
(* when its message is stored, a round is settled exactly when all its      *)
(* calls are done, and the model's text is stored with the first of them.   *)
THEOREM RoundsAreSettled == Spec => [](CallsAreAnswered /\ RoundLedger)
<1>1. StoreInv => CallsAreAnswered
  BY Zenon DEF StoreInv, Good, Answered, CallsAreAnswered
<1>2. StoreInv => RoundLedger
  BY Zenon DEF StoreInv, Ledger, RowSound, RoundLedger
<1> QED BY InitStoreInv, NextStoreInv, <1>1, <1>2, PTL DEF Spec
=============================================================================
