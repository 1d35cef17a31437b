----------------------- MODULE LatencyMailbox_proofs -----------------------
(***************************************************************************)
(* The two safety properties of LatencyMailbox, for every FIFO depth,      *)
(* every number of steps and launches, and every poll budget.              *)
(***************************************************************************)
EXTENDS LatencyMailbox, TLAPS

(***************************************************************************)
(* Messages, their order and their tags.                                   *)
(***************************************************************************)
LEMMA Pairs ==
  /\ \A m \in Position : m[1] \in Nat /\ m[2] \in Nat /\ m = <<m[1], m[2]>>
  /\ \A m \in Message : m[1] \in 1..Launches /\ m[2] \in 1..Steps
  /\ \A l \in 1..Launches, k \in 1..Steps : <<l, k>> \in Message
  /\ End[1] = Launches + 1 /\ End[2] = 1
  /\ None \notin Position
<1> USE MailboxAssumption DEF Position, Message, End, None
<1>1. \A m \in Message : m[1] \in 1..Launches /\ m[2] \in 1..Steps /\ m = <<m[1], m[2]>>
  OBVIOUS
<1>. QED  BY <1>1

LEMMA Order ==
  ASSUME NEW m \in Position, NEW n \in Position
  PROVE  /\ ~Before(m, m)
         /\ Before(m, n) \/ m = n \/ Before(n, m)
         /\ Before(m, n) => ~Before(n, m) /\ m # n
         /\ \A o \in Position : Before(m, n) /\ Before(n, o) => Before(m, o)
BY Pairs DEF Before

LEMMA Next1 ==
  ASSUME NEW m \in Message
  PROVE  /\ Successor(m) \in Position
         /\ Before(m, Successor(m))
         /\ \A n \in Message : Before(n, Successor(m)) <=> n = m \/ Before(n, m)
<1> DEFINE s == Successor(m)
<1>1. m[1] \in 1..Launches /\ m[2] \in 1..Steps
  BY Pairs
<1>2. CASE m[2] < Steps
  <2>1. s = <<m[1], m[2] + 1>>
    BY <1>2 DEF Successor
  <2>2. m[2] + 1 \in 1..Steps
    BY <1>1, <1>2, MailboxAssumption
  <2>3. s \in Position
    BY <1>1, <2>1, <2>2, Pairs DEF Position
  <2>4. s[1] = m[1] /\ s[2] = m[2] + 1
    BY <2>1
  <2>. QED  BY <1>1, <2>3, <2>4, Pairs DEF Before, Position
<1>3. CASE ~(m[2] < Steps)
  <2>1. s = <<m[1] + 1, 1>> /\ m[2] = Steps
    BY <1>1, <1>3, MailboxAssumption DEF Successor
  <2>2. s \in Position
    BY <1>1, <2>1, Pairs, MailboxAssumption DEF Position, End, Message
  <2>3. s[1] = m[1] + 1 /\ s[2] = 1
    BY <2>1
  <2>. QED  BY <1>1, <2>1, <2>2, <2>3, Pairs DEF Before, Position
<1>. QED  BY <1>2, <1>3

LEMMA TagNamesMessage ==
  /\ \A m \in Message : Tag(m) # None
  /\ \A m, n \in Message : Tag(m) = Tag(n) => m = n
<1>1. \A m \in Message : m[1] % RunIds = m[1]
  <2> TAKE m \in Message
  <2>1. m[1] \in Nat /\ m[1] < RunIds /\ RunIds \in Nat \ {0}
    BY Pairs, MailboxAssumption
  <2>. QED  BY <2>1
<1>2. \A m \in Message : Tag(m) = <<m[2], m[1]>>
  BY <1>1 DEF Tag
<1>. QED  BY <1>2, Pairs DEF Position, None

StoredNext(t) == StoredBy(t, sAt', sPc', rAt')

LEMMA InitInv == Init => IInv
<1> SUFFICES ASSUME Init PROVE IInv
  OBVIOUS
<1>1. <<1, 1>> \in Message
  BY Pairs, MailboxAssumption
<1>2. TypeOK
  <2>1. sAt \in Position /\ rAt \in Position
    BY <1>1 DEF Init, Position
  <2>2. polls \in 0..(MaxPolls - 1)
    BY MailboxAssumption DEF Init
  <2>3. slot \in [tag : {Tag(m) : m \in Message} \cup {None}, time : Time]
    BY DEF Init, Empty, Time
  <2>4. record \in [of : Time, time : Time, invalid : BOOLEAN, early : BOOLEAN]
    BY DEF Init, NoRecord, Time
  <2>5. got \in Time
    BY DEF Init, Time
  <2>. QED  BY <2>1, <2>2, <2>3, <2>4, <2>5 DEF Init, TypeOK
<1>3. SenderInv /\ HookInv /\ RecordInv
  BY DEF Init, SenderInv, HookInv, RecordInv, TimestampWindow,
         ValidOnlyIfAwaited, NoRecord
<1>4. SlotInv
  BY TagNamesMessage DEF Init, SlotInv, Empty
<1>. QED  BY <1>2, <1>3, <1>4 DEF IInv

(***************************************************************************)
(* Each rank only ever moves forward through the messages.                 *)
(***************************************************************************)
LEMMA SenderMoves ==
  ASSUME TypeOK, SenderInv, [Next]_vars
  PROVE  sAt' = sAt \/ (StoreTag /\ sAt \in Message /\ sAt' = Successor(sAt))
BY DEF SenderInv, Next, SenderStep, ReceiverStep, vars, Send, StoreTime, StoreTag,
       BeginHook, SkipHook, PollHit, PollMiss, GiveUp, ClearAndSave

LEMMA ReceiverMoves ==
  ASSUME TypeOK, HookInv, [Next]_vars
  PROVE  rAt' = rAt \/ (rAt \in Message /\ rAt' = Successor(rAt))
<1>1. rAt # End => rAt \in Message
  BY DEF TypeOK, Position
<1>. QED  BY <1>1 DEF HookInv, Next, SenderStep, ReceiverStep, vars, Send, StoreTime,
       StoreTag, BeginHook, SkipHook, PollHit, PollMiss, GiveUp, ClearAndSave

LEMMA CreditsGrow ==
  ASSUME TypeOK, HookInv, [Next]_vars, NEW l \in 1..Launches
  PROVE  Taken(rAt, l) \in Nat /\ Taken(rAt', l) \in Nat /\ Taken(rAt, l) <= Taken(rAt', l)
<1> USE MailboxAssumption
<1>1. \A m \in Position : m[1] \in Nat /\ m[2] \in Nat \ {0}
  BY Pairs DEF Position
<1>2. rAt \in Position /\ rAt[1] \in Nat /\ rAt[2] \in Nat \ {0}
  BY <1>1 DEF TypeOK
<1>3. CASE rAt' = rAt
  BY <1>2, <1>3 DEF Taken
<1>4. CASE rAt \in Message /\ rAt' = Successor(rAt)
  <2>1. rAt[2] \in 1..Steps
    BY <1>4, Pairs
  <2>2. CASE rAt[2] < Steps
    <3>1. rAt'[1] = rAt[1] /\ rAt'[2] = rAt[2] + 1
      BY <1>4, <2>2 DEF Successor
    <3>. QED  BY <1>2, <2>1, <3>1 DEF Taken
  <2>3. CASE ~(rAt[2] < Steps)
    <3>1. rAt'[1] = rAt[1] + 1 /\ rAt'[2] = 1
      BY <1>4, <2>3 DEF Successor
    <3>. QED  BY <1>2, <2>1, <2>3, <3>1 DEF Taken
  <2>. QED  BY <2>2, <2>3
<1>. QED  BY <1>3, <1>4, ReceiverMoves

\* What the sender has stored stays stored, whatever is overwritten.
LEMMA StaysStored ==
  ASSUME TypeOK, SenderInv, HookInv, [Next]_vars, NEW t, Stored(t)
  PROVE  StoredNext(t)
<1> USE DEF Stored, StoredNext, StoredBy
<1>1. t \in Message /\ t[1] \in 1..Launches /\ t[2] \in 1..Steps
  BY Pairs DEF Stored
<1>2. t[2] <= Taken(rAt', t[1]) + Depth
  BY <1>1, CreditsGrow, MailboxAssumption DEF Stored
<1>3. Before(t, sAt') \/ (t = sAt' /\ sPc' = "tag")
  <2>1. CASE StoreTag /\ sAt \in Message /\ sAt' = Successor(sAt)
    <3>1. Before(t, Successor(sAt))
      BY <1>1, <2>1, Next1 DEF Stored
    <3>. QED  BY <2>1, <3>1 DEF Before
  <2>2. CASE sAt' = sAt
    <3>1. sPc = "tag" => sPc' = "tag" \/ StoreTag
      BY DEF Next, SenderStep, ReceiverStep, vars, Send, StoreTime,
             BeginHook, SkipHook, PollHit, PollMiss, GiveUp, ClearAndSave
    <3>2. CASE StoreTag
      <4>1. sAt \in Message /\ sAt' = Successor(sAt)
        BY <3>2 DEF StoreTag, SenderInv
      <4>. QED  BY <2>1, <4>1, <3>2
    <3>. QED  BY <2>2, <3>1, <3>2 DEF Stored, Before
  <2>. QED  BY <2>1, <2>2, SenderMoves
<1>. QED  BY <1>1, <1>2, <1>3 DEF Stored

(***************************************************************************)
(* Every step keeps the type invariant.                                    *)
(***************************************************************************)
LEMMA TypeStep ==
  ASSUME TypeOK, SenderInv, HookInv, [Next]_vars
  PROVE  TypeOK'
<1>1. sAt' \in Position /\ rAt' \in Position
  BY SenderMoves, ReceiverMoves, Next1 DEF TypeOK
<1>2. sPc' \in {"send", "time", "tag"} /\ rPc' \in {"wait", "poll", "have"}
  BY DEF TypeOK, Next, SenderStep, ReceiverStep, vars, Send, StoreTime, StoreTag,
         BeginHook, SkipHook, PollHit, PollMiss, GiveUp, ClearAndSave
<1>3. polls' \in 0..(MaxPolls - 1)
  BY MailboxAssumption DEF TypeOK, Next, SenderStep, ReceiverStep, vars, Send,
         StoreTime, StoreTag, BeginHook, SkipHook, PollHit, PollMiss, GiveUp,
         ClearAndSave, LastPoll
<1>4. got' \in Time
  BY DEF TypeOK, Next, SenderStep, ReceiverStep, vars, Send, StoreTime, StoreTag,
         BeginHook, SkipHook, PollHit, PollMiss, GiveUp, ClearAndSave
<1>5. slot' \in [tag : {Tag(m) : m \in Message} \cup {None}, time : Time]
  <2>1. CASE StoreTime
    BY <2>1 DEF StoreTime, TypeOK, SenderInv, Time
  <2>2. CASE StoreTag
    BY <2>2 DEF StoreTag, TypeOK, SenderInv
  <2>3. CASE ClearAndSave
    BY <2>3 DEF ClearAndSave, Empty, Time
  <2>. QED  BY <2>1, <2>2, <2>3 DEF TypeOK, Next, SenderStep, ReceiverStep, vars,
              Send, BeginHook, SkipHook, PollHit, PollMiss, GiveUp
<1>6. early' \in BOOLEAN
  BY DEF TypeOK, Next, SenderStep, ReceiverStep, vars, Send, StoreTime, StoreTag,
         BeginHook, SkipHook, PollHit, PollMiss, GiveUp, ClearAndSave, Before
<1>7. record' \in [of : Time, time : Time, invalid : BOOLEAN, early : BOOLEAN]
  <2>1. CASE ClearAndSave
    BY <2>1 DEF ClearAndSave, TypeOK, HookInv, Invalid, Time
  <2>. QED  BY <2>1 DEF TypeOK, Next, SenderStep, ReceiverStep, vars,
              Send, StoreTime, StoreTag, BeginHook, SkipHook, PollHit, PollMiss, GiveUp
<1>. QED  BY <1>1, <1>2, <1>3, <1>4, <1>5, <1>6, <1>7 DEF TypeOK

(***************************************************************************)
(* Every step keeps the four other parts.                                  *)
(***************************************************************************)
LEMMA SenderKept ==
  ASSUME IInv, [Next]_vars
  PROVE  SenderInv'
<1> USE DEF IInv
<1>1. sPc' # "send" => sAt' \in Message /\ sAt'[2] <= Taken(rAt', sAt'[1]) + Depth
  <2> SUFFICES ASSUME sPc' # "send"
               PROVE  sAt' \in Message /\ sAt'[2] <= Taken(rAt', sAt'[1]) + Depth
    OBVIOUS
  <2>1. sAt' = sAt /\ sAt \in Message /\ sAt[2] <= Taken(rAt, sAt[1]) + Depth
    BY DEF TypeOK, Position, SenderInv, Next, SenderStep, ReceiverStep, vars, Send,
           StoreTime, StoreTag, BeginHook, SkipHook, PollHit, PollMiss, GiveUp,
           ClearAndSave
  <2>2. sAt[1] \in 1..Launches /\ sAt[2] \in 1..Steps
    BY <2>1, Pairs
  <2>. QED  BY <2>1, <2>2, CreditsGrow, MailboxAssumption
<1>2. sPc' = "tag" => slot'.time \in {None, sAt'}
  BY DEF TypeOK, SenderInv, Next, SenderStep, ReceiverStep, vars, Send,
         StoreTime, StoreTag, BeginHook, SkipHook, PollHit, PollMiss, GiveUp,
         ClearAndSave, Empty
<1>. QED  BY <1>1, <1>2 DEF SenderInv

LEMMA SlotKept ==
  ASSUME IInv, [Next]_vars
  PROVE  SlotInv'
<1> USE DEF IInv
<1>1. slot'.time # None => StoredNext(slot'.time)
  <2>1. CASE StoreTime
    <3>1. slot'.time = sAt /\ sAt' = sAt /\ sPc' = "tag" /\ rAt' = rAt
      BY <2>1 DEF StoreTime, TypeOK
    <3>2. sAt \in Message /\ sAt[2] <= Taken(rAt, sAt[1]) + Depth
      BY <2>1 DEF StoreTime, SenderInv
    <3>. QED  BY <3>1, <3>2 DEF StoredNext, StoredBy
  <2>2. CASE slot'.time \in {slot.time, None}
    BY <2>2, StaysStored DEF SlotInv
  <2>. QED  BY <2>1, <2>2 DEF TypeOK, Next, SenderStep, ReceiverStep, vars, Send,
              StoreTag, BeginHook, SkipHook, PollHit, PollMiss, GiveUp,
              ClearAndSave, Empty
<1>2. ASSUME NEW m \in Message, slot'.tag = Tag(m)
      PROVE  Before(m, sAt') /\ (slot'.time # None => Fits(slot'.time, m))
  <2>1. CASE StoreTime
    BY <1>2, <2>1 DEF StoreTime, TypeOK, SlotInv, Fits, Before
  <2>2. CASE StoreTag
    <3>1. slot'.tag = Tag(sAt) /\ slot'.time = slot.time /\ sAt \in Message
          /\ sAt' = Successor(sAt) /\ slot.time \in {None, sAt}
      BY <2>2 DEF StoreTag, TypeOK, SenderInv
    <3>2. m = sAt
      BY <1>2, <3>1, TagNamesMessage
    <3>3. Before(m, Successor(sAt))
      BY <3>1, <3>2, Next1
    <3>. QED  BY <3>1, <3>2, <3>3 DEF Fits, Before
  <2>3. CASE ClearAndSave
    BY <1>2, <2>3, TagNamesMessage DEF ClearAndSave, Empty
  <2>4. CASE slot' = slot /\ sAt' = sAt
    BY <1>2, <2>4 DEF SlotInv, Before
  <2>. QED  BY <2>1, <2>2, <2>3, <2>4 DEF Next, SenderStep, ReceiverStep, vars, Send,
              BeginHook, SkipHook, PollHit, PollMiss, GiveUp
<1>. QED  BY <1>1, <1>2 DEF SlotInv, Stored, StoredNext

LEMMA HookKept ==
  ASSUME IInv, [Next]_vars
  PROVE  HookInv'
<1> USE DEF IInv
<1>1. CASE BeginHook
  <2>1. rAt \in Message
    BY <1>1 DEF BeginHook, TypeOK, Position
  <2>2. /\ rAt' = rAt /\ sAt' = sAt /\ rPc' = "poll" /\ polls' = 0
        /\ early' = Before(rAt, sAt)
    BY <1>1 DEF BeginHook
  <2>3. early' => Before(rAt', sAt')
    BY <2>2, Zenon
  <2>4. polls' = 0 /\ rAt' \in Message /\ rPc' = "poll"
    BY <2>1, <2>2
  <2>. QED  BY <2>3, <2>4 DEF HookInv, Before
<1>2. CASE PollHit
  <2>1. rAt \in Message /\ slot.tag = Tag(rAt)
    BY <1>2 DEF PollHit, Hit, HookInv
  <2>2. early => polls = 0
    BY <1>2, <2>1 DEF PollHit, HookInv, TypeOK
  <2>3. slot.time # None => StoredNext(slot.time) /\ Fits(slot.time, rAt)
    BY <2>1, StaysStored DEF SlotInv
  <2>. QED  BY <1>2, <2>1, <2>2, <2>3 DEF PollHit, HookInv, Before, Stored, StoredNext
<1>3. CASE PollMiss
  BY <1>3 DEF PollMiss, Hit, HookInv, Before
<1>4. CASE SkipHook \/ GiveUp \/ ClearAndSave
  BY <1>4 DEF SkipHook, GiveUp, ClearAndSave, HookInv
<1>5. CASE StoreTag
  <2>1. sAt \in Message /\ sAt' = Successor(sAt) /\ slot'.tag = Tag(sAt)
    BY <1>5 DEF StoreTag, SenderInv, TypeOK
  <2>2. rPc # "wait" /\ early => Before(rAt, Successor(sAt)) /\ Tag(rAt) # Tag(sAt)
    BY <2>1, Next1, TagNamesMessage, Order DEF HookInv, Position
  <2>3. rPc = "have" /\ got # None => StoredNext(got)
    BY StaysStored DEF HookInv
  <2>. QED  BY <1>5, <2>1, <2>2, <2>3 DEF StoreTag, HookInv, Before, Stored, StoredNext
<1>6. CASE Send \/ StoreTime \/ UNCHANGED vars
  <2>1. rPc = "have" /\ got # None => StoredNext(got)
    BY StaysStored DEF HookInv
  <2>2. UNCHANGED <<rAt, rPc, polls, got, early, sAt>> /\ slot'.tag = slot.tag
    BY <1>6 DEF Send, StoreTime, vars, TypeOK
  <2>. QED  BY <2>1, <2>2 DEF HookInv, Before, Stored, StoredNext
<1>. QED  BY <1>1, <1>2, <1>3, <1>4, <1>5, <1>6 DEF Next, SenderStep, ReceiverStep

LEMMA RecordKept ==
  ASSUME IInv, [Next]_vars
  PROVE  RecordInv'
<1> USE DEF IInv
<1>1. CASE ClearAndSave
  <2>1. record' = [of |-> rAt, time |-> got, invalid |-> Invalid, early |-> early]
        /\ rAt \in Message /\ rPc = "have"
    BY <1>1 DEF ClearAndSave, HookInv
  <2>2. early => Invalid
    BY <2>1 DEF HookInv, Invalid
  <2>3. ~Invalid => Stored(got) /\ Fits(got, rAt)
    BY <2>1 DEF HookInv, Invalid
  <2>4. Stored(got) /\ got[1] = rAt[1] => got[2] < rAt[2] + Depth
    <3>1. rAt[2] \in Nat /\ Taken(rAt, rAt[1]) = rAt[2] - 1
      BY <2>1, Pairs DEF Taken
    <3>2. got \in Message => got[2] \in Nat
      BY Pairs
    <3>. QED  BY <3>1, <3>2, MailboxAssumption DEF Stored, StoredBy
  <2>. QED  BY <2>1, <2>2, <2>3, <2>4
            DEF RecordInv, TimestampWindow, ValidOnlyIfAwaited, Fits, Before
<1>2. CASE record' = record
  BY <1>2 DEF RecordInv, TimestampWindow, ValidOnlyIfAwaited, Before
<1>. QED  BY <1>1, <1>2 DEF Next, SenderStep, ReceiverStep, vars, Send, StoreTime,
            StoreTag, BeginHook, SkipHook, PollHit, PollMiss, GiveUp

(***************************************************************************)
(* The strengthened invariant holds in every reachable state.              *)
(***************************************************************************)
THEOREM Inductive == Spec => []IInv
<1>1. IInv /\ [Next]_vars => IInv'
  BY TypeStep, SenderKept, SlotKept, HookKept, RecordKept DEF IInv
<1>. QED  BY InitInv, <1>1, PTL DEF Spec

(***************************************************************************)
(* Type correctness of the mailbox, its hooks and the record.              *)
(***************************************************************************)
THEOREM TypeCorrect == Spec => []TypeOK
<1>1. IInv => TypeOK
  BY DEF IInv
<1>. QED  BY Inductive, <1>1, PTL

(***************************************************************************)
(* The timestamp of a valid record of recv_latency is that of its message  *)
(* or of a later one, less than a FIFO depth away within the launch.       *)
(***************************************************************************)
THEOREM TimestampWindowHolds == Spec => []TimestampWindow
<1>1. IInv => TimestampWindow
  BY DEF IInv, RecordInv
<1>. QED  BY Inductive, <1>1, PTL

(***************************************************************************)
(* A record of a message that was there before the receive hook began is   *)
(* marked invalid by the hook's poll count.                                *)
(***************************************************************************)
THEOREM ValidOnlyIfAwaitedHolds == Spec => []ValidOnlyIfAwaited
<1>1. IInv => ValidOnlyIfAwaited
  BY DEF IInv, RecordInv
<1>. QED  BY Inductive, <1>1, PTL
=============================================================================
