--------------------------- MODULE LatencyMailbox ---------------------------
(***************************************************************************)
(* One mailbox slot of the send/receive latency probes, between the sender *)
(* and the receiver of one channel (vblock): send_timestamp_message and    *)
(* recv_latency of latency.probe.                                          *)
(*                                                                         *)
(* The communication kernel that carries the hooks is external: a FIFO per *)
(* connection in which the sender may be up to Depth steps ahead of the    *)
(* receiver.  The send hook runs after the sender has published a step,    *)
(* the receive hook after the receiver has seen it and before it gives the *)
(* step's buffer back.  All steps of all launches share the one slot.      *)
(*                                                                         *)
(* A message is named by its launch and its step, and its timestamp by the *)
(* message whose sending it stamps.                                        *)
(***************************************************************************)
EXTENDS Naturals

CONSTANTS
  Steps,      \* bound of the model: FIFO steps per launch
  Launches,   \* bound of the model: launches
  Depth,      \* slots of the FIFO
  MaxPolls,   \* polls of the mailbox before the hook gives up (1048576)
  RunIds      \* number of run ids the tag can hold (2^24)

ASSUME MailboxAssumption ==
  /\ Steps \in Nat \ {0}
  /\ Launches \in Nat \ {0}
  /\ Depth \in Nat \ {0}
  /\ MaxPolls \in Nat \ {0}
  /\ RunIds \in Nat /\ Launches < RunIds

Message == (1..Launches) \X (1..Steps)
None    == <<0, 0>>                \* a zero word: no message's tag or timestamp

\* The order in which a rank goes through the messages.
Before(m, n) == m[1] < n[1] \/ (m[1] = n[1] /\ m[2] < n[2])

\* The message after m; the last one is followed by the end of the run.
Successor(m) == IF m[2] < Steps THEN <<m[1], m[2] + 1>> ELSE <<m[1] + 1, 1>>

End == <<Launches + 1, 1>>
Position == Message \cup {End}

(***************************************************************************)
(* The tag: the FIFO step above the run id, which is the launch index cut  *)
(* to its low bits (and a constant low byte).                              *)
(***************************************************************************)
Tag(m) == <<m[2], m[1] % RunIds>>

VARIABLES
  sAt,        \* the message the sender works on
  sPc,        \* "send", then in the hook "time", "tag"
  rAt,        \* the message the receiver works on
  rPc,        \* "wait", then in the hook "poll", "have"
  polls,      \* %srlat_r5
  got,        \* %srlat_rd13, the timestamp that came with the tag
  slot,       \* the mailbox slot: its tag word and its timestamp word
  early,      \* the tag had been stored before the hook began (history)
  record      \* the last sr_latency record of the receiver

vars == <<sAt, sPc, rAt, rPc, polls, got, slot, early, record>>

Empty == [tag |-> None, time |-> None]
NoRecord == [of |-> None, time |-> None, invalid |-> TRUE, early |-> FALSE]

Init ==
  /\ sAt = <<1, 1>>
  /\ sPc = "send"
  /\ rAt = <<1, 1>>
  /\ rPc = "wait"
  /\ polls = 0
  /\ got = None
  /\ slot = Empty
  /\ early = FALSE
  /\ record = NoRecord

(***************************************************************************)
(* External: the FIFO of launch l.                                         *)
(***************************************************************************)
Taken(r, l) ==        \* steps of launch l that a receiver at r is done with
  IF r[1] = l THEN r[2] - 1 ELSE IF r[1] > l THEN Steps ELSE 0

Sent(m) == Before(m, sAt) \/ (m = sAt /\ sPc # "send")

Send ==
  /\ sPc = "send"
  /\ sAt # End
  /\ sAt[2] <= Taken(rAt, sAt[1]) + Depth
  /\ sPc' = "time"
  /\ UNCHANGED <<sAt, rAt, rPc, polls, got, slot, early, record>>

(***************************************************************************)
(* send_timestamp_message: read the clock, store the timestamp word, and   *)
(* behind a system fence the tag word.                                     *)
(***************************************************************************)
StoreTime ==
  /\ sPc = "time"
  /\ slot' = [slot EXCEPT !.time = sAt]
  /\ sPc' = "tag"
  /\ UNCHANGED <<sAt, rAt, rPc, polls, got, early, record>>

StoreTag ==
  /\ sPc = "tag"
  /\ slot' = [slot EXCEPT !.tag = Tag(sAt)]
  /\ sAt' = Successor(sAt)
  /\ sPc' = "send"
  /\ UNCHANGED <<rAt, rPc, polls, got, early, record>>

(***************************************************************************)
(* External: the receiver sees the step it waits for.  Its polling loop,   *)
(* and with it the hook, is skipped when an earlier poll already returned  *)
(* a later step.                                                           *)
(***************************************************************************)
BeginHook ==
  /\ rPc = "wait"
  /\ rAt # End
  /\ Sent(rAt)
  /\ rPc' = "poll"
  /\ polls' = 0
  /\ early' = Before(rAt, sAt)
  /\ UNCHANGED <<sAt, sPc, rAt, got, slot, record>>

SkipHook ==
  /\ rPc = "wait"
  /\ rAt # End
  /\ rAt[2] > 1
  /\ Sent(rAt)
  /\ rAt' = Successor(rAt)
  /\ UNCHANGED <<sAt, sPc, rPc, polls, got, slot, early, record>>

(***************************************************************************)
(* recv_latency: poll both words of the slot for the tag of this step.     *)
(***************************************************************************)
Hit == slot.tag = Tag(rAt)

PollHit ==
  /\ rPc = "poll"
  /\ Hit
  /\ got' = slot.time
  /\ rPc' = "have"
  /\ UNCHANGED <<sAt, sPc, rAt, polls, slot, early, record>>

LastPoll == polls + 1 >= MaxPolls

PollMiss ==
  /\ rPc = "poll"
  /\ ~Hit
  /\ ~LastPoll
  /\ polls' = polls + 1
  /\ UNCHANGED <<sAt, sPc, rAt, rPc, got, slot, early, record>>

PollAgain ==                             \* mutant: the old, unbounded loop
  /\ rPc = "poll"
  /\ ~Hit
  /\ UNCHANGED vars

GiveUp ==
  /\ rPc = "poll"
  /\ ~Hit
  /\ LastPoll
  /\ rAt' = Successor(rAt)
  /\ rPc' = "wait"
  /\ UNCHANGED <<sAt, sPc, polls, got, slot, early, record>>

(***************************************************************************)
(* Clear the slot and save the record.  It is marked invalid when the      *)
(* timestamp is zero or the tag was found by the first or second poll.     *)
(***************************************************************************)
ZeroTimeOnly == got = None               \* mutant: the polls are not looked at
EarlyOnly == polls <= 1                  \* mutant: the timestamp is not
Invalid == got = None \/ polls <= 1

ClearAndSave ==
  /\ rPc = "have"
  /\ slot' = Empty
  /\ record' = [of |-> rAt, time |-> got, invalid |-> Invalid, early |-> early]
  /\ rAt' = Successor(rAt)
  /\ rPc' = "wait"
  /\ UNCHANGED <<sAt, sPc, polls, got, early>>

SenderStep   == Send \/ StoreTime \/ StoreTag
ReceiverStep ==
  \/ BeginHook
  \/ SkipHook
  \/ PollHit
  \/ PollMiss
  \/ GiveUp
  \/ ClearAndSave

Next == SenderStep \/ ReceiverStep

Spec == Init /\ [][Next]_vars

(***************************************************************************)
(* Both kernels run: neither thread stops executing.                       *)
(***************************************************************************)
FairSpec == Spec /\ WF_vars(SenderStep) /\ WF_vars(ReceiverStep)

------------------------------------------------------------------------------
Time == Message \cup {None}

TypeOK ==
  /\ sAt \in Position
  /\ sPc \in {"send", "time", "tag"}
  /\ rAt \in Position
  /\ rPc \in {"wait", "poll", "have"}
  /\ polls \in 0..(MaxPolls - 1)
  /\ got \in Time
  /\ slot \in [tag : {Tag(m) : m \in Message} \cup {None}, time : Time]
  /\ early \in BOOLEAN
  /\ record \in [of : Time, time : Time, invalid : BOOLEAN, early : BOOLEAN]

(***************************************************************************)
(* How wrong the timestamp of a valid record can be.  It may belong to a   *)
(* later message than the tag (the sender overwrote it in between), never  *)
(* to an earlier one, and within a launch to one less than Depth steps     *)
(* later.  A valid latency is thus never longer than the real one.         *)
(***************************************************************************)
TimestampWindow ==
  ~record.invalid =>
    /\ record.time = record.of \/ Before(record.of, record.time)
    /\ record.time[1] = record.of[1] => record.time[2] < record.of[2] + Depth

(***************************************************************************)
(* A message that was in the mailbox before the receiver's hook began      *)
(* waited for the receiver; its record, if there is one, is marked         *)
(* invalid.                                                                *)
(***************************************************************************)
ValidOnlyIfAwaited == ~record.invalid => ~record.early

(***************************************************************************)
(* The inductive invariant behind the two: every time in the slot is of a  *)
(* message its sender had credit for, and never older than the tag beside  *)
(* it; an early message is one the sender had left before the hook began.  *)
(***************************************************************************)

\* A timestamp that the sender, at place p of message s, has stored, of a step
\* for which it has credit from a receiver at r.
StoredBy(t, s, p, r) ==
  /\ t \in Message
  /\ Before(t, s) \/ (t = s /\ p = "tag")
  /\ t[2] <= Taken(r, t[1]) + Depth

Stored(t) == StoredBy(t, sAt, sPc, rAt)

\* A timestamp that goes with message m: its own, or a later one.
Fits(t, m) == t = m \/ Before(m, t)

SenderInv ==
  /\ sPc # "send" => sAt \in Message /\ sAt[2] <= Taken(rAt, sAt[1]) + Depth
  /\ sPc = "tag" => slot.time \in {None, sAt}

SlotInv ==
  /\ slot.time # None => Stored(slot.time)
  /\ \A m \in Message : slot.tag = Tag(m) =>
       /\ Before(m, sAt)
       /\ slot.time # None => Fits(slot.time, m)

HookInv ==
  /\ rPc # "wait" => rAt \in Message
  /\ rPc # "wait" /\ early => Before(rAt, sAt)
  /\ rPc = "poll" /\ early /\ polls > 0 => slot.tag # Tag(rAt)
  /\ rPc = "have" /\ early => polls = 0
  /\ rPc = "have" /\ got # None => Stored(got) /\ Fits(got, rAt)

RecordInv == TimestampWindow /\ ValidOnlyIfAwaited

IInv == TypeOK /\ SenderInv /\ SlotInv /\ HookInv /\ RecordInv

(***************************************************************************)
(* The probes never hold up the communication they measure: whatever gets  *)
(* overwritten or wiped in the mailbox, both ranks get through every step. *)
(***************************************************************************)
RunCompletes == <>(sAt = End /\ rAt = End)
==============================================================================
