------------------------ MODULE PtpHandshake_proofs ------------------------
(***************************************************************************)
(* The calibration messages, for any number of samples and launches.       *)
(*                                                                         *)
(* The argument: a sample is visited once in every launch.  In one that    *)
(* nobody ever gave up on, the two sides go through their programs in      *)
(* step, so the visit a message was stored in is the number of times its   *)
(* slot has been written, and a slot is clear when it has been cleared     *)
(* equally often.  There is one exception: when the leader begins its next *)
(* visit before the follower has cleared ConnReq, that message is lost,    *)
(* and nobody gets any further with the sample.                            *)
(***************************************************************************)
EXTENDS PtpHandshake, TLAPS

(***************************************************************************)
(* The visits of sample s a side has finished, and where it is in the next *)
(* one.                                                                    *)
(***************************************************************************)
Visits(side, s) ==
  IF Running(side) /\ sample[side] <= s THEN launch[side] - 1 ELSE launch[side]
Place(side, s) == IF Running(side) /\ sample[side] = s THEN pc[side] ELSE 1

\* How often a side at place p after n visits has executed a step.
Times(n, p, step) == IF p > step THEN n + 1 ELSE n

(***************************************************************************)
(* The sides whose clocks a message comes from, and its lineage when every *)
(* one of them was read in launch n.                                       *)
(***************************************************************************)
Makers(msg) ==
  IF msg \in {"ConnReq", "Sync", "FollowUp"} THEN {"leader"}
  ELSE IF msg \in {"ConnResp", "DelayReq"} THEN {"follower"}
  ELSE Side

Lineage(msg, n) == Makers(msg) \X {n}

Content(msg, stores, clears) == IF stores > clears THEN Lineage(msg, stores) ELSE {}

(***************************************************************************)
(* Leader and follower, at places l and f after m and n visits: in the     *)
(* same visit, or one of the two is finishing what the other has finished. *)
(***************************************************************************)
InStep(m, l, n, f) ==
  /\ l \in 1..11 /\ f \in 1..12 /\ m \in Nat /\ n \in Nat
  /\ \/ /\ m = n
        /\ l = 1 => f = 1
        /\ l = 2 => f <= 3
        /\ l >= 3 => f >= 3
        /\ l = 3 => f = 3
        /\ l = 4 => f <= 4
        /\ l >= 6 => f >= 6
        /\ l <= 6 => f <= 6
        /\ l >= 8 => f >= 8
     \/ m = n + 1 /\ l <= 2 /\ f >= 8
     \/ n = m + 1 /\ f = 1 /\ l >= 7

Lost(m, l, n, f, c) == l = 2 /\ f \in {1, 10, 11, 12} /\ c["ConnReq"] = {}

SlotsOK(m, l, n, f, c) ==
  /\ \/ c["ConnReq"] = Content("ConnReq", Times(m, l, 1), Times(n, f, 9))
     \/ Lost(m, l, n, f, c)
  /\ c["ConnResp"]  = Content("ConnResp", Times(n, f, 2), Times(m, l, 9))
  /\ c["Sync"]      = Content("Sync", Times(m, l, 3), Times(n, f, 10))
  /\ c["FollowUp"]  = Content("FollowUp", Times(m, l, 4), Times(n, f, 11))
  /\ c["DelayReq"]  = Content("DelayReq", Times(n, f, 5), Times(m, l, 10))
  /\ c["DelayResp"] = Content("DelayResp", Times(m, l, 6), Times(n, f, 12))
  /\ c["Report"]    = Content("Report", Times(n, f, 7), Times(m, l, 11))

SampleOK(m, l, n, f, c) == InStep(m, l, n, f) /\ SlotsOK(m, l, n, f, c)

SamplesOK ==
  \A s \in Sample \ missed :
    SampleOK(Visits("leader", s), Place("leader", s),
             Visits("follower", s), Place("follower", s), slot[s])

(***************************************************************************)
(* What a side has read in a clean sample is of its own launch.            *)
(***************************************************************************)
Has(side, place, msg) ==
  Running(side) /\ sample[side] \notin missed /\ pc[side] > place
    => seen[side][msg] = Lineage(msg, launch[side])

SeenOK ==
  /\ Has("leader", 5, "DelayReq")
  /\ Has("leader", 7, "Report")
  /\ Has("follower", 3, "Sync")
  /\ Has("follower", 4, "FollowUp")
  /\ Has("follower", 6, "DelayResp")

PlacesOK ==
  /\ pc["leader"] <= 11
  /\ \A side \in Side : Running(side) => launch[side] >= 1

IInv == TypeOK /\ PlacesOK /\ SeenOK /\ SamplesOK

-----------------------------------------------------------------------------
(***************************************************************************)
(* A step of a program in a clean sample: what it does to the slots c.     *)
(***************************************************************************)
Effect(do, n, c, d) ==
  \/ do.op = "store" /\ d = [c EXCEPT ![do.msg] = Lineage(do.msg, n + 1)]
  \/ do.op = "await" /\ c[do.msg] # {} /\ d = c
  \/ do.op = "publish" /\ d = c
  \/ do.op = "clear" /\ d = [c EXCEPT ![do.msg] = {}]

Cells == [Msg -> SUBSET (Side \X Nat)]

LEMMA LineageNotEmpty ==
  ASSUME NEW msg, NEW n
  PROVE  Lineage(msg, n) # {}
<1>1. "leader" \in Makers(msg) \/ "follower" \in Makers(msg)
  BY DEF Makers, Side
<1>2. \A side \in Makers(msg) : <<side, n>> \in Lineage(msg, n)
  BY DEF Lineage
<1>q. QED
  BY <1>1, <1>2

\* Who takes part in which message.
LEMMA LineageOf ==
  ASSUME NEW n
  PROVE  /\ \A msg \in {"ConnReq", "Sync", "FollowUp"} : Lineage(msg, n) = {<<"leader", n>>}
         /\ \A msg \in {"ConnResp", "DelayReq"} : Lineage(msg, n) = {<<"follower", n>>}
         /\ \A msg \in {"DelayResp", "Report"} :
              /\ Lineage(msg, n) = {<<"leader", n>>, <<"follower", n>>}
              /\ Lineage(msg, n) = Side \X {n}
<1>1. \A msg \in {"ConnReq", "Sync", "FollowUp"} : Makers(msg) = {"leader"}
  BY DEF Makers
<1>2. \A msg \in {"ConnResp", "DelayReq"} : Makers(msg) = {"follower"}
  BY DEF Makers
<1>3. \A msg \in {"DelayResp", "Report"} : Makers(msg) = Side
  BY DEF Makers
<1>4. /\ {"leader"} \X {n} = {<<"leader", n>>}
      /\ {"follower"} \X {n} = {<<"follower", n>>}
      /\ {"leader", "follower"} \X {n} = {<<"leader", n>>, <<"follower", n>>}
  OBVIOUS
<1>q. QED
  BY <1>1, <1>2, <1>3, <1>4 DEF Lineage, Side

\* The programs, step by step.
LEMMA LeaderOps ==
  /\ Len(LeaderProgram) = 11
  /\ LeaderProgram[1] = Do("store", "ConnReq")
  /\ LeaderProgram[2] = Do("await", "ConnResp")
  /\ LeaderProgram[3] = Do("store", "Sync")
  /\ LeaderProgram[4] = Do("store", "FollowUp")
  /\ LeaderProgram[5] = Do("await", "DelayReq")
  /\ LeaderProgram[6] = Do("store", "DelayResp")
  /\ LeaderProgram[7] = Do("await", "Report")
  /\ LeaderProgram[8] = Do("publish", "Report")
  /\ LeaderProgram[9] = Do("clear", "ConnResp")
  /\ LeaderProgram[10] = Do("clear", "DelayReq")
  /\ LeaderProgram[11] = Do("clear", "Report")
BY DEF LeaderProgram

LEMMA FollowerOps ==
  /\ Len(FollowerProgram) = 12
  /\ FollowerProgram[1] = Do("await", "ConnReq")
  /\ FollowerProgram[2] = Do("store", "ConnResp")
  /\ FollowerProgram[3] = Do("await", "Sync")
  /\ FollowerProgram[4] = Do("await", "FollowUp")
  /\ FollowerProgram[5] = Do("store", "DelayReq")
  /\ FollowerProgram[6] = Do("await", "DelayResp")
  /\ FollowerProgram[7] = Do("store", "Report")
  /\ FollowerProgram[8] = Do("publish", "Report")
  /\ FollowerProgram[9] = Do("clear", "ConnReq")
  /\ FollowerProgram[10] = Do("clear", "Sync")
  /\ FollowerProgram[11] = Do("clear", "FollowUp")
  /\ FollowerProgram[12] = Do("clear", "DelayResp")
BY DEF FollowerProgram

LEMMA LeaderStep ==
  ASSUME NEW m, NEW l, NEW n, NEW f, NEW c \in Cells, NEW d,
         SampleOK(m, l, n, f, c), Effect(LeaderProgram[l], m, c, d)
  PROVE  IF l < 11 THEN SampleOK(m, l + 1, n, f, d) ELSE SampleOK(m + 1, 1, n, f, d)
<1>0. /\ m \in Nat /\ n \in Nat /\ l \in 1..11 /\ f \in 1..12
      /\ c \in [Msg -> SUBSET (Side \X Nat)]
  BY DEF SampleOK, InStep, Cells
<1>e. \A msg, k : Lineage(msg, k) # {}
  BY LineageNotEmpty
<1>1. CASE l = 1
  <2>1. d = [c EXCEPT !["ConnReq"] = Lineage("ConnReq", m + 1)]
    BY <1>1, LeaderOps DEF Effect, Do
  <2>2. InStep(m, 2, n, f)
    BY <1>0, <1>e, <1>1, <2>1 DEF SampleOK, InStep, SlotsOK, Lost, Times, Content
  <2>3. SlotsOK(m, 2, n, f, d)
    BY <1>0, <1>e, <1>1, <2>1 DEF SampleOK, InStep, SlotsOK, Lost, Times, Content, Msg,
       LeaderBuffer, FollowerBuffer
  <2>q. QED
    BY <1>1, <2>2, <2>3 DEF SampleOK
<1>2. CASE l = 2
  <2>1. c["ConnResp"] # {} /\ d = c
    BY <1>2, LeaderOps DEF Effect, Do
  <2>2. InStep(m, 3, n, f)
    BY <1>0, <1>e, <1>2, <2>1 DEF SampleOK, InStep, SlotsOK, Lost, Times, Content
  <2>3. SlotsOK(m, 3, n, f, d)
    BY <1>0, <1>e, <1>2, <2>1 DEF SampleOK, InStep, SlotsOK, Lost, Times, Content, Msg,
       LeaderBuffer, FollowerBuffer
  <2>q. QED
    BY <1>2, <2>2, <2>3 DEF SampleOK
<1>3. CASE l = 3
  <2>1. d = [c EXCEPT !["Sync"] = Lineage("Sync", m + 1)]
    BY <1>3, LeaderOps DEF Effect, Do
  <2>2. InStep(m, 4, n, f)
    BY <1>0, <1>e, <1>3, <2>1 DEF SampleOK, InStep, SlotsOK, Lost, Times, Content
  <2>3. SlotsOK(m, 4, n, f, d)
    BY <1>0, <1>e, <1>3, <2>1 DEF SampleOK, InStep, SlotsOK, Lost, Times, Content, Msg,
       LeaderBuffer, FollowerBuffer
  <2>q. QED
    BY <1>3, <2>2, <2>3 DEF SampleOK
<1>4. CASE l = 4
  <2>1. d = [c EXCEPT !["FollowUp"] = Lineage("FollowUp", m + 1)]
    BY <1>4, LeaderOps DEF Effect, Do
  <2>2. InStep(m, 5, n, f)
    BY <1>0, <1>e, <1>4, <2>1 DEF SampleOK, InStep, SlotsOK, Lost, Times, Content
  <2>3. SlotsOK(m, 5, n, f, d)
    BY <1>0, <1>e, <1>4, <2>1 DEF SampleOK, InStep, SlotsOK, Lost, Times, Content, Msg,
       LeaderBuffer, FollowerBuffer
  <2>q. QED
    BY <1>4, <2>2, <2>3 DEF SampleOK
<1>5. CASE l = 5
  <2>1. c["DelayReq"] # {} /\ d = c
    BY <1>5, LeaderOps DEF Effect, Do
  <2>2. InStep(m, 6, n, f)
    BY <1>0, <1>e, <1>5, <2>1 DEF SampleOK, InStep, SlotsOK, Lost, Times, Content
  <2>3. SlotsOK(m, 6, n, f, d)
    BY <1>0, <1>e, <1>5, <2>1 DEF SampleOK, InStep, SlotsOK, Lost, Times, Content, Msg,
       LeaderBuffer, FollowerBuffer
  <2>q. QED
    BY <1>5, <2>2, <2>3 DEF SampleOK
<1>6. CASE l = 6
  <2>1. d = [c EXCEPT !["DelayResp"] = Lineage("DelayResp", m + 1)]
    BY <1>6, LeaderOps DEF Effect, Do
  <2>2. InStep(m, 7, n, f)
    BY <1>0, <1>e, <1>6, <2>1 DEF SampleOK, InStep, SlotsOK, Lost, Times, Content
  <2>3. SlotsOK(m, 7, n, f, d)
    BY <1>0, <1>e, <1>6, <2>1 DEF SampleOK, InStep, SlotsOK, Lost, Times, Content, Msg,
       LeaderBuffer, FollowerBuffer
  <2>q. QED
    BY <1>6, <2>2, <2>3 DEF SampleOK
<1>7. CASE l = 7
  <2>1. c["Report"] # {} /\ d = c
    BY <1>7, LeaderOps DEF Effect, Do
  <2>2. InStep(m, 8, n, f)
    BY <1>0, <1>e, <1>7, <2>1 DEF SampleOK, InStep, SlotsOK, Lost, Times, Content
  <2>3. SlotsOK(m, 8, n, f, d)
    BY <1>0, <1>e, <1>7, <2>1 DEF SampleOK, InStep, SlotsOK, Lost, Times, Content, Msg,
       LeaderBuffer, FollowerBuffer
  <2>q. QED
    BY <1>7, <2>2, <2>3 DEF SampleOK
<1>8. CASE l = 8
  <2>1. d = c
    BY <1>8, LeaderOps DEF Effect, Do
  <2>2. InStep(m, 9, n, f)
    BY <1>0, <1>e, <1>8, <2>1 DEF SampleOK, InStep, SlotsOK, Lost, Times, Content
  <2>3. SlotsOK(m, 9, n, f, d)
    BY <1>0, <1>e, <1>8, <2>1 DEF SampleOK, InStep, SlotsOK, Lost, Times, Content, Msg,
       LeaderBuffer, FollowerBuffer
  <2>q. QED
    BY <1>8, <2>2, <2>3 DEF SampleOK
<1>9. CASE l = 9
  <2>1. d = [c EXCEPT !["ConnResp"] = {}]
    BY <1>9, LeaderOps DEF Effect, Do
  <2>2. InStep(m, 10, n, f)
    BY <1>0, <1>e, <1>9, <2>1 DEF SampleOK, InStep, SlotsOK, Lost, Times, Content
  <2>3. SlotsOK(m, 10, n, f, d)
    BY <1>0, <1>e, <1>9, <2>1 DEF SampleOK, InStep, SlotsOK, Lost, Times, Content, Msg,
       LeaderBuffer, FollowerBuffer
  <2>q. QED
    BY <1>9, <2>2, <2>3 DEF SampleOK
<1>10. CASE l = 10
  <2>1. d = [c EXCEPT !["DelayReq"] = {}]
    BY <1>10, LeaderOps DEF Effect, Do
  <2>2. InStep(m, 11, n, f)
    BY <1>0, <1>e, <1>10, <2>1 DEF SampleOK, InStep, SlotsOK, Lost, Times, Content
  <2>3. SlotsOK(m, 11, n, f, d)
    BY <1>0, <1>e, <1>10, <2>1 DEF SampleOK, InStep, SlotsOK, Lost, Times, Content, Msg,
       LeaderBuffer, FollowerBuffer
  <2>q. QED
    BY <1>10, <2>2, <2>3 DEF SampleOK
<1>11. CASE l = 11
  <2>1. d = [c EXCEPT !["Report"] = {}]
    BY <1>11, LeaderOps DEF Effect, Do
  <2>2. InStep(m + 1, 1, n, f)
    BY <1>0, <1>e, <1>11, <2>1 DEF SampleOK, InStep, SlotsOK, Lost, Times, Content
  <2>3. SlotsOK(m + 1, 1, n, f, d)
    BY <1>0, <1>e, <1>11, <2>1 DEF SampleOK, InStep, SlotsOK, Lost, Times, Content, Msg,
       LeaderBuffer, FollowerBuffer
  <2>q. QED
    BY <1>11, <2>2, <2>3 DEF SampleOK
<1>q. QED
  BY <1>0, <1>1, <1>2, <1>3, <1>4, <1>5, <1>6, <1>7, <1>8, <1>9, <1>10, <1>11

LEMMA FollowerStep ==
  ASSUME NEW m, NEW l, NEW n, NEW f, NEW c \in Cells, NEW d,
         SampleOK(m, l, n, f, c), Effect(FollowerProgram[f], n, c, d)
  PROVE  IF f < 12 THEN SampleOK(m, l, n, f + 1, d) ELSE SampleOK(m, l, n + 1, 1, d)
<1>0. /\ m \in Nat /\ n \in Nat /\ l \in 1..11 /\ f \in 1..12
      /\ c \in [Msg -> SUBSET (Side \X Nat)]
  BY DEF SampleOK, InStep, Cells
<1>e. \A msg, k : Lineage(msg, k) # {}
  BY LineageNotEmpty
<1>1. CASE f = 1
  <2>1. c["ConnReq"] # {} /\ d = c
    BY <1>1, FollowerOps DEF Effect, Do
  <2>2. InStep(m, l, n, 2)
    BY <1>0, <1>e, <1>1, <2>1 DEF SampleOK, InStep, SlotsOK, Lost, Times, Content
  <2>3. SlotsOK(m, l, n, 2, d)
    BY <1>0, <1>e, <1>1, <2>1 DEF SampleOK, InStep, SlotsOK, Lost, Times, Content, Msg,
       LeaderBuffer, FollowerBuffer
  <2>q. QED
    BY <1>1, <2>2, <2>3 DEF SampleOK
<1>2. CASE f = 2
  <2>1. d = [c EXCEPT !["ConnResp"] = Lineage("ConnResp", n + 1)]
    BY <1>2, FollowerOps DEF Effect, Do
  <2>2. InStep(m, l, n, 3)
    BY <1>0, <1>e, <1>2, <2>1 DEF SampleOK, InStep, SlotsOK, Lost, Times, Content
  <2>3. SlotsOK(m, l, n, 3, d)
    BY <1>0, <1>e, <1>2, <2>1 DEF SampleOK, InStep, SlotsOK, Lost, Times, Content, Msg,
       LeaderBuffer, FollowerBuffer
  <2>q. QED
    BY <1>2, <2>2, <2>3 DEF SampleOK
<1>3. CASE f = 3
  <2>1. c["Sync"] # {} /\ d = c
    BY <1>3, FollowerOps DEF Effect, Do
  <2>2. InStep(m, l, n, 4)
    BY <1>0, <1>e, <1>3, <2>1 DEF SampleOK, InStep, SlotsOK, Lost, Times, Content
  <2>3. SlotsOK(m, l, n, 4, d)
    BY <1>0, <1>e, <1>3, <2>1 DEF SampleOK, InStep, SlotsOK, Lost, Times, Content, Msg,
       LeaderBuffer, FollowerBuffer
  <2>q. QED
    BY <1>3, <2>2, <2>3 DEF SampleOK
<1>4. CASE f = 4
  <2>1. c["FollowUp"] # {} /\ d = c
    BY <1>4, FollowerOps DEF Effect, Do
  <2>2. InStep(m, l, n, 5)
    BY <1>0, <1>e, <1>4, <2>1 DEF SampleOK, InStep, SlotsOK, Lost, Times, Content
  <2>3. SlotsOK(m, l, n, 5, d)
    BY <1>0, <1>e, <1>4, <2>1 DEF SampleOK, InStep, SlotsOK, Lost, Times, Content, Msg,
       LeaderBuffer, FollowerBuffer
  <2>q. QED
    BY <1>4, <2>2, <2>3 DEF SampleOK
<1>5. CASE f = 5
  <2>1. d = [c EXCEPT !["DelayReq"] = Lineage("DelayReq", n + 1)]
    BY <1>5, FollowerOps DEF Effect, Do
  <2>2. InStep(m, l, n, 6)
    BY <1>0, <1>e, <1>5, <2>1 DEF SampleOK, InStep, SlotsOK, Lost, Times, Content
  <2>3. SlotsOK(m, l, n, 6, d)
    BY <1>0, <1>e, <1>5, <2>1 DEF SampleOK, InStep, SlotsOK, Lost, Times, Content, Msg,
       LeaderBuffer, FollowerBuffer
  <2>q. QED
    BY <1>5, <2>2, <2>3 DEF SampleOK
<1>6. CASE f = 6
  <2>1. c["DelayResp"] # {} /\ d = c
    BY <1>6, FollowerOps DEF Effect, Do
  <2>2. InStep(m, l, n, 7)
    BY <1>0, <1>e, <1>6, <2>1 DEF SampleOK, InStep, SlotsOK, Lost, Times, Content
  <2>3. SlotsOK(m, l, n, 7, d)
    BY <1>0, <1>e, <1>6, <2>1 DEF SampleOK, InStep, SlotsOK, Lost, Times, Content, Msg,
       LeaderBuffer, FollowerBuffer
  <2>q. QED
    BY <1>6, <2>2, <2>3 DEF SampleOK
<1>7. CASE f = 7
  <2>1. d = [c EXCEPT !["Report"] = Lineage("Report", n + 1)]
    BY <1>7, FollowerOps DEF Effect, Do
  <2>2. InStep(m, l, n, 8)
    BY <1>0, <1>e, <1>7, <2>1 DEF SampleOK, InStep, SlotsOK, Lost, Times, Content
  <2>3. SlotsOK(m, l, n, 8, d)
    BY <1>0, <1>e, <1>7, <2>1 DEF SampleOK, InStep, SlotsOK, Lost, Times, Content, Msg,
       LeaderBuffer, FollowerBuffer
  <2>q. QED
    BY <1>7, <2>2, <2>3 DEF SampleOK
<1>8. CASE f = 8
  <2>1. d = c
    BY <1>8, FollowerOps DEF Effect, Do
  <2>2. InStep(m, l, n, 9)
    BY <1>0, <1>e, <1>8, <2>1 DEF SampleOK, InStep, SlotsOK, Lost, Times, Content
  <2>3. SlotsOK(m, l, n, 9, d)
    BY <1>0, <1>e, <1>8, <2>1 DEF SampleOK, InStep, SlotsOK, Lost, Times, Content, Msg,
       LeaderBuffer, FollowerBuffer
  <2>q. QED
    BY <1>8, <2>2, <2>3 DEF SampleOK
<1>9. CASE f = 9
  <2>1. d = [c EXCEPT !["ConnReq"] = {}]
    BY <1>9, FollowerOps DEF Effect, Do
  <2>2. InStep(m, l, n, 10)
    BY <1>0, <1>e, <1>9, <2>1 DEF SampleOK, InStep, SlotsOK, Lost, Times, Content
  <2>3. SlotsOK(m, l, n, 10, d)
    BY <1>0, <1>e, <1>9, <2>1 DEF SampleOK, InStep, SlotsOK, Lost, Times, Content, Msg,
       LeaderBuffer, FollowerBuffer
  <2>q. QED
    BY <1>9, <2>2, <2>3 DEF SampleOK
<1>10. CASE f = 10
  <2>1. d = [c EXCEPT !["Sync"] = {}]
    BY <1>10, FollowerOps DEF Effect, Do
  <2>2. InStep(m, l, n, 11)
    BY <1>0, <1>e, <1>10, <2>1 DEF SampleOK, InStep, SlotsOK, Lost, Times, Content
  <2>3. SlotsOK(m, l, n, 11, d)
    BY <1>0, <1>e, <1>10, <2>1 DEF SampleOK, InStep, SlotsOK, Lost, Times, Content, Msg,
       LeaderBuffer, FollowerBuffer
  <2>q. QED
    BY <1>10, <2>2, <2>3 DEF SampleOK
<1>11. CASE f = 11
  <2>1. d = [c EXCEPT !["FollowUp"] = {}]
    BY <1>11, FollowerOps DEF Effect, Do
  <2>2. InStep(m, l, n, 12)
    BY <1>0, <1>e, <1>11, <2>1 DEF SampleOK, InStep, SlotsOK, Lost, Times, Content
  <2>3. SlotsOK(m, l, n, 12, d)
    BY <1>0, <1>e, <1>11, <2>1 DEF SampleOK, InStep, SlotsOK, Lost, Times, Content, Msg,
       LeaderBuffer, FollowerBuffer
  <2>q. QED
    BY <1>11, <2>2, <2>3 DEF SampleOK
<1>12. CASE f = 12
  <2>1. d = [c EXCEPT !["DelayResp"] = {}]
    BY <1>12, FollowerOps DEF Effect, Do
  <2>2. InStep(m, l, n + 1, 1)
    BY <1>0, <1>e, <1>12, <2>1 DEF SampleOK, InStep, SlotsOK, Lost, Times, Content
  <2>3. SlotsOK(m, l, n + 1, 1, d)
    BY <1>0, <1>e, <1>12, <2>1 DEF SampleOK, InStep, SlotsOK, Lost, Times, Content, Msg,
       LeaderBuffer, FollowerBuffer
  <2>q. QED
    BY <1>12, <2>2, <2>3 DEF SampleOK
<1>q. QED
  BY <1>0, <1>1, <1>2, <1>3, <1>4, <1>5, <1>6, <1>7, <1>8, <1>9, <1>10, <1>11, <1>12

-----------------------------------------------------------------------------
(***************************************************************************)
(* Where the sides are after a step.                                       *)
(***************************************************************************)
Other(side) == IF side = "leader" THEN "follower" ELSE "leader"

Steps(side) == IF side = "leader" THEN 11 ELSE 12

LEMMA ProgramSteps ==
  ASSUME NEW side \in Side
  PROVE  /\ Len(Program(side)) = Steps(side)
         /\ \A k \in 1..Steps(side) : Program(side)[k].msg \in Msg
         /\ Program(side)[Steps(side)].op # "await"
<1>1. CASE side = "leader"
  BY <1>1, LeaderOps DEF Program, Steps, Do, Msg, LeaderBuffer, FollowerBuffer
<1>2. CASE side = "follower"
  BY <1>2, FollowerOps DEF Program, Steps, Do, Msg, LeaderBuffer, FollowerBuffer
<1>q. QED
  BY <1>1, <1>2 DEF Side

TypesOK == TypeOK /\ PlacesOK

LEMMA Launched ==
  ASSUME TypesOK, NEW side \in Side, Running(side)
  PROVE  /\ launch[side] \in Launch
         /\ pc[side] \in 1..Steps(side)
         /\ Doing(side).msg \in Msg
BY ProgramSteps DEF TypesOK, TypeOK, PlacesOK, Running, Launch, Steps, Side, Doing

\* A stamp is made of launches, and so is what is published.
LEMMA StampType ==
  ASSUME TypesOK, NEW side \in Side, Running(side), NEW msg \in Msg
  PROVE  Stamp(side, msg) \in SUBSET Reading /\ Result(side) \in SUBSET Reading
<1>1. \A msg2 \in Msg : DerivedFrom(msg2) \subseteq Msg
  BY DEF DerivedFrom, Msg, LeaderBuffer, FollowerBuffer
<1>2. \A msg2 \in Msg : Stamp(side, msg2) \in SUBSET Reading
  <2>1. <<side, launch[side]>> \in Reading
    BY Launched DEF Reading
  <2>2. \A msg2 \in Msg : seen[side][msg2] \in SUBSET Reading
    BY DEF TypesOK, TypeOK
  <2>q. QED
    BY <1>1, <2>1, <2>2 DEF Stamp
<1>3. "Report" \in Msg
  BY DEF Msg, LeaderBuffer
<1>q. QED
  BY <1>2, <1>3 DEF Result, TypesOK, TypeOK

\* The next place of a side: the next step, the next sample or none.
LEMMA AdvanceType ==
  ASSUME TypesOK, NEW side \in Side, Running(side), Advance(side) \/ SyncLocal(side)
  PROVE  /\ pc' \in [Side -> 0..12] /\ pc'["leader"] <= 11
         /\ sample' \in [Side -> Sample]
         /\ seen' \in [Side -> [Msg -> SUBSET Reading]]
<1>1. NothingSeen \in [Msg -> SUBSET Reading]
  BY DEF NothingSeen
<1>2. CASE SyncLocal(side)
  BY <1>1, <1>2, PtpAssumption
     DEF SyncLocal, MoreSamples, TypesOK, TypeOK, PlacesOK, Side, Sample
<1>3. CASE Advance(side) /\ pc[side] < Len(Program(side))
  <2>0. Steps(side) \in {11, 12}
    BY DEF Steps
  <2>1. pc[side] + 1 \in 0..12 /\ pc[side] + 1 <= Steps(side)
    BY <1>3, <2>0, ProgramSteps, Launched
  <2>2. pc' = [pc EXCEPT ![side] = @ + 1] /\ sample' = sample /\ seen' = seen
    BY <1>3 DEF Advance
  <2>3. pc' \in [Side -> 0..12]
    BY <2>1, <2>2 DEF TypesOK, TypeOK
  <2>4. pc'["leader"] <= 11
    BY <2>1, <2>2 DEF TypesOK, TypeOK, PlacesOK, Side, Steps
  <2>q. QED
    BY <2>2, <2>3, <2>4 DEF TypesOK, TypeOK
<1>q. QED
  BY <1>2, <1>3 DEF Advance

LEMMA TypeStep ==
  ASSUME TypesOK, [Next]_vars
  PROVE  TypesOK'
<1> USE DEF TypesOK
<1>u. CASE UNCHANGED vars
  BY <1>u DEF vars, TypeOK, PlacesOK, Running
<1>s. ASSUME NEW side \in Side, StartLaunch(side)
      PROVE  TypesOK'
  <2>1. 1 \in Sample /\ NothingSeen \in [Msg -> SUBSET Reading] /\ {} \in SUBSET Reading
    BY PtpAssumption DEF Sample, NothingSeen
  <2>2. TypeOK'
    BY <1>s, <2>1, PtpAssumption DEF StartLaunch, OffsetsAtLaunch, TypeOK
  <2>3. PlacesOK'
    BY <1>s DEF StartLaunch, TypeOK, PlacesOK, Running, Side
  <2>q. QED
    BY <2>2, <2>3
<1>p. ASSUME NEW side \in Side, ProbeStep(side)
      PROVE  TypesOK'
  <2>0. Running(side)
    BY <1>p DEF ProbeStep, Store, Await, GiveUp, Publish, Clear
  <2>l. launch' = launch
    BY <1>p DEF ProbeStep, Store, Await, GiveUp, Publish, Clear
  <2>1. /\ pc' \in [Side -> 0..12] /\ pc'["leader"] <= 11
        /\ sample' \in [Side -> Sample]
        /\ seen' \in [Side -> [Msg -> SUBSET Reading]]
    <3>1. CASE Await(side)
      <4>1. pc[side] < Steps(side)
        BY <2>0, <3>1, ProgramSteps, Launched DEF Await, Doing
      <4>2. Here(side)[Doing(side).msg] \in SUBSET Reading
        BY <2>0, Launched DEF Here, TypeOK
      <4>q. QED
        BY <2>0, <3>1, <4>1, <4>2, Launched DEF Await, TypeOK, PlacesOK, Side, Steps
    <3>2. CASE Advance(side) \/ SyncLocal(side)
      BY <2>0, <3>2, AdvanceType
    <3>q. QED
      BY <1>p, <3>1, <3>2 DEF ProbeStep, Store, GiveUp, Publish, Clear
  <2>2. slot' \in [Sample -> [Msg -> SUBSET Reading]]
    <3>1. Stamp(side, Doing(side).msg) \in SUBSET Reading
      BY <2>0, Launched, StampType
    <3>q. QED
      BY <1>p, <3>1 DEF ProbeStep, Store, Await, GiveUp, Publish, Clear, TypeOK
  <2>3. offset' \in [Side -> SUBSET Reading]
    BY <1>p, <2>0, StampType, Launched
       DEF ProbeStep, Store, Await, GiveUp, Publish, Clear, TypeOK
  <2>4. missed' \subseteq Sample
    BY <1>p DEF ProbeStep, Store, Await, GiveUp, Publish, Clear, TypeOK
  <2>5. \A s \in Side : Running(s)' => Running(s)
    BY <1>p, <2>0, <2>1 DEF ProbeStep, Store, Await, GiveUp, Publish, Clear, Advance,
       SyncLocal, Running, TypeOK
  <2>q. QED
    BY <2>l, <2>1, <2>2, <2>3, <2>4, <2>5 DEF TypeOK, PlacesOK
<1>q. QED
  BY <1>u, <1>s, <1>p DEF Next

(***************************************************************************)
(* Which visit a side is in changes in the sample it is at only.           *)
(***************************************************************************)
LEMMA OtherSide ==
  ASSUME TypesOK, NEW side \in Side, StartLaunch(side) \/ ProbeStep(side), NEW s \in Sample
  PROVE  /\ Visits(Other(side), s)' = Visits(Other(side), s)
         /\ Place(Other(side), s)' = Place(Other(side), s)
<1>1. /\ Other(side) \in Side /\ Other(side) # side
      /\ launch'[Other(side)] = launch[Other(side)]
      /\ pc'[Other(side)] = pc[Other(side)]
      /\ sample'[Other(side)] = sample[Other(side)]
  BY DEF StartLaunch, ProbeStep, Store, Await, GiveUp, Publish, Clear, Advance, SyncLocal,
     Other, Side, TypesOK, TypeOK
<1>q. QED
  BY <1>1 DEF Visits, Place, Running

LEMMA StartKeepsPlaces ==
  ASSUME TypesOK, NEW side \in Side, StartLaunch(side), NEW s \in Sample
  PROVE  Visits(side, s)' = Visits(side, s) /\ Place(side, s)' = Place(side, s)
<1>1. /\ launch'[side] = launch[side] + 1 /\ pc'[side] = 1 /\ sample'[side] = 1
      /\ pc[side] = 0 /\ launch[side] \in Nat /\ s \in Nat \ {0}
  BY DEF StartLaunch, Running, TypesOK, TypeOK, Sample
<1>q. QED
  BY <1>1 DEF Visits, Place, Running

LEMMA LeavingKeepsOthers ==
  ASSUME TypesOK, NEW side \in Side, Running(side), SyncLocal(side), launch' = launch,
         NEW s \in Sample, s # sample[side]
  PROVE  Visits(side, s)' = Visits(side, s) /\ Place(side, s)' = Place(side, s)
<1>1. /\ launch[side] \in Nat /\ s \in 1..Samples /\ sample[side] \in 1..Samples
      /\ Samples \in Nat /\ pc[side] # 0
  BY PtpAssumption DEF Running, TypesOK, TypeOK, Sample
<1>2. CASE MoreSamples(side)
  <2>1. sample'[side] = sample[side] + 1 /\ pc'[side] = 1
    BY <1>2 DEF SyncLocal, TypesOK, TypeOK
  <2>q. QED
    BY <1>1, <2>1 DEF Visits, Place, Running
<1>3. CASE ~MoreSamples(side)
  <2>1. sample[side] = Samples
    BY <1>1, <1>3 DEF MoreSamples
  <2>2. sample' = sample /\ pc'[side] = 0
    BY <1>3 DEF SyncLocal, TypesOK, TypeOK
  <2>q. QED
    BY <1>1, <2>1, <2>2 DEF Visits, Place, Running
<1>q. QED
  BY <1>2, <1>3

LEMMA LeavingFinishes ==
  ASSUME TypesOK, NEW side \in Side, Running(side), SyncLocal(side), launch' = launch,
         NEW s \in Sample, s = sample[side]
  PROVE  Visits(side, s)' = Visits(side, s) + 1 /\ Place(side, s)' = 1
<1>1. /\ launch[side] \in Nat /\ sample[side] \in Nat /\ pc[side] # 0
  BY PtpAssumption DEF Running, TypesOK, TypeOK, Sample
<1>2. sample'[side] = sample[side] + 1 \/ pc'[side] = 0
  BY DEF SyncLocal, TypesOK, TypeOK
<1>q. QED
  BY <1>1, <1>2 DEF Visits, Place, Running

LEMMA NextStepKeepsVisit ==
  ASSUME TypesOK, NEW side \in Side, Running(side), NEW s \in Sample,
         pc' = [pc EXCEPT ![side] = @ + 1], sample' = sample, launch' = launch
  PROVE  /\ Visits(side, s)' = Visits(side, s)
         /\ s # sample[side] => Place(side, s)' = Place(side, s)
         /\ s = sample[side] => Place(side, s)' = Place(side, s) + 1
<1>0. pc[side] # 0
  BY DEF Running
<1>1. pc[side] \in 0..12
  BY DEF TypesOK, TypeOK
<1>2. pc'[side] = pc[side] + 1
  BY DEF TypesOK, TypeOK
<1>3. pc'[side] # 0
  BY <1>1, <1>2
<1>q. QED
  BY <1>0, <1>1, <1>2, <1>3 DEF Visits, Place, Running

-----------------------------------------------------------------------------
(***************************************************************************)
(* In a clean sample a side stores and publishes stamps of its own launch, *)
(* and it has read no others.                                              *)
(***************************************************************************)
Clean(side) == Running(side) /\ sample[side] \notin missed

LEMMA CleanStamp ==
  ASSUME TypesOK, SeenOK, NEW side \in Side, Clean(side), Doing(side).op = "store"
  PROVE  Stamp(side, Doing(side).msg) = Lineage(Doing(side).msg, launch[side])
<1>1. CASE side = "leader"
  <2>1. /\ Doing(side).msg \in {"ConnReq", "Sync", "FollowUp", "DelayResp"}
        /\ Doing(side).msg = "DelayResp" => pc[side] = 6
    BY <1>1, Launched, LeaderOps DEF Clean, Doing, Program, Do, Steps
  <2>2. CASE Doing(side).msg = "DelayResp"
    <3>1. DerivedFrom(Doing(side).msg) = {"DelayReq"}
      BY <2>2 DEF DerivedFrom
    <3>2. seen[side]["DelayReq"] = Lineage("DelayReq", launch[side])
      BY <1>1, <2>1, <2>2 DEF SeenOK, Has, Clean
    <3>q. QED
      BY <1>1, <2>2, <3>1, <3>2, LineageOf DEF Stamp
  <2>3. CASE Doing(side).msg # "DelayResp"
    <3>1. DerivedFrom(Doing(side).msg) = {}
      BY <2>1, <2>3 DEF DerivedFrom
    <3>q. QED
      BY <1>1, <2>1, <2>3, <3>1, LineageOf DEF Stamp
  <2>q. QED
    BY <2>2, <2>3
<1>2. CASE side = "follower"
  <2>1. /\ Doing(side).msg \in {"ConnResp", "DelayReq", "Report"}
        /\ Doing(side).msg = "Report" => pc[side] = 7
    BY <1>2, Launched, FollowerOps DEF Clean, Doing, Program, Do, Steps
  <2>2. CASE Doing(side).msg = "Report"
    <3>1. DerivedFrom(Doing(side).msg) = {"Sync", "FollowUp", "DelayResp"}
      BY <2>2 DEF DerivedFrom
    <3>2. \A d \in {"Sync", "FollowUp", "DelayResp"} : seen[side][d] = Lineage(d, launch[side])
      BY <1>2, <2>1, <2>2 DEF SeenOK, Has, Clean
    <3>q. QED
      BY <1>2, <2>2, <3>1, <3>2, LineageOf DEF Stamp
  <2>3. CASE Doing(side).msg # "Report"
    <3>1. DerivedFrom(Doing(side).msg) = {}
      BY <2>1, <2>3 DEF DerivedFrom
    <3>q. QED
      BY <1>2, <2>1, <2>3, <3>1, LineageOf DEF Stamp
  <2>q. QED
    BY <2>2, <2>3
<1>q. QED
  BY <1>1, <1>2 DEF Side

LEMMA CleanResult ==
  ASSUME TypesOK, SeenOK, NEW side \in Side, Clean(side), Doing(side).op = "publish"
  PROVE  Result(side) = Side \X {launch[side]}
<1>1. CASE side = "leader"
  <2>1. pc[side] = 8
    BY <1>1, Launched, LeaderOps DEF Clean, Doing, Program, Do, Steps
  <2>q. QED
    BY <1>1, <2>1, LineageOf DEF Result, SeenOK, Has, Clean
<1>2. CASE side = "follower"
  <2>1. pc[side] = 8
    BY <1>2, Launched, FollowerOps DEF Clean, Doing, Program, Do, Steps
  <2>2. \A d \in {"Sync", "FollowUp", "DelayResp"} : seen[side][d] = Lineage(d, launch[side])
    BY <1>2, <2>1 DEF SeenOK, Has, Clean
  <2>3. DerivedFrom("Report") = {"Sync", "FollowUp", "DelayResp"}
    BY DEF DerivedFrom
  <2>q. QED
    BY <1>2, <2>2, <2>3, LineageOf DEF Result, Stamp
<1>q. QED
  BY <1>1, <1>2 DEF Side

LEMMA CleanRead ==
  ASSUME TypesOK, SamplesOK, NEW side \in Side, Clean(side), Await(side)
  PROVE  Here(side)[Doing(side).msg] = Lineage(Doing(side).msg, launch[side]) \/ Doing(side).msg = "ConnReq"
<1> DEFINE s == sample[side]
           m == Visits("leader", s)
           l == Place("leader", s)
           n == Visits("follower", s)
           f == Place("follower", s)
<1>1. s \in Sample \ missed /\ launch[side] \in Nat /\ sample[side] <= s
  BY PtpAssumption DEF TypesOK, TypeOK, Clean, Sample
<1>2. SampleOK(m, l, n, f, slot[s])
  BY <1>1 DEF SamplesOK
<1>3. slot[s][Doing(side).msg] # {} /\ Doing(side).op = "await"
  BY DEF Await, Here
<1>4. CASE side = "leader"
  <2>1. m = launch[side] - 1 /\ l = pc[side]
    BY <1>1, <1>4 DEF Visits, Place, Clean
  <2>2. <<pc[side], Doing(side).msg>> \in {<<2, "ConnResp">>, <<5, "DelayReq">>, <<7, "Report">>}
    BY <1>3, <1>4, Launched, LeaderOps DEF Clean, Doing, Program, Do, Steps
  <2>3. Content("ConnResp", Times(n, f, 2), Times(m, l, 9)) # {} /\ l = 2 => Times(n, f, 2) = m + 1
    BY <1>2 DEF SampleOK, InStep, Content, Times
  <2>4. Content("DelayReq", Times(n, f, 5), Times(m, l, 10)) # {} /\ l = 5 => Times(n, f, 5) = m + 1
    BY <1>2 DEF SampleOK, InStep, Content, Times
  <2>5. Content("Report", Times(n, f, 7), Times(m, l, 11)) # {} /\ l = 7 => Times(n, f, 7) = m + 1
    BY <1>2 DEF SampleOK, InStep, Content, Times
  <2>6. /\ slot[s]["ConnResp"] = Content("ConnResp", Times(n, f, 2), Times(m, l, 9))
        /\ slot[s]["DelayReq"] = Content("DelayReq", Times(n, f, 5), Times(m, l, 10))
        /\ slot[s]["Report"] = Content("Report", Times(n, f, 7), Times(m, l, 11))
    BY <1>2 DEF SampleOK, SlotsOK
  <2>7. m + 1 = launch[side]
    BY <1>1, <2>1
  <2>q. QED
    BY <1>3, <2>1, <2>2, <2>3, <2>4, <2>5, <2>6, <2>7 DEF Content, Here
<1>5. CASE side = "follower"
  <2>1. n = launch[side] - 1 /\ f = pc[side]
    BY <1>1, <1>5 DEF Visits, Place, Clean
  <2>2. <<pc[side], Doing(side).msg>> \in
          {<<1, "ConnReq">>, <<3, "Sync">>, <<4, "FollowUp">>, <<6, "DelayResp">>}
    BY <1>3, <1>5, Launched, FollowerOps DEF Clean, Doing, Program, Do, Steps
  <2>3. Content("Sync", Times(m, l, 3), Times(n, f, 10)) # {} /\ f = 3 => Times(m, l, 3) = n + 1
    BY <1>2 DEF SampleOK, InStep, Content, Times
  <2>4. Content("FollowUp", Times(m, l, 4), Times(n, f, 11)) # {} /\ f = 4 => Times(m, l, 4) = n + 1
    BY <1>2 DEF SampleOK, InStep, Content, Times
  <2>5. Content("DelayResp", Times(m, l, 6), Times(n, f, 12)) # {} /\ f = 6 => Times(m, l, 6) = n + 1
    BY <1>2 DEF SampleOK, InStep, Content, Times
  <2>6. /\ slot[s]["Sync"] = Content("Sync", Times(m, l, 3), Times(n, f, 10))
        /\ slot[s]["FollowUp"] = Content("FollowUp", Times(m, l, 4), Times(n, f, 11))
        /\ slot[s]["DelayResp"] = Content("DelayResp", Times(m, l, 6), Times(n, f, 12))
    BY <1>2 DEF SampleOK, SlotsOK
  <2>7. n + 1 = launch[side]
    BY <1>1, <2>1
  <2>q. QED
    BY <1>3, <2>1, <2>2, <2>3, <2>4, <2>5, <2>6, <2>7 DEF Content, Here
<1>q. QED
  BY <1>4, <1>5 DEF Side

-----------------------------------------------------------------------------
\* What a side that neither starts nor gives up does to a clean sample.
LEMMA CleanEffect ==
  ASSUME TypesOK, SeenOK, NEW side \in Side, Clean(side),
         Store(side) \/ Await(side) \/ Publish(side) \/ Clear(side)
  PROVE  Effect(Doing(side), launch[side] - 1, slot[sample[side]], slot'[sample[side]])
<1>1. (launch[side] - 1) + 1 = launch[side]
  BY DEF TypesOK, TypeOK
<1>2. sample[side] \in Sample
  BY DEF TypesOK, TypeOK
<1>3. CASE Store(side)
  <2>1. slot'[sample[side]] =
          [slot[sample[side]] EXCEPT ![Doing(side).msg] = Stamp(side, Doing(side).msg)]
    BY <1>2, <1>3 DEF Store, TypesOK, TypeOK
  <2>2. Stamp(side, Doing(side).msg) = Lineage(Doing(side).msg, launch[side])
    BY <1>3, CleanStamp DEF Store
  <2>q. QED
    BY <1>1, <1>3, <2>1, <2>2 DEF Effect, Store
<1>4. CASE Await(side)
  BY <1>4 DEF Await, Effect, Here
<1>5. CASE Publish(side)
  BY <1>5 DEF Publish, Effect
<1>6. CASE Clear(side)
  <2>1. slot'[sample[side]] = [slot[sample[side]] EXCEPT ![Doing(side).msg] = {}]
    BY <1>2, <1>6 DEF Clear, TypesOK, TypeOK
  <2>q. QED
    BY <1>6, <2>1 DEF Effect, Clear
<1>q. QED
  BY <1>3, <1>4, <1>5, <1>6

\* A step of one side leaves the slots of the samples it is not at alone.
LEMMA OtherSamples ==
  ASSUME TypesOK, NEW side \in Side, StartLaunch(side) \/ ProbeStep(side), NEW s \in Sample,
         StartLaunch(side) \/ s # sample[side]
  PROVE  /\ slot'[s] = slot[s]
         /\ Visits(side, s)' = Visits(side, s) /\ Place(side, s)' = Place(side, s)
<1>1. slot'[s] = slot[s]
  BY DEF StartLaunch, ProbeStep, Store, Await, GiveUp, Publish, Clear, TypesOK, TypeOK
<1>2. CASE StartLaunch(side)
  BY <1>1, <1>2, StartKeepsPlaces
<1>3. CASE ProbeStep(side) /\ s # sample[side]
  <2>1. Running(side) /\ launch' = launch
    BY <1>3 DEF ProbeStep, Store, Await, GiveUp, Publish, Clear
  <2>2. SyncLocal(side) \/ (pc' = [pc EXCEPT ![side] = @ + 1] /\ sample' = sample)
    BY <1>3 DEF ProbeStep, Store, Await, GiveUp, Publish, Clear, Advance
  <2>q. QED
    BY <1>1, <1>3, <2>1, <2>2, LeavingKeepsOthers, NextStepKeepsVisit
<1>q. QED
  BY <1>2, <1>3

LEMMA SamplesStep ==
  ASSUME TypesOK, SeenOK, SamplesOK, NEW side \in Side, StartLaunch(side) \/ ProbeStep(side)
  PROVE  SamplesOK'
<1> SUFFICES ASSUME NEW s \in Sample, s \notin missed'
             PROVE  SampleOK(Visits("leader", s)', Place("leader", s)',
                             Visits("follower", s)', Place("follower", s)', slot'[s])
  BY DEF SamplesOK
<1>0. missed \subseteq missed'
  BY DEF StartLaunch, ProbeStep, Store, Await, GiveUp, Publish, Clear
<1>1. SampleOK(Visits("leader", s), Place("leader", s),
               Visits("follower", s), Place("follower", s), slot[s])
  BY <1>0 DEF SamplesOK
<1>2. /\ Visits(Other(side), s)' = Visits(Other(side), s)
      /\ Place(Other(side), s)' = Place(Other(side), s)
  BY OtherSide
<1>3. CASE StartLaunch(side) \/ s # sample[side]
  <2>1. /\ slot'[s] = slot[s]
        /\ Visits(side, s)' = Visits(side, s) /\ Place(side, s)' = Place(side, s)
    BY <1>3, OtherSamples
  <2>q. QED
    BY <1>1, <1>2, <2>1 DEF Other, Side
<1>4. CASE ProbeStep(side) /\ s = sample[side]
  <2>1. Clean(side) /\ launch' = launch
    BY <1>0, <1>4 DEF ProbeStep, Store, Await, GiveUp, Publish, Clear, Clean
  <2>2. Store(side) \/ Await(side) \/ Publish(side) \/ Clear(side)
    BY <1>4 DEF ProbeStep, GiveUp
  <2>3. Visits(side, s) = launch[side] - 1 /\ Place(side, s) = pc[side]
    BY <1>4, <2>1 DEF Visits, Place, Clean, TypesOK, TypeOK, Sample
  <2>4. Effect(Program(side)[Place(side, s)], Visits(side, s), slot[s], slot'[s])
    BY <1>4, <2>1, <2>2, <2>3, CleanEffect DEF Doing
  <2>5. slot[s] \in Cells
    <3>1. Reading \subseteq Side \X Nat
      BY PtpAssumption DEF Reading, Launch
    <3>2. slot[s] \in [Msg -> SUBSET Reading]
      BY DEF TypesOK, TypeOK
    <3>q. QED
      BY <3>1, <3>2 DEF Cells
  <2>6. IF Place(side, s) < Steps(side)
        THEN Visits(side, s)' = Visits(side, s) /\ Place(side, s)' = Place(side, s) + 1
        ELSE Visits(side, s)' = Visits(side, s) + 1 /\ Place(side, s)' = 1
    <3>1. CASE pc[side] < Steps(side)
      <4>1. pc' = [pc EXCEPT ![side] = @ + 1] /\ sample' = sample
        BY <2>2, <3>1, ProgramSteps DEF Store, Await, Publish, Clear, Advance
      <4>q. QED
        BY <1>4, <2>1, <2>3, <3>1, <4>1, NextStepKeepsVisit DEF Clean
    <3>2. CASE ~(pc[side] < Steps(side))
      <4>1. pc[side] = Steps(side)
        BY <2>1, <3>2, Launched DEF Clean, Steps
      <4>2. ~Await(side)
        BY <4>1, ProgramSteps DEF Await, Doing
      <4>3. SyncLocal(side)
        BY <2>2, <3>2, <4>2, ProgramSteps DEF Store, Publish, Clear, Advance
      <4>q. QED
        BY <1>4, <2>1, <2>3, <3>2, <4>3, LeavingFinishes DEF Clean
    <3>q. QED
      BY <3>1, <3>2
  <2>7. CASE side = "leader"
    BY <1>1, <1>2, <2>4, <2>5, <2>6, <2>7, LeaderStep DEF Program, Steps, Other
  <2>8. CASE side = "follower"
    BY <1>1, <1>2, <2>4, <2>5, <2>6, <2>8, FollowerStep DEF Program, Steps, Other
  <2>q. QED
    BY <2>7, <2>8 DEF Side
<1>q. QED
  BY <1>3, <1>4

\* What a side knows changes in two ways: it reads a message, or it forgets.
LEMMA HasStep ==
  ASSUME TypesOK, SamplesOK, NEW side \in Side, StartLaunch(side) \/ ProbeStep(side),
         NEW who \in Side, NEW place \in 1..11, NEW msg \in Msg \ {"ConnReq"},
         Program(who)[place] = Do("await", msg), Has(who, place, msg)
  PROVE  Has(who, place, msg)'
<1> SUFFICES ASSUME pc'[who] # 0, sample'[who] \notin missed', pc'[who] > place
             PROVE  seen'[who][msg] = Lineage(msg, launch'[who])
  BY DEF Has, Running
<1>0. missed \subseteq missed'
  BY DEF StartLaunch, ProbeStep, Store, Await, GiveUp, Publish, Clear
<1>1. CASE who # side
  <2>1. /\ launch'[who] = launch[who] /\ pc'[who] = pc[who]
        /\ sample'[who] = sample[who] /\ seen'[who] = seen[who]
    BY <1>1 DEF StartLaunch, ProbeStep, Store, Await, GiveUp, Publish, Clear, Advance,
       SyncLocal, TypesOK, TypeOK
  <2>q. QED
    BY <1>0, <2>1 DEF Has, Running
<1>2. CASE who = side
  <2>1. ~StartLaunch(side)
    BY <1>2 DEF StartLaunch, TypesOK, TypeOK
  <2>2. ~SyncLocal(side)
    BY <1>2 DEF SyncLocal, TypesOK, TypeOK
  <2>3. /\ Running(side) /\ launch' = launch
        /\ Store(side) \/ Await(side) \/ Publish(side) \/ Clear(side)
    BY <2>1, <2>2 DEF ProbeStep, Store, Await, GiveUp, Publish, Clear
  <2>4. pc' = [pc EXCEPT ![side] = @ + 1] /\ sample' = sample
    BY <2>2, <2>3 DEF Store, Await, Publish, Clear, Advance
  <2>5. pc'[who] = pc[who] + 1 /\ pc[who] \in 0..12 /\ pc[who] >= place
    BY <1>2, <2>4 DEF TypesOK, TypeOK
  <2>6. Clean(side)
    BY <1>0, <1>2, <2>3, <2>4 DEF Clean
  <2>7. CASE Await(side)
    <3>1. seen'[who] = [seen[who] EXCEPT ![Doing(side).msg] = Here(side)[Doing(side).msg]]
      BY <1>2, <2>7 DEF Await, TypesOK, TypeOK
    <3>2. CASE Doing(side).msg = msg
      BY <1>2, <2>3, <2>6, <2>7, <3>1, <3>2, CleanRead DEF TypesOK, TypeOK
    <3>3. CASE Doing(side).msg # msg
      <4>1. pc[who] # place
        BY <1>2, <3>3 DEF Doing, Do
      <4>2. seen[who][msg] = Lineage(msg, launch[who])
        BY <1>2, <2>5, <2>6, <4>1 DEF Has, Clean
      <4>q. QED
        BY <2>3, <3>1, <3>3, <4>2 DEF TypesOK, TypeOK
    <3>q. QED
      BY <3>2, <3>3
  <2>8. CASE Store(side) \/ Publish(side) \/ Clear(side)
    <3>1. pc[who] # place
      BY <1>2, <2>8 DEF Store, Publish, Clear, Doing, Do
    <3>2. seen[who][msg] = Lineage(msg, launch[who])
      BY <1>2, <2>5, <2>6, <3>1 DEF Has, Clean
    <3>3. seen' = seen
      BY <2>2, <2>8 DEF Store, Publish, Clear, Advance
    <3>q. QED
      BY <2>3, <3>2, <3>3
  <2>q. QED
    BY <2>3, <2>7, <2>8
<1>q. QED
  BY <1>1, <1>2

LEMMA SeenStep ==
  ASSUME TypesOK, SamplesOK, SeenOK, NEW side \in Side, StartLaunch(side) \/ ProbeStep(side)
  PROVE  SeenOK'
<1>1. {"DelayReq", "Report", "Sync", "FollowUp", "DelayResp"} \subseteq Msg \ {"ConnReq"}
  BY DEF Msg, LeaderBuffer, FollowerBuffer
<1>2. "leader" \in Side /\ Program("leader") = LeaderProgram
  BY DEF Side, Program
<1>3. "follower" \in Side /\ Program("follower") = FollowerProgram
  BY DEF Side, Program
<1>4. Has("leader", 5, "DelayReq")' /\ Has("leader", 7, "Report")'
  BY <1>1, <1>2, LeaderOps, HasStep DEF SeenOK
<1>5. /\ Has("follower", 3, "Sync")' /\ Has("follower", 4, "FollowUp")'
      /\ Has("follower", 6, "DelayResp")'
  BY <1>1, <1>3, FollowerOps, HasStep DEF SeenOK
<1>q. QED
  BY <1>4, <1>5 DEF SeenOK

-----------------------------------------------------------------------------
LEMMA Initially == Init => IInv
<1> SUFFICES ASSUME Init PROVE IInv
  OBVIOUS
<1>1. 1 \in Sample /\ NothingSeen \in [Msg -> SUBSET Reading]
  BY PtpAssumption DEF Sample, NothingSeen
<1>2. TypeOK /\ PlacesOK
  BY <1>1, PtpAssumption DEF Init, TypeOK, PlacesOK, Running, Side
<1>3. SeenOK
  BY DEF Init, SeenOK, Has, Running, Side
<1>4. \A side \in Side, s \in Sample : Visits(side, s) = 0 /\ Place(side, s) = 1
  BY DEF Init, Visits, Place, Running
<1>5. \A s \in Sample : SampleOK(0, 1, 0, 1, slot[s])
  BY DEF Init, SampleOK, InStep, SlotsOK, Content, Times, NothingSeen, Msg, LeaderBuffer,
     FollowerBuffer
<1>6. SamplesOK
  BY <1>4, <1>5 DEF SamplesOK, Side
<1>q. QED
  BY <1>2, <1>3, <1>6 DEF IInv

LEMMA Step == IInv /\ [Next]_vars => IInv'
<1> SUFFICES ASSUME IInv, [Next]_vars PROVE IInv'
  OBVIOUS
<1>0. TypesOK /\ SeenOK /\ SamplesOK
  BY DEF IInv, TypesOK
<1>1. TypesOK'
  BY <1>0, TypeStep
<1>2. CASE UNCHANGED vars
  BY <1>0, <1>2 DEF vars, IInv, TypesOK, TypeOK, PlacesOK, SeenOK, Has, SamplesOK, Visits,
     Place, Running
<1>3. ASSUME NEW side \in Side, StartLaunch(side) \/ ProbeStep(side)
      PROVE  IInv'
  BY <1>0, <1>1, <1>3, SeenStep, SamplesStep DEF IInv, TypesOK
<1>q. QED
  BY <1>2, <1>3 DEF Next

(***************************************************************************)
(* In every state the two sides of a clean sample are in step, and its     *)
(* slots say which messages were stored and not yet cleared.               *)
(***************************************************************************)
THEOREM Inductive == Spec => []IInv
BY Initially, Step, PTL DEF Spec

LEMMA CleanFromInv == IInv => CleanSampleIsCurrent
<1> SUFFICES ASSUME IInv PROVE CleanSampleIsCurrent
  OBVIOUS
<1>0. TypesOK /\ SeenOK /\ SamplesOK
  BY DEF IInv, TypesOK
<1>1. ASSUME NEW side \in Side, AtPublish(side), sample[side] \notin missed
      PROVE  Result(side) = Side \X {launch[side]}
  BY <1>0, <1>1, CleanResult DEF AtPublish, Clean
<1>2. ASSUME \A side \in Side : ~Running(side), NEW s \in Sample \ missed, NEW msg \in Msg
      PROVE  slot[s][msg] = {}
  <2>1. Place("leader", s) = 1 /\ Place("follower", s) = 1
    BY <1>2 DEF Place, Side
  <2>2. SampleOK(Visits("leader", s), 1, Visits("follower", s), 1, slot[s])
    BY <1>0, <2>1 DEF SamplesOK
  <2>3. ASSUME NEW m, NEW n, NEW c, SampleOK(m, 1, n, 1, c)
        PROVE  c[msg] = {}
    BY <2>3 DEF SampleOK, InStep, SlotsOK, Lost, Content, Times, Msg, LeaderBuffer,
       FollowerBuffer
  <2>q. QED
    BY <2>2, <2>3
<1>q. QED
  BY <1>0, <1>1, <1>2 DEF CleanSampleIsCurrent, TypesOK

(***************************************************************************)
(* A sample nobody gave up on is calibrated from its own launch and leaves *)
(* clear slots: for any number of samples and launches.                    *)
(***************************************************************************)
THEOREM CleanSampleIsCurrentHolds == Spec => []CleanSampleIsCurrent
BY Inductive, CleanFromInv, PTL

-----------------------------------------------------------------------------
(***************************************************************************)
(* With a second sample the leader cannot begin its next visit while the   *)
(* follower finishes: they would be out of step in that sample.            *)
(***************************************************************************)
LEMMA NoLead ==
  ASSUME TypesOK, SamplesOK, Samples > 1, missed = {}, NEW s \in Sample,
         Running("leader"), sample["leader"] = s, Place("follower", s) >= 8
  PROVE  Visits("leader", s) # Visits("follower", s) + 1
<1> SUFFICES ASSUME Visits("leader", s) = Visits("follower", s) + 1
             PROVE  FALSE
  OBVIOUS
<1> DEFINE t == IF s > 1 THEN s - 1 ELSE 2
<1>1. s \in Nat \ {0} /\ t \in Sample /\ t # s /\ t \in Nat
  BY PtpAssumption DEF Sample
<1>2. Running("follower") /\ sample["follower"] = s
  BY DEF Place
<1>3. \A side \in Side : launch[side] \in Nat
  BY DEF TypesOK, TypeOK
<1>4. Visits("leader", t) = Visits("follower", t) + 1
  BY <1>1, <1>2, <1>3 DEF Visits, Side
<1>5. Place("leader", t) = 1 /\ Place("follower", t) = 1
  BY <1>1, <1>2 DEF Place
<1>6. InStep(Visits("leader", t), 1, Visits("follower", t), 1)
  BY <1>1, <1>5 DEF SamplesOK, SampleOK
<1>q. QED
  BY <1>4, <1>6 DEF InStep

LEMMA StoreIntoClear ==
  ASSUME TypesOK, SamplesOK, Samples > 1, missed = {}, NEW side \in Side, Store(side)
  PROVE  Here(side)[Doing(side).msg] = {}
<1> DEFINE s == sample[side]
           m == Visits("leader", s)
           l == Place("leader", s)
           n == Visits("follower", s)
           f == Place("follower", s)
<1>1. s \in Sample /\ Running(side) /\ Doing(side).op = "store" /\ Place(side, s) = pc[side]
  BY DEF Store, Place, TypesOK, TypeOK
<1>2. SampleOK(m, l, n, f, slot[s])
  BY <1>1 DEF SamplesOK
<1>3. CASE side = "leader"
  <2>1. <<l, Doing(side).msg>> \in
          {<<1, "ConnReq">>, <<3, "Sync">>, <<4, "FollowUp">>, <<6, "DelayResp">>}
    BY <1>1, <1>3, Launched, LeaderOps DEF Doing, Program, Do, Steps
  <2>2. l = 1 => slot[s]["ConnReq"] = {}
    <3>1. f >= 8 => m # n + 1
      BY <1>1, <1>3, NoLead
    <3>q. QED
      BY <1>2, <3>1 DEF SampleOK, InStep, SlotsOK, Lost, Content, Times
  <2>3. l = 3 => slot[s]["Sync"] = {}
    BY <1>2 DEF SampleOK, InStep, SlotsOK, Content, Times
  <2>4. l = 4 => slot[s]["FollowUp"] = {}
    BY <1>2 DEF SampleOK, InStep, SlotsOK, Content, Times
  <2>5. l = 6 => slot[s]["DelayResp"] = {}
    BY <1>2 DEF SampleOK, InStep, SlotsOK, Content, Times
  <2>q. QED
    BY <2>1, <2>2, <2>3, <2>4, <2>5 DEF Here
<1>4. CASE side = "follower"
  <2>1. <<f, Doing(side).msg>> \in {<<2, "ConnResp">>, <<5, "DelayReq">>, <<7, "Report">>}
    BY <1>1, <1>4, Launched, FollowerOps DEF Doing, Program, Do, Steps
  <2>2. f = 2 => slot[s]["ConnResp"] = {}
    BY <1>2 DEF SampleOK, InStep, SlotsOK, Content, Times
  <2>3. f = 5 => slot[s]["DelayReq"] = {}
    BY <1>2 DEF SampleOK, InStep, SlotsOK, Content, Times
  <2>4. f = 7 => slot[s]["Report"] = {}
    BY <1>2 DEF SampleOK, InStep, SlotsOK, Content, Times
  <2>q. QED
    BY <2>1, <2>2, <2>3, <2>4 DEF Here
<1>q. QED
  BY <1>3, <1>4 DEF Side

(***************************************************************************)
(* As long as nobody gives up no message is overwritten, for any number of *)
(* launches and two samples or more.                                       *)
(***************************************************************************)
THEOREM NoLostMessageHolds ==
  ASSUME Samples > 1
  PROVE  Spec => NoLostMessage
<1> DEFINE Kept == missed' = {} =>
             \A s \in Sample, m \in Msg :
               slot[s][m] # {} => slot'[s][m] \in {slot[s][m], {}}
<1>1. IInv /\ [Next]_vars => [Kept]_slot
  <2> SUFFICES ASSUME IInv, [Next]_vars, slot' # slot, missed' = {},
                      NEW s \in Sample, NEW m \in Msg, slot[s][m] # {}
               PROVE  slot'[s][m] \in {slot[s][m], {}}
    OBVIOUS
  <2>1. PICK side \in Side : Store(side) \/ Clear(side)
    BY DEF Next, vars, StartLaunch, ProbeStep, Await, GiveUp, Publish
  <2>2. TypesOK /\ SamplesOK /\ missed = {} /\ slot \in [Sample -> [Msg -> SUBSET Reading]]
    BY <2>1 DEF IInv, TypesOK, TypeOK, Store, Clear
  <2>3. CASE Store(side)
    <3>1. slot[sample[side]][Doing(side).msg] = {}
      BY <2>2, <2>3, StoreIntoClear DEF Here
    <3>q. QED
      BY <2>2, <2>3, <3>1 DEF Store
  <2>4. CASE Clear(side)
    BY <2>2, <2>4 DEF Clear
  <2>q. QED
    BY <2>1, <2>3, <2>4
<1>q. QED
  BY <1>1, Inductive, PTL DEF Spec, NoLostMessage
=============================================================================
