----------------------- MODULE ConfidentialFlowProofs -----------------------
(***************************************************************************)
(* Theorems about the test of confidential transfers, for any set of       *)
(* defects of the runtime, any lag of the confirmation and any number of   *)
(* dropped forks.                                                          *)
(***************************************************************************)
EXTENDS ConfidentialFlow, Integers, SequenceTheorems, TLAPS

-----------------------------------------------------------------------------
(* The line of steps.                                                      *)

Items ==
    [op : {"createMint", "createAccount", "configure", "mintTo", "deposit", "counter",
           "apply", "prove", "verify", "createRecord", "write", "verifyRecord",
           "transfer", "withdraw", "closeContext", "closeRecord", "audit",
           "readSender", "readRecipient"},
     part : {"setup", "transfer", "withdraw", "end"},
     on : {"mint", "sender", "recipient", "equality", "validity", "range", "record"},
     chunk : 0..2]

\* What a concatenation is made of.
Joined(u, s, t) ==
    /\ u \in Seq(Items)
    /\ Len(u) = Len(s) + Len(t)
    /\ \A i \in 1..Len(s) : u[i] = s[i]
    /\ \A i \in 1..Len(t) : u[Len(s) + i] = t[i]
    /\ Len(t) >= 1 => u[Len(s) + 1] = t[1]
    /\ Len(t) >= 2 => u[Len(s) + 2] = t[2]
    /\ Len(t) >= 3 => u[Len(s) + 3] = t[3]

\* The items of a concatenation, by their places.
LEMMA Join ==
    ASSUME NEW s \in Seq(Items), NEW t \in Seq(Items)
    PROVE  Joined(s \o t, s, t)
<1>1. /\ s \o t \in Seq(Items)
      /\ Len(s \o t) = Len(s) + Len(t)
      /\ \A i \in 1..(Len(s) + Len(t)) : (s \o t)[i] = IF i <= Len(s) THEN s[i] ELSE t[i - Len(s)]
  BY ConcatProperties
<1>2. Len(s) \in Nat /\ Len(t) \in Nat
  OBVIOUS
<1>3. /\ \A i \in 1..Len(s) : (s \o t)[i] = s[i]
      /\ \A i \in 1..Len(t) : (s \o t)[Len(s) + i] = t[i]
  BY <1>1, <1>2
<1> QED BY <1>1, <1>2, <1>3 DEF Joined

\* The proof of either part is written in two chunks.
LEMMA Chunks ==
    ASSUME NEW part \in {"transfer", "withdraw"}
    PROVE  /\ ChunksOf(part) = {1, 2}
           /\ \A i \in 1..ProofLen[part] :
                 (i - 1) * RECORD_WRITE_CHUNK < ProofLen[part] <=> i \in {1, 2}
<1>1. ProofLen[part] \in {1400, 936}
  BY DEF ProofLen
<1>2. \A i \in 1..ProofLen[part] :
         (i - 1) * RECORD_WRITE_CHUNK < ProofLen[part] <=> i \in {1, 2}
  BY <1>1 DEF RECORD_WRITE_CHUNK
<1> QED BY <1>1, <1>2 DEF ChunksOf

\* A record is created and written in three steps.
LEMMA Record ==
    ASSUME NEW part \in {"transfer", "withdraw"}
    PROVE  /\ CreateRecord(part) \in Seq(Items)
           /\ Len(CreateRecord(part)) = 3
           /\ CreateRecord(part)[1] = Step("createRecord", part, "record")
           /\ CreateRecord(part)[2] = Write(part, 1)
           /\ CreateRecord(part)[3] = Write(part, 2)
<1> DEFINE first == <<Step("createRecord", part, "record")>>
           writes == [i \in ChunksOf(part) |-> Write(part, i)]
<1>1. /\ first \in Seq(Items) /\ Len(first) = 1
      /\ first[1] = Step("createRecord", part, "record")
  BY DEF Items, Step
<1>2. /\ writes \in [1..2 -> Items]
      /\ writes[1] = Write(part, 1) /\ writes[2] = Write(part, 2)
  BY Chunks DEF Items, Write
<1>3. writes \in Seq(Items) /\ Len(writes) = 2
  BY <1>2
<1> HIDE DEF first, writes
<1>4. Joined(first \o writes, first, writes)
  BY <1>1, <1>3, Join
<1>5. CreateRecord(part) = first \o writes
  BY DEF CreateRecord, first, writes
<1>6. /\ CreateRecord(part) \in Seq(Items) /\ Len(CreateRecord(part)) = 3
      /\ CreateRecord(part)[1] = first[1]
      /\ CreateRecord(part)[2] = writes[1]
      /\ CreateRecord(part)[3] = writes[2]
  BY <1>1, <1>3, <1>4, <1>5 DEF Joined
<1> QED BY <1>1, <1>2, <1>6

\* The steps of run_confidential_transfer, by their places.
LEMMA TransferLine ==
    /\ Transfer \in Seq(Items) /\ Len(Transfer) = 12
    /\ Transfer[1] = Step("prove", "transfer", "sender")
    /\ Transfer[2] = Step("verify", "transfer", "equality")
    /\ Transfer[3] = Step("verify", "transfer", "validity")
    /\ Transfer[4] = Step("createRecord", "transfer", "record")
    /\ Transfer[5] = Write("transfer", 1)
    /\ Transfer[6] = Write("transfer", 2)
    /\ Transfer[7] = Step("verifyRecord", "transfer", "range")
    /\ Transfer[8] = Step("transfer", "transfer", "sender")
    /\ Transfer[9] = Step("closeContext", "transfer", "equality")
    /\ Transfer[10] = Step("closeContext", "transfer", "validity")
    /\ Transfer[11] = Step("closeContext", "transfer", "range")
    /\ Transfer[12] = Step("closeRecord", "transfer", "record")
<1> DEFINE p1 == <<Step("prove", "transfer", "sender")>>
           p2 == <<Step("verify", "transfer", "equality")>>
           p3 == <<Step("verify", "transfer", "validity")>>
           p4 == CreateRecord("transfer")
           p5 == <<Step("verifyRecord", "transfer", "range")>>
           p6 == <<Step("transfer", "transfer", "sender")>>
           p7 == <<Step("closeContext", "transfer", "equality")>>
           p8 == <<Step("closeContext", "transfer", "validity")>>
           p9 == <<Step("closeContext", "transfer", "range")>>
           p10 == <<Step("closeRecord", "transfer", "record")>>
           s2 == p1 \o p2
           s3 == s2 \o p3
           s4 == s3 \o p4
           s5 == s4 \o p5
           s6 == s5 \o p6
           s7 == s6 \o p7
           s8 == s7 \o p8
           s9 == s8 \o p9
           s10 == s9 \o p10
<1> HIDE DEF p1, p2, p3, p4, p5, p6, p7, p8, p9, p10, s2, s3, s4, s5, s6, s7, s8, s9, s10
<1>1. /\ p1 \in Seq(Items) /\ Len(p1) = 1 /\ p1[1] = Step("prove", "transfer", "sender")
  BY DEF Items, Step, p1
<1>2. /\ p2 \in Seq(Items) /\ Len(p2) = 1 /\ p2[1] = Step("verify", "transfer", "equality")
  BY DEF Items, Step, p2
<1>3. /\ p3 \in Seq(Items) /\ Len(p3) = 1 /\ p3[1] = Step("verify", "transfer", "validity")
  BY DEF Items, Step, p3
<1>4. /\ p4 \in Seq(Items) /\ Len(p4) = 3
      /\ p4[1] = Step("createRecord", "transfer", "record")
      /\ p4[2] = Write("transfer", 1)
      /\ p4[3] = Write("transfer", 2)
  BY Record DEF Items, Step, p4
<1>5. /\ p5 \in Seq(Items) /\ Len(p5) = 1 /\ p5[1] = Step("verifyRecord", "transfer", "range")
  BY DEF Items, Step, p5
<1>6. /\ p6 \in Seq(Items) /\ Len(p6) = 1 /\ p6[1] = Step("transfer", "transfer", "sender")
  BY DEF Items, Step, p6
<1>7. /\ p7 \in Seq(Items)
      /\ Len(p7) = 1
      /\ p7[1] = Step("closeContext", "transfer", "equality")
  BY DEF Items, Step, p7
<1>8. /\ p8 \in Seq(Items)
      /\ Len(p8) = 1
      /\ p8[1] = Step("closeContext", "transfer", "validity")
  BY DEF Items, Step, p8
<1>9. /\ p9 \in Seq(Items) /\ Len(p9) = 1 /\ p9[1] = Step("closeContext", "transfer", "range")
  BY DEF Items, Step, p9
<1>10. /\ p10 \in Seq(Items)
       /\ Len(p10) = 1
       /\ p10[1] = Step("closeRecord", "transfer", "record")
  BY DEF Items, Step, p10
<1>11. /\ s2 \in Seq(Items) /\ Len(s2) = 2
       /\ \A i \in 1..1 : s2[i] = p1[i]
       /\ s2[2] = p2[1]
  <2>1. Joined(s2, p1, p2)
    BY <1>1, <1>2, Join DEF s2
  <2> QED BY <2>1, <1>1, <1>2 DEF Joined
<1>12. /\ s3 \in Seq(Items) /\ Len(s3) = 3
       /\ \A i \in 1..2 : s3[i] = s2[i]
       /\ s3[3] = p3[1]
  <2>1. Joined(s3, s2, p3)
    BY <1>11, <1>3, Join DEF s3
  <2> QED BY <2>1, <1>11, <1>3 DEF Joined
<1>13. /\ s4 \in Seq(Items) /\ Len(s4) = 6
       /\ \A i \in 1..3 : s4[i] = s3[i]
       /\ s4[4] = p4[1] /\ s4[5] = p4[2] /\ s4[6] = p4[3]
  <2>1. Joined(s4, s3, p4)
    BY <1>12, <1>4, Join DEF s4
  <2> QED BY <2>1, <1>12, <1>4 DEF Joined
<1>14. /\ s5 \in Seq(Items) /\ Len(s5) = 7
       /\ \A i \in 1..6 : s5[i] = s4[i]
       /\ s5[7] = p5[1]
  <2>1. Joined(s5, s4, p5)
    BY <1>13, <1>5, Join DEF s5
  <2> QED BY <2>1, <1>13, <1>5 DEF Joined
<1>15. /\ s6 \in Seq(Items) /\ Len(s6) = 8
       /\ \A i \in 1..7 : s6[i] = s5[i]
       /\ s6[8] = p6[1]
  <2>1. Joined(s6, s5, p6)
    BY <1>14, <1>6, Join DEF s6
  <2> QED BY <2>1, <1>14, <1>6 DEF Joined
<1>16. /\ s7 \in Seq(Items) /\ Len(s7) = 9
       /\ \A i \in 1..8 : s7[i] = s6[i]
       /\ s7[9] = p7[1]
  <2>1. Joined(s7, s6, p7)
    BY <1>15, <1>7, Join DEF s7
  <2> QED BY <2>1, <1>15, <1>7 DEF Joined
<1>17. /\ s8 \in Seq(Items) /\ Len(s8) = 10
       /\ \A i \in 1..9 : s8[i] = s7[i]
       /\ s8[10] = p8[1]
  <2>1. Joined(s8, s7, p8)
    BY <1>16, <1>8, Join DEF s8
  <2> QED BY <2>1, <1>16, <1>8 DEF Joined
<1>18. /\ s9 \in Seq(Items) /\ Len(s9) = 11
       /\ \A i \in 1..10 : s9[i] = s8[i]
       /\ s9[11] = p9[1]
  <2>1. Joined(s9, s8, p9)
    BY <1>17, <1>9, Join DEF s9
  <2> QED BY <2>1, <1>17, <1>9 DEF Joined
<1>19. /\ s10 \in Seq(Items) /\ Len(s10) = 12
       /\ \A i \in 1..11 : s10[i] = s9[i]
       /\ s10[12] = p10[1]
  <2>1. Joined(s10, s9, p10)
    BY <1>18, <1>10, Join DEF s10
  <2> QED BY <2>1, <1>18, <1>10 DEF Joined
<1>20. Transfer = s10
  BY DEF Transfer, CreateContext, CreateContextFromRecord, CloseContext, CloseRecord, p1,
     p2, p3, p4, p5, p6, p7, p8, p9, p10, s2, s3, s4, s5, s6, s7, s8, s9, s10
<1> QED BY <1>1, <1>2, <1>3, <1>4, <1>5, <1>6, <1>7, <1>8, <1>9, <1>10, <1>11, <1>12,
           <1>13, <1>14, <1>15, <1>16, <1>17, <1>18, <1>19, <1>20, SMTT(60)

\* The steps of run_confidential_withdraw, by their places.
LEMMA WithdrawLine ==
    /\ Withdraw \in Seq(Items) /\ Len(Withdraw) = 10
    /\ Withdraw[1] = Step("prove", "withdraw", "recipient")
    /\ Withdraw[2] = Step("verify", "withdraw", "equality")
    /\ Withdraw[3] = Step("createRecord", "withdraw", "record")
    /\ Withdraw[4] = Write("withdraw", 1)
    /\ Withdraw[5] = Write("withdraw", 2)
    /\ Withdraw[6] = Step("verifyRecord", "withdraw", "range")
    /\ Withdraw[7] = Step("withdraw", "withdraw", "recipient")
    /\ Withdraw[8] = Step("closeContext", "withdraw", "equality")
    /\ Withdraw[9] = Step("closeContext", "withdraw", "range")
    /\ Withdraw[10] = Step("closeRecord", "withdraw", "record")
<1> DEFINE p1 == <<Step("prove", "withdraw", "recipient")>>
           p2 == <<Step("verify", "withdraw", "equality")>>
           p3 == CreateRecord("withdraw")
           p4 == <<Step("verifyRecord", "withdraw", "range")>>
           p5 == <<Step("withdraw", "withdraw", "recipient")>>
           p6 == <<Step("closeContext", "withdraw", "equality")>>
           p7 == <<Step("closeContext", "withdraw", "range")>>
           p8 == <<Step("closeRecord", "withdraw", "record")>>
           s2 == p1 \o p2
           s3 == s2 \o p3
           s4 == s3 \o p4
           s5 == s4 \o p5
           s6 == s5 \o p6
           s7 == s6 \o p7
           s8 == s7 \o p8
<1> HIDE DEF p1, p2, p3, p4, p5, p6, p7, p8, s2, s3, s4, s5, s6, s7, s8
<1>1. /\ p1 \in Seq(Items) /\ Len(p1) = 1 /\ p1[1] = Step("prove", "withdraw", "recipient")
  BY DEF Items, Step, p1
<1>2. /\ p2 \in Seq(Items) /\ Len(p2) = 1 /\ p2[1] = Step("verify", "withdraw", "equality")
  BY DEF Items, Step, p2
<1>3. /\ p3 \in Seq(Items) /\ Len(p3) = 3
      /\ p3[1] = Step("createRecord", "withdraw", "record")
      /\ p3[2] = Write("withdraw", 1)
      /\ p3[3] = Write("withdraw", 2)
  BY Record DEF Items, Step, p3
<1>4. /\ p4 \in Seq(Items) /\ Len(p4) = 1 /\ p4[1] = Step("verifyRecord", "withdraw", "range")
  BY DEF Items, Step, p4
<1>5. /\ p5 \in Seq(Items) /\ Len(p5) = 1 /\ p5[1] = Step("withdraw", "withdraw", "recipient")
  BY DEF Items, Step, p5
<1>6. /\ p6 \in Seq(Items)
      /\ Len(p6) = 1
      /\ p6[1] = Step("closeContext", "withdraw", "equality")
  BY DEF Items, Step, p6
<1>7. /\ p7 \in Seq(Items) /\ Len(p7) = 1 /\ p7[1] = Step("closeContext", "withdraw", "range")
  BY DEF Items, Step, p7
<1>8. /\ p8 \in Seq(Items) /\ Len(p8) = 1 /\ p8[1] = Step("closeRecord", "withdraw", "record")
  BY DEF Items, Step, p8
<1>9. /\ s2 \in Seq(Items) /\ Len(s2) = 2
      /\ \A i \in 1..1 : s2[i] = p1[i]
      /\ s2[2] = p2[1]
  <2>1. Joined(s2, p1, p2)
    BY <1>1, <1>2, Join DEF s2
  <2> QED BY <2>1, <1>1, <1>2 DEF Joined
<1>10. /\ s3 \in Seq(Items) /\ Len(s3) = 5
       /\ \A i \in 1..2 : s3[i] = s2[i]
       /\ s3[3] = p3[1] /\ s3[4] = p3[2] /\ s3[5] = p3[3]
  <2>1. Joined(s3, s2, p3)
    BY <1>9, <1>3, Join DEF s3
  <2> QED BY <2>1, <1>9, <1>3 DEF Joined
<1>11. /\ s4 \in Seq(Items) /\ Len(s4) = 6
       /\ \A i \in 1..5 : s4[i] = s3[i]
       /\ s4[6] = p4[1]
  <2>1. Joined(s4, s3, p4)
    BY <1>10, <1>4, Join DEF s4
  <2> QED BY <2>1, <1>10, <1>4 DEF Joined
<1>12. /\ s5 \in Seq(Items) /\ Len(s5) = 7
       /\ \A i \in 1..6 : s5[i] = s4[i]
       /\ s5[7] = p5[1]
  <2>1. Joined(s5, s4, p5)
    BY <1>11, <1>5, Join DEF s5
  <2> QED BY <2>1, <1>11, <1>5 DEF Joined
<1>13. /\ s6 \in Seq(Items) /\ Len(s6) = 8
       /\ \A i \in 1..7 : s6[i] = s5[i]
       /\ s6[8] = p6[1]
  <2>1. Joined(s6, s5, p6)
    BY <1>12, <1>6, Join DEF s6
  <2> QED BY <2>1, <1>12, <1>6 DEF Joined
<1>14. /\ s7 \in Seq(Items) /\ Len(s7) = 9
       /\ \A i \in 1..8 : s7[i] = s6[i]
       /\ s7[9] = p7[1]
  <2>1. Joined(s7, s6, p7)
    BY <1>13, <1>7, Join DEF s7
  <2> QED BY <2>1, <1>13, <1>7 DEF Joined
<1>15. /\ s8 \in Seq(Items) /\ Len(s8) = 10
       /\ \A i \in 1..9 : s8[i] = s7[i]
       /\ s8[10] = p8[1]
  <2>1. Joined(s8, s7, p8)
    BY <1>14, <1>8, Join DEF s8
  <2> QED BY <2>1, <1>14, <1>8 DEF Joined
<1>16. Withdraw = s8
  BY DEF Withdraw, CreateContext, CreateContextFromRecord, CloseContext, CloseRecord, p1,
     p2, p3, p4, p5, p6, p7, p8, s2, s3, s4, s5, s6, s7, s8
<1> QED BY <1>1, <1>2, <1>3, <1>4, <1>5, <1>6, <1>7, <1>8, <1>9, <1>10, <1>11, <1>12,
           <1>13, <1>14, <1>15, <1>16, SMTT(60)

\* The steps of the test, by their places.
LEMMA FlowLine ==
    /\ Flow \in Seq(Items) /\ Len(Flow) = 36
    /\ Flow[1] = Step("createMint", "setup", "mint")
    /\ Flow[2] = Step("createAccount", "setup", "sender")
    /\ Flow[3] = Step("configure", "setup", "sender")
    /\ Flow[4] = Step("createAccount", "setup", "recipient")
    /\ Flow[5] = Step("configure", "setup", "recipient")
    /\ Flow[6] = Step("mintTo", "setup", "sender")
    /\ Flow[7] = Step("deposit", "setup", "sender")
    /\ Flow[8] = Step("counter", "setup", "sender")
    /\ Flow[9] = Step("apply", "setup", "sender")
    /\ Flow[10] = Step("prove", "transfer", "sender")
    /\ Flow[11] = Step("verify", "transfer", "equality")
    /\ Flow[12] = Step("verify", "transfer", "validity")
    /\ Flow[13] = Step("createRecord", "transfer", "record")
    /\ Flow[14] = Write("transfer", 1)
    /\ Flow[15] = Write("transfer", 2)
    /\ Flow[16] = Step("verifyRecord", "transfer", "range")
    /\ Flow[17] = Step("transfer", "transfer", "sender")
    /\ Flow[18] = Step("closeContext", "transfer", "equality")
    /\ Flow[19] = Step("closeContext", "transfer", "validity")
    /\ Flow[20] = Step("closeContext", "transfer", "range")
    /\ Flow[21] = Step("closeRecord", "transfer", "record")
    /\ Flow[22] = Step("counter", "setup", "recipient")
    /\ Flow[23] = Step("apply", "setup", "recipient")
    /\ Flow[24] = Step("prove", "withdraw", "recipient")
    /\ Flow[25] = Step("verify", "withdraw", "equality")
    /\ Flow[26] = Step("createRecord", "withdraw", "record")
    /\ Flow[27] = Write("withdraw", 1)
    /\ Flow[28] = Write("withdraw", 2)
    /\ Flow[29] = Step("verifyRecord", "withdraw", "range")
    /\ Flow[30] = Step("withdraw", "withdraw", "recipient")
    /\ Flow[31] = Step("closeContext", "withdraw", "equality")
    /\ Flow[32] = Step("closeContext", "withdraw", "range")
    /\ Flow[33] = Step("closeRecord", "withdraw", "record")
    /\ Flow[34] = Step("audit", "end", "sender")
    /\ Flow[35] = Step("readSender", "end", "sender")
    /\ Flow[36] = Step("readRecipient", "end", "recipient")
<1> DEFINE p1 == Setup
           p2 == ApplyPending("sender")
           p3 == Transfer
           p4 == ApplyPending("recipient")
           p5 == Withdraw
           p6 == <<Step("audit", "end", "sender"), Step("readSender", "end", "sender"),
                   Step("readRecipient", "end", "recipient")>>
           s2 == p1 \o p2
           s3 == s2 \o p3
           s4 == s3 \o p4
           s5 == s4 \o p5
           s6 == s5 \o p6
<1> HIDE DEF p1, p2, p3, p4, p5, p6, s2, s3, s4, s5, s6
<1>1. /\ p1 \in Seq(Items) /\ Len(p1) = 7
      /\ p1[1] = Step("createMint", "setup", "mint")
      /\ p1[2] = Step("createAccount", "setup", "sender")
      /\ p1[3] = Step("configure", "setup", "sender")
      /\ p1[4] = Step("createAccount", "setup", "recipient")
      /\ p1[5] = Step("configure", "setup", "recipient")
      /\ p1[6] = Step("mintTo", "setup", "sender")
      /\ p1[7] = Step("deposit", "setup", "sender")
  BY DEF Items, Step, Setup, ApplyPending, p1
<1>2. /\ p2 \in Seq(Items) /\ Len(p2) = 2
      /\ p2[1] = Step("counter", "setup", "sender")
      /\ p2[2] = Step("apply", "setup", "sender")
  BY DEF Items, Step, Setup, ApplyPending, p2
<1>3. /\ p3 \in Seq(Items) /\ Len(p3) = 12
      /\ p3[1] = Step("prove", "transfer", "sender")
      /\ p3[2] = Step("verify", "transfer", "equality")
      /\ p3[3] = Step("verify", "transfer", "validity")
      /\ p3[4] = Step("createRecord", "transfer", "record")
      /\ p3[5] = Write("transfer", 1)
      /\ p3[6] = Write("transfer", 2)
      /\ p3[7] = Step("verifyRecord", "transfer", "range")
      /\ p3[8] = Step("transfer", "transfer", "sender")
      /\ p3[9] = Step("closeContext", "transfer", "equality")
      /\ p3[10] = Step("closeContext", "transfer", "validity")
      /\ p3[11] = Step("closeContext", "transfer", "range")
      /\ p3[12] = Step("closeRecord", "transfer", "record")
  BY TransferLine DEF p3
<1>4. /\ p4 \in Seq(Items) /\ Len(p4) = 2
      /\ p4[1] = Step("counter", "setup", "recipient")
      /\ p4[2] = Step("apply", "setup", "recipient")
  BY DEF Items, Step, Setup, ApplyPending, p4
<1>5. /\ p5 \in Seq(Items) /\ Len(p5) = 10
      /\ p5[1] = Step("prove", "withdraw", "recipient")
      /\ p5[2] = Step("verify", "withdraw", "equality")
      /\ p5[3] = Step("createRecord", "withdraw", "record")
      /\ p5[4] = Write("withdraw", 1)
      /\ p5[5] = Write("withdraw", 2)
      /\ p5[6] = Step("verifyRecord", "withdraw", "range")
      /\ p5[7] = Step("withdraw", "withdraw", "recipient")
      /\ p5[8] = Step("closeContext", "withdraw", "equality")
      /\ p5[9] = Step("closeContext", "withdraw", "range")
      /\ p5[10] = Step("closeRecord", "withdraw", "record")
  BY WithdrawLine DEF p5
<1>6. /\ p6 \in Seq(Items) /\ Len(p6) = 3
      /\ p6[1] = Step("audit", "end", "sender")
      /\ p6[2] = Step("readSender", "end", "sender")
      /\ p6[3] = Step("readRecipient", "end", "recipient")
  BY DEF Items, Step, Setup, ApplyPending, p6
<1>7. /\ s2 \in Seq(Items) /\ Len(s2) = 9
      /\ \A i \in 1..7 : s2[i] = p1[i]
      /\ s2[8] = p2[1]
      /\ s2[9] = p2[2]
  <2>1. Joined(s2, p1, p2)
    BY <1>1, <1>2, Join DEF s2
  <2> QED BY <2>1, <1>1, <1>2 DEF Joined
<1>8. /\ s3 \in Seq(Items) /\ Len(s3) = 21
      /\ \A i \in 1..9 : s3[i] = s2[i]
      /\ s3[10] = p3[1]
      /\ s3[11] = p3[2]
      /\ s3[12] = p3[3]
      /\ s3[13] = p3[4]
      /\ s3[14] = p3[5]
      /\ s3[15] = p3[6]
      /\ s3[16] = p3[7]
      /\ s3[17] = p3[8]
      /\ s3[18] = p3[9]
      /\ s3[19] = p3[10]
      /\ s3[20] = p3[11]
      /\ s3[21] = p3[12]
  <2>1. Joined(s3, s2, p3)
    BY <1>7, <1>3, Join DEF s3
  <2> QED BY <2>1, <1>7, <1>3 DEF Joined
<1>9. /\ s4 \in Seq(Items) /\ Len(s4) = 23
      /\ \A i \in 1..21 : s4[i] = s3[i]
      /\ s4[22] = p4[1]
      /\ s4[23] = p4[2]
  <2>1. Joined(s4, s3, p4)
    BY <1>8, <1>4, Join DEF s4
  <2> QED BY <2>1, <1>8, <1>4 DEF Joined
<1>10. /\ s5 \in Seq(Items) /\ Len(s5) = 33
       /\ \A i \in 1..23 : s5[i] = s4[i]
       /\ s5[24] = p5[1]
       /\ s5[25] = p5[2]
       /\ s5[26] = p5[3]
       /\ s5[27] = p5[4]
       /\ s5[28] = p5[5]
       /\ s5[29] = p5[6]
       /\ s5[30] = p5[7]
       /\ s5[31] = p5[8]
       /\ s5[32] = p5[9]
       /\ s5[33] = p5[10]
  <2>1. Joined(s5, s4, p5)
    BY <1>9, <1>5, Join DEF s5
  <2> QED BY <2>1, <1>9, <1>5 DEF Joined
<1>11. /\ s6 \in Seq(Items) /\ Len(s6) = 36
       /\ \A i \in 1..33 : s6[i] = s5[i]
       /\ s6[34] = p6[1]
       /\ s6[35] = p6[2]
       /\ s6[36] = p6[3]
  <2>1. Joined(s6, s5, p6)
    BY <1>10, <1>6, Join DEF s6
  <2> QED BY <2>1, <1>10, <1>6 DEF Joined
<1>12. Flow = s6
  BY DEF Flow, p1, p2, p3, p4, p5, p6, s2, s3, s4, s5, s6
<1> QED BY <1>1, <1>2, <1>3, <1>4, <1>5, <1>6, <1>7, <1>8, <1>9, <1>10, <1>11, <1>12, SMTT(60)

-----------------------------------------------------------------------------
\* The operations of the line.
LEMMA Ops ==
    /\ Flow[1].op = "createMint" /\ Flow[2].op = "createAccount" /\ Flow[3].op = "configure"
    /\ Flow[4].op = "createAccount" /\ Flow[5].op = "configure" /\ Flow[6].op = "mintTo"
    /\ Flow[7].op = "deposit" /\ Flow[8].op = "counter" /\ Flow[9].op = "apply"
    /\ Flow[10].op = "prove" /\ Flow[11].op = "verify" /\ Flow[12].op = "verify"
    /\ Flow[13].op = "createRecord" /\ Flow[14].op = "write" /\ Flow[15].op = "write"
    /\ Flow[16].op = "verifyRecord" /\ Flow[17].op = "transfer" /\ Flow[18].op = "closeContext"
    /\ Flow[19].op = "closeContext"
    /\ Flow[20].op = "closeContext"
    /\ Flow[21].op = "closeRecord"
    /\ Flow[22].op = "counter" /\ Flow[23].op = "apply" /\ Flow[24].op = "prove"
    /\ Flow[25].op = "verify" /\ Flow[26].op = "createRecord" /\ Flow[27].op = "write"
    /\ Flow[28].op = "write" /\ Flow[29].op = "verifyRecord" /\ Flow[30].op = "withdraw"
    /\ Flow[31].op = "closeContext"
    /\ Flow[32].op = "closeContext"
    /\ Flow[33].op = "closeRecord"
    /\ Flow[34].op = "audit" /\ Flow[35].op = "readSender" /\ Flow[36].op = "readRecipient"
BY FlowLine DEF Step, Write

\* The places of the line.
LEMMA Split ==
    \A i \in 1..36 : i \in { 1,  2,  3,  4,  5,  6,  7,  8,  9, 10, 11, 12,
                            13, 14, 15, 16, 17, 18, 19, 20, 21, 22, 23, 24,
                            25, 26, 27, 28, 29, 30, 31, 32, 33, 34, 35, 36}
OBVIOUS

\* Where the steps of an operation are.
LEMMA Places ==
    ASSUME NEW i \in 1..36
    PROVE  /\ Flow[i].op \in Reads <=> i \in {8, 10, 22, 24, 34, 35, 36}
           /\ Flow[i].op = "createMint" => i \in {1}
           /\ Flow[i].op = "createAccount" => i \in {2, 4}
           /\ Flow[i].op = "configure" => i \in {3, 5}
           /\ Flow[i].op = "mintTo" => i \in {6}
           /\ Flow[i].op = "deposit" => i \in {7}
           /\ Flow[i].op = "counter" => i \in {8, 22}
           /\ Flow[i].op = "apply" => i \in {9, 23}
           /\ Flow[i].op = "prove" => i \in {10, 24}
           /\ Flow[i].op = "verify" => i \in {11, 12, 25}
           /\ Flow[i].op = "createRecord" => i \in {13, 26}
           /\ Flow[i].op = "write" => i \in {14, 15, 27, 28}
           /\ Flow[i].op = "verifyRecord" => i \in {16, 29}
           /\ Flow[i].op = "transfer" => i \in {17}
           /\ Flow[i].op = "withdraw" => i \in {30}
           /\ Flow[i].op = "closeContext" => i \in {18, 19, 20, 31, 32}
           /\ Flow[i].op = "closeRecord" => i \in {21, 33}
           /\ Flow[i].op = "audit" => i \in {34}
           /\ Flow[i].op = "readSender" => i \in {35}
           /\ Flow[i].op = "readRecipient" => i \in {36}
<1>1. Flow[i].op \in Reads <=> i \in {8, 10, 22, 24, 34, 35, 36}
  BY Split, Ops DEF Reads
<1>2. /\ Flow[i].op = "createMint" => i \in {1}
      /\ Flow[i].op = "createAccount" => i \in {2, 4}
      /\ Flow[i].op = "configure" => i \in {3, 5}
      /\ Flow[i].op = "mintTo" => i \in {6}
      /\ Flow[i].op = "deposit" => i \in {7}
  BY Split, Ops
<1>3. /\ Flow[i].op = "counter" => i \in {8, 22}
      /\ Flow[i].op = "apply" => i \in {9, 23}
      /\ Flow[i].op = "prove" => i \in {10, 24}
      /\ Flow[i].op = "verify" => i \in {11, 12, 25}
      /\ Flow[i].op = "createRecord" => i \in {13, 26}
  BY Split, Ops
<1>4. /\ Flow[i].op = "write" => i \in {14, 15, 27, 28}
      /\ Flow[i].op = "verifyRecord" => i \in {16, 29}
      /\ Flow[i].op = "transfer" => i \in {17}
      /\ Flow[i].op = "withdraw" => i \in {30}
      /\ Flow[i].op = "closeContext" => i \in {18, 19, 20, 31, 32}
  BY Split, Ops
<1>5. /\ Flow[i].op = "closeRecord" => i \in {21, 33}
      /\ Flow[i].op = "audit" => i \in {34}
      /\ Flow[i].op = "readSender" => i \in {35}
      /\ Flow[i].op = "readRecipient" => i \in {36}
  BY Split, Ops
<1> QED BY <1>1, <1>2, <1>3, <1>4, <1>5, Zenon

\* The place of a step in the line.
Rank(t) ==
    CASE t.op = "createMint" -> 1
      [] t.op = "createAccount" -> IF t.on = "sender" THEN 2 ELSE 4
      [] t.op = "configure" -> IF t.on = "sender" THEN 3 ELSE 5
      [] t.op = "mintTo" -> 6
      [] t.op = "deposit" -> 7
      [] t.op = "counter" -> IF t.on = "sender" THEN 8 ELSE 22
      [] t.op = "apply" -> IF t.on = "sender" THEN 9 ELSE 23
      [] t.op = "prove" -> IF t.part = "transfer" THEN 10 ELSE 24
      [] t.op = "verify" -> IF t.part = "withdraw" THEN 25
                            ELSE IF t.on = "equality" THEN 11 ELSE 12
      [] t.op = "createRecord" -> IF t.part = "transfer" THEN 13 ELSE 26
      [] t.op = "write" -> t.chunk + IF t.part = "transfer" THEN 13 ELSE 26
      [] t.op = "verifyRecord" -> IF t.part = "transfer" THEN 16 ELSE 29
      [] t.op = "transfer" -> 17
      [] t.op = "withdraw" -> 30
      [] t.op = "closeContext" ->
            IF t.part = "transfer"
            THEN IF t.on = "equality" THEN 18 ELSE IF t.on = "validity" THEN 19 ELSE 20
            ELSE IF t.on = "equality" THEN 31 ELSE 32
      [] t.op = "closeRecord" -> IF t.part = "transfer" THEN 21 ELSE 33
      [] t.op = "audit" -> 34
      [] t.op = "readSender" -> 35
      [] OTHER -> 36

\* Every step is at one place of the line, and its rank finds it.
LEMMA Ranked ==
    /\ DOMAIN Flow = 1..36
    /\ \A i \in 1..36 : Flow[i] \in Items
    /\ \A i \in 1..36 : Rank(Flow[i]) = i
<1>0. Flow \in Seq(Items) /\ Len(Flow) = 36
  BY FlowLine
<1>1. DOMAIN Flow = 1..36 /\ \A i \in 1..36 : Flow[i] \in Items
  BY <1>0, LenProperties
<1>2. \A i \in 1..36 : Rank(Flow[i]) = i
  <2> SUFFICES ASSUME NEW i \in 1..36 PROVE Rank(Flow[i]) = i
    OBVIOUS
  <2>1. CASE Flow[i].op = "createMint"
    <3>1. Flow[1] = Step("createMint", "setup", "mint")
      BY FlowLine
    <3>2. i \in {1}
      BY <2>1, Places
    <3> QED BY <3>1, <3>2 DEF Rank, Step, Write
  <2>2. CASE Flow[i].op = "createAccount"
    <3>1. /\ Flow[2] = Step("createAccount", "setup", "sender")
          /\ Flow[4] = Step("createAccount", "setup", "recipient")
      BY FlowLine
    <3>2. i \in {2, 4}
      BY <2>2, Places
    <3> QED BY <3>1, <3>2 DEF Rank, Step, Write
  <2>3. CASE Flow[i].op = "configure"
    <3>1. /\ Flow[3] = Step("configure", "setup", "sender")
          /\ Flow[5] = Step("configure", "setup", "recipient")
      BY FlowLine
    <3>2. i \in {3, 5}
      BY <2>3, Places
    <3> QED BY <3>1, <3>2 DEF Rank, Step, Write
  <2>4. CASE Flow[i].op = "mintTo"
    <3>1. Flow[6] = Step("mintTo", "setup", "sender")
      BY FlowLine
    <3>2. i \in {6}
      BY <2>4, Places
    <3> QED BY <3>1, <3>2 DEF Rank, Step, Write
  <2>5. CASE Flow[i].op = "deposit"
    <3>1. Flow[7] = Step("deposit", "setup", "sender")
      BY FlowLine
    <3>2. i \in {7}
      BY <2>5, Places
    <3> QED BY <3>1, <3>2 DEF Rank, Step, Write
  <2>6. CASE Flow[i].op = "counter"
    <3>1. /\ Flow[8] = Step("counter", "setup", "sender")
          /\ Flow[22] = Step("counter", "setup", "recipient")
      BY FlowLine
    <3>2. i \in {8, 22}
      BY <2>6, Places
    <3> QED BY <3>1, <3>2 DEF Rank, Step, Write
  <2>7. CASE Flow[i].op = "apply"
    <3>1. /\ Flow[9] = Step("apply", "setup", "sender")
          /\ Flow[23] = Step("apply", "setup", "recipient")
      BY FlowLine
    <3>2. i \in {9, 23}
      BY <2>7, Places
    <3> QED BY <3>1, <3>2 DEF Rank, Step, Write
  <2>8. CASE Flow[i].op = "prove"
    <3>1. /\ Flow[10] = Step("prove", "transfer", "sender")
          /\ Flow[24] = Step("prove", "withdraw", "recipient")
      BY FlowLine
    <3>2. i \in {10, 24}
      BY <2>8, Places
    <3> QED BY <3>1, <3>2 DEF Rank, Step, Write
  <2>9. CASE Flow[i].op = "verify"
    <3>1. /\ Flow[11] = Step("verify", "transfer", "equality")
          /\ Flow[12] = Step("verify", "transfer", "validity")
          /\ Flow[25] = Step("verify", "withdraw", "equality")
      BY FlowLine
    <3>2. i \in {11, 12, 25}
      BY <2>9, Places
    <3> QED BY <3>1, <3>2 DEF Rank, Step, Write
  <2>10. CASE Flow[i].op = "createRecord"
    <3>1. /\ Flow[13] = Step("createRecord", "transfer", "record")
          /\ Flow[26] = Step("createRecord", "withdraw", "record")
      BY FlowLine
    <3>2. i \in {13, 26}
      BY <2>10, Places
    <3> QED BY <3>1, <3>2 DEF Rank, Step, Write
  <2>11. CASE Flow[i].op = "write"
    <3>1. /\ Flow[14] = Write("transfer", 1)
          /\ Flow[15] = Write("transfer", 2)
          /\ Flow[27] = Write("withdraw", 1)
          /\ Flow[28] = Write("withdraw", 2)
      BY FlowLine
    <3>2. i \in {14, 15, 27, 28}
      BY <2>11, Places
    <3> QED BY <3>1, <3>2 DEF Rank, Step, Write
  <2>12. CASE Flow[i].op = "verifyRecord"
    <3>1. /\ Flow[16] = Step("verifyRecord", "transfer", "range")
          /\ Flow[29] = Step("verifyRecord", "withdraw", "range")
      BY FlowLine
    <3>2. i \in {16, 29}
      BY <2>12, Places
    <3> QED BY <3>1, <3>2 DEF Rank, Step, Write
  <2>13. CASE Flow[i].op = "transfer"
    <3>1. Flow[17] = Step("transfer", "transfer", "sender")
      BY FlowLine
    <3>2. i \in {17}
      BY <2>13, Places
    <3> QED BY <3>1, <3>2 DEF Rank, Step, Write
  <2>14. CASE Flow[i].op = "withdraw"
    <3>1. Flow[30] = Step("withdraw", "withdraw", "recipient")
      BY FlowLine
    <3>2. i \in {30}
      BY <2>14, Places
    <3> QED BY <3>1, <3>2 DEF Rank, Step, Write
  <2>15. CASE Flow[i].op = "closeContext"
    <3>1. /\ Flow[18] = Step("closeContext", "transfer", "equality")
          /\ Flow[19] = Step("closeContext", "transfer", "validity")
          /\ Flow[20] = Step("closeContext", "transfer", "range")
          /\ Flow[31] = Step("closeContext", "withdraw", "equality")
          /\ Flow[32] = Step("closeContext", "withdraw", "range")
      BY FlowLine
    <3>2. i \in {18, 19, 20, 31, 32}
      BY <2>15, Places
    <3> QED BY <3>1, <3>2 DEF Rank, Step, Write
  <2>16. CASE Flow[i].op = "closeRecord"
    <3>1. /\ Flow[21] = Step("closeRecord", "transfer", "record")
          /\ Flow[33] = Step("closeRecord", "withdraw", "record")
      BY FlowLine
    <3>2. i \in {21, 33}
      BY <2>16, Places
    <3> QED BY <3>1, <3>2 DEF Rank, Step, Write
  <2>17. CASE Flow[i].op = "audit"
    <3>1. Flow[34] = Step("audit", "end", "sender")
      BY FlowLine
    <3>2. i \in {34}
      BY <2>17, Places
    <3> QED BY <3>1, <3>2 DEF Rank, Step, Write
  <2>18. CASE Flow[i].op = "readSender"
    <3>1. Flow[35] = Step("readSender", "end", "sender")
      BY FlowLine
    <3>2. i \in {35}
      BY <2>18, Places
    <3> QED BY <3>1, <3>2 DEF Rank, Step, Write
  <2>19. CASE Flow[i].op = "readRecipient"
    <3>1. Flow[36] = Step("readRecipient", "end", "recipient")
      BY FlowLine
    <3>2. i \in {36}
      BY <2>19, Places
    <3> QED BY <3>1, <3>2 DEF Rank, Step, Write
  <2> QED BY Split, Ops, <2>1, <2>2, <2>3, <2>4, <2>5, <2>6, <2>7, <2>8, <2>9, <2>10,
             <2>11, <2>12, <2>13, <2>14, <2>15, <2>16, <2>17, <2>18, <2>19
<1> QED BY <1>1, <1>2

\* The transactions that others depend on.
MintTx == Step("createMint", "setup", "mint")
AccountTx(on) == Step("createAccount", "setup", on)
ConfigureTx(on) == Step("configure", "setup", on)
MintToTx == Step("mintTo", "setup", "sender")
DepositTx == Step("deposit", "setup", "sender")
ApplyTx(on) == Step("apply", "setup", on)
VerifyTx(part, on) == Step("verify", part, on)
RecordTx(part) == Step("createRecord", part, "record")
RangeTx(part) == Step("verifyRecord", part, "range")
TransferTx == Step("transfer", "transfer", "sender")
WithdrawTx == Step("withdraw", "withdraw", "recipient")

Holders == {"sender", "recipient"}
Parts == {"transfer", "withdraw"}

\* The transactions of the line, by their operations.
LEMMA Table ==
    ASSUME NEW t \in Txs
    PROVE  /\ t \in Items /\ Rank(t) \in 1..33 /\ Flow[Rank(t)] = t
           /\ t.op = "createMint" => t = MintTx
           /\ t.op = "createAccount" => t.on \in Holders /\ t = AccountTx(t.on)
           /\ t.op = "configure" => t.on \in Holders /\ t = ConfigureTx(t.on)
           /\ t.op = "mintTo" => t = MintToTx
           /\ t.op = "deposit" => t = DepositTx
           /\ t.op = "apply" => t.on \in Holders /\ t = ApplyTx(t.on)
           /\ t.op = "verify" => /\ t.part \in Parts /\ t = VerifyTx(t.part, t.on)
                                 /\ \/ t.on = "equality"
                                    \/ t.on = "validity" /\ t.part = "transfer"
           /\ t.op = "createRecord" => t.part \in Parts /\ t = RecordTx(t.part)
           /\ t.op = "write" => t.part \in Parts /\ t.chunk \in {1, 2} /\ t = Write(t.part, t.chunk)
           /\ t.op = "verifyRecord" => t.part \in Parts /\ t = RangeTx(t.part)
           /\ t.op = "transfer" => t = TransferTx
           /\ t.op = "withdraw" => t = WithdrawTx
           /\ t.op = "closeContext" => /\ t.part \in Parts /\ t = Step("closeContext", t.part, t.on)
                                       /\ \/ t.on \in {"equality", "range"}
                                          \/ t.on = "validity" /\ t.part = "transfer"
           /\ t.op = "closeRecord" => t.part \in Parts /\ t = Step("closeRecord", t.part, "record")
           /\ t.op \notin Reads
<1> USE DEF Holders, Parts
<1>1. PICK i \in 1..36 : t = Flow[i] /\ t.op \notin Reads
  BY Ranked DEF Txs, Steps
<1>2. Rank(t) = i /\ i \in 1..33
  <2>1. i \notin {34, 35, 36}
    BY <1>1, Places
  <2> QED BY <1>1, <2>1, Ranked
<1>3. t \in Items /\ t.op \notin Reads /\ Flow[Rank(t)] = t
  BY <1>1, <1>2, Ranked
<1>4. t.op = "createMint" => t = MintTx
  <2>1. t.op = "createMint" => i \in {1}
    BY <1>1, Places
  <2>2. Flow[1] = Step("createMint", "setup", "mint")
    BY FlowLine
  <2> QED BY <1>1, <2>1, <2>2 DEF MintTx, Step
<1>5. t.op = "createAccount" => t.on \in Holders /\ t = AccountTx(t.on)
  <2>1. t.op = "createAccount" => i \in {2, 4}
    BY <1>1, Places
  <2>2. /\ Flow[2] = Step("createAccount", "setup", "sender")
        /\ Flow[4] = Step("createAccount", "setup", "recipient")
    BY FlowLine
  <2> QED BY <1>1, <2>1, <2>2 DEF AccountTx, Step
<1>6. t.op = "configure" => t.on \in Holders /\ t = ConfigureTx(t.on)
  <2>1. t.op = "configure" => i \in {3, 5}
    BY <1>1, Places
  <2>2. /\ Flow[3] = Step("configure", "setup", "sender")
        /\ Flow[5] = Step("configure", "setup", "recipient")
    BY FlowLine
  <2> QED BY <1>1, <2>1, <2>2 DEF ConfigureTx, Step
<1>7. t.op = "mintTo" => t = MintToTx
  <2>1. t.op = "mintTo" => i \in {6}
    BY <1>1, Places
  <2>2. Flow[6] = Step("mintTo", "setup", "sender")
    BY FlowLine
  <2> QED BY <1>1, <2>1, <2>2 DEF MintToTx, Step
<1>8. t.op = "deposit" => t = DepositTx
  <2>1. t.op = "deposit" => i \in {7}
    BY <1>1, Places
  <2>2. Flow[7] = Step("deposit", "setup", "sender")
    BY FlowLine
  <2> QED BY <1>1, <2>1, <2>2 DEF DepositTx, Step
<1>9. t.op = "apply" => t.on \in Holders /\ t = ApplyTx(t.on)
  <2>1. t.op = "apply" => i \in {9, 23}
    BY <1>1, Places
  <2>2. /\ Flow[9] = Step("apply", "setup", "sender")
        /\ Flow[23] = Step("apply", "setup", "recipient")
    BY FlowLine
  <2> QED BY <1>1, <2>1, <2>2 DEF ApplyTx, Step
<1>10. t.op = "verify" => /\ t.part \in Parts /\ t = VerifyTx(t.part, t.on)
                          /\ \/ t.on = "equality"
                             \/ t.on = "validity" /\ t.part = "transfer"
  <2>1. t.op = "verify" => i \in {11, 12, 25}
    BY <1>1, Places
  <2>2. /\ Flow[11] = Step("verify", "transfer", "equality")
        /\ Flow[12] = Step("verify", "transfer", "validity")
        /\ Flow[25] = Step("verify", "withdraw", "equality")
    BY FlowLine
  <2> QED BY <1>1, <2>1, <2>2, SMTT(30) DEF VerifyTx, Step
<1>11. t.op = "createRecord" => t.part \in Parts /\ t = RecordTx(t.part)
  <2>1. t.op = "createRecord" => i \in {13, 26}
    BY <1>1, Places
  <2>2. /\ Flow[13] = Step("createRecord", "transfer", "record")
        /\ Flow[26] = Step("createRecord", "withdraw", "record")
    BY FlowLine
  <2> QED BY <1>1, <2>1, <2>2 DEF RecordTx, Step
<1>12. t.op = "write" => t.part \in Parts /\ t.chunk \in {1, 2} /\ t = Write(t.part, t.chunk)
  <2>1. t.op = "write" => i \in {14, 15, 27, 28}
    BY <1>1, Places
  <2>2. /\ Flow[14] = Write("transfer", 1)
        /\ Flow[15] = Write("transfer", 2)
        /\ Flow[27] = Write("withdraw", 1)
        /\ Flow[28] = Write("withdraw", 2)
    BY FlowLine
  <2> QED BY <1>1, <2>1, <2>2 DEF Write
<1>13. t.op = "verifyRecord" => t.part \in Parts /\ t = RangeTx(t.part)
  <2>1. t.op = "verifyRecord" => i \in {16, 29}
    BY <1>1, Places
  <2>2. /\ Flow[16] = Step("verifyRecord", "transfer", "range")
        /\ Flow[29] = Step("verifyRecord", "withdraw", "range")
    BY FlowLine
  <2> QED BY <1>1, <2>1, <2>2 DEF RangeTx, Step
<1>14. t.op = "transfer" => t = TransferTx
  <2>1. t.op = "transfer" => i \in {17}
    BY <1>1, Places
  <2>2. Flow[17] = Step("transfer", "transfer", "sender")
    BY FlowLine
  <2> QED BY <1>1, <2>1, <2>2 DEF TransferTx, Step
<1>15. t.op = "withdraw" => t = WithdrawTx
  <2>1. t.op = "withdraw" => i \in {30}
    BY <1>1, Places
  <2>2. Flow[30] = Step("withdraw", "withdraw", "recipient")
    BY FlowLine
  <2> QED BY <1>1, <2>1, <2>2 DEF WithdrawTx, Step
<1>16. t.op = "closeContext" => /\ t.part \in Parts /\ t = Step("closeContext", t.part, t.on)
                                /\ \/ t.on \in {"equality", "range"}
                                   \/ t.on = "validity" /\ t.part = "transfer"
  <2>1. t.op = "closeContext" => i \in {18, 19, 20, 31, 32}
    BY <1>1, Places
  <2>2. /\ Flow[18] = Step("closeContext", "transfer", "equality")
        /\ Flow[19] = Step("closeContext", "transfer", "validity")
        /\ Flow[20] = Step("closeContext", "transfer", "range")
        /\ Flow[31] = Step("closeContext", "withdraw", "equality")
        /\ Flow[32] = Step("closeContext", "withdraw", "range")
    BY FlowLine
  <2> QED BY <1>1, <2>1, <2>2, SMTT(30) DEF Step
<1>17. t.op = "closeRecord" => t.part \in Parts /\ t = Step("closeRecord", t.part, "record")
  <2>1. t.op = "closeRecord" => i \in {21, 33}
    BY <1>1, Places
  <2>2. /\ Flow[21] = Step("closeRecord", "transfer", "record")
        /\ Flow[33] = Step("closeRecord", "withdraw", "record")
    BY FlowLine
  <2> QED BY <1>1, <2>1, <2>2 DEF Step
<1> QED BY <1>2, <1>3, <1>4, <1>5, <1>6, <1>7, <1>8, <1>9, <1>10, <1>11, <1>12, <1>13,
           <1>14, <1>15, <1>16, <1>17

-----------------------------------------------------------------------------
\* The types of a chain.
Balances == [public : Int, pending : Int, available : Int, decryptable : Int]
Accounts == [Holders -> Balances]
Chains == [ok : SUBSET Txs, err : SUBSET Txs, did : SUBSET Txs, acct : Accounts]
KnownDefect == defect \in Defects \cup {[op |-> "none", how |-> "none"]}

\* The defect of a runtime is none, a rejection or an omission.
LEMMA DefectKinds ==
    ASSUME KnownDefect
    PROVE  /\ defect = [op |-> defect.op, how |-> defect.how]
           /\ defect.how \in {"rejects", "ignores"}
              \/ defect = [op |-> "none", how |-> "none"]
           /\ defect.how \in {"rejects", "ignores"} => \E t \in Txs : defect.op = t.op
BY DefectsAssumption DEF KnownDefect

\* One balance of one account is set.
Updated(b, a, h, f, v) ==
    /\ b \in Accounts
    /\ \A g \in Holders :
          /\ b[g].public = IF g = h /\ f = "public" THEN v ELSE a[g].public
          /\ b[g].pending = IF g = h /\ f = "pending" THEN v ELSE a[g].pending
          /\ b[g].available = IF g = h /\ f = "available" THEN v ELSE a[g].available
          /\ b[g].decryptable = IF g = h /\ f = "decryptable" THEN v ELSE a[g].decryptable

\* The change of one balance of an account.
LEMMA Setting ==
    ASSUME NEW a \in Accounts, NEW h \in Holders, NEW v \in Int
    PROVE  /\ Updated([a EXCEPT ![h].public = v], a, h, "public", v)
           /\ Updated([a EXCEPT ![h].pending = v], a, h, "pending", v)
           /\ Updated([a EXCEPT ![h].available = v], a, h, "available", v)
           /\ Updated([a EXCEPT ![h].decryptable = v], a, h, "decryptable", v)
<1>1. Updated([a EXCEPT ![h].public = v], a, h, "public", v)
  BY DEF Updated, Accounts, Balances
<1>2. Updated([a EXCEPT ![h].pending = v], a, h, "pending", v)
  BY DEF Updated, Accounts, Balances
<1>3. Updated([a EXCEPT ![h].available = v], a, h, "available", v)
  BY DEF Updated, Accounts, Balances
<1>4. Updated([a EXCEPT ![h].decryptable = v], a, h, "decryptable", v)
  BY DEF Updated, Accounts, Balances
<1> QED BY <1>1, <1>2, <1>3, <1>4

\* What an instruction does to each balance.
LEMMA Moving ==
    ASSUME NEW a \in Accounts, NEW t \in Txs
    PROVE  LET m == Moved(a, t) IN
           /\ m \in Accounts
           /\ m["sender"].public =
                 IF t.op = "mintTo" THEN a["sender"].public + 10000
                 ELSE IF t.op = "deposit" THEN a["sender"].public - 5000
                 ELSE a["sender"].public
           /\ m["recipient"].public =
                 IF t.op = "withdraw" THEN a["recipient"].public + 2000
                 ELSE a["recipient"].public
           /\ m["sender"].pending =
                 IF t.op = "deposit" THEN a["sender"].pending + 5000
                 ELSE IF t.op = "apply" /\ t.on = "sender" THEN 0
                 ELSE a["sender"].pending
           /\ m["recipient"].pending =
                 IF t.op = "transfer" THEN a["recipient"].pending + 5000
                 ELSE IF t.op = "apply" /\ t.on = "recipient" THEN 0
                 ELSE a["recipient"].pending
           /\ m["sender"].available =
                 IF t.op = "apply" /\ t.on = "sender"
                 THEN a["sender"].available + a["sender"].pending
                 ELSE IF t.op = "transfer" THEN a["sender"].available - 5000
                 ELSE a["sender"].available
           /\ m["recipient"].available =
                 IF t.op = "apply" /\ t.on = "recipient"
                 THEN a["recipient"].available + a["recipient"].pending
                 ELSE IF t.op = "withdraw" THEN a["recipient"].available - 2000
                 ELSE a["recipient"].available
           /\ m["sender"].decryptable =
                 IF t.op = "apply" /\ t.on = "sender" THEN 5000
                 ELSE IF t.op = "transfer" THEN a["sender"].decryptable - 5000
                 ELSE a["sender"].decryptable
<1> USE DEF Holders, MINT_AMOUNT, DEPOSIT_AMOUNT, TRANSFER_AMOUNT, WITHDRAW_AMOUNT
<1>1. CASE t.op = "mintTo"
  <2> DEFINE v1 == a["sender"].public + 10000
             m1 == [a EXCEPT !["sender"].public = v1]
  <2>1. v1 \in Int
    BY DEF Accounts, Balances
  <2>2. Moved(a, t) = [a EXCEPT !.sender.public = v1]
    BY <1>1 DEF Moved, Accounts, Balances
  <2> HIDE DEF v1
  <2>3. Moved(a, t) = m1
    BY <2>2
  <2> HIDE DEF m1
  <2>4. Updated(m1, a, "sender", "public", v1)
    BY <2>1, Setting DEF m1
  <2> QED BY <1>1, <2>3, <2>4 DEF Updated, v1
<1>2. CASE t.op = "deposit"
  <2> DEFINE v1 == a["sender"].public - 5000
             v2 == a["sender"].pending + 5000
             m1 == [a EXCEPT !["sender"].public = v1]
             m2 == [m1 EXCEPT !["sender"].pending = v2]
  <2>1. v1 \in Int /\ v2 \in Int
    BY DEF Accounts, Balances
  <2>2. Moved(a, t) = [a EXCEPT !.sender.public = v1, !.sender.pending = v2]
    BY <1>2 DEF Moved, Accounts, Balances
  <2> HIDE DEF v1, v2
  <2>3. Moved(a, t) = m2
    BY <2>2
  <2> HIDE DEF m1, m2
  <2>4. Updated(m1, a, "sender", "public", v1)
    BY <2>1, Setting DEF m1
  <2>5. Updated(m2, m1, "sender", "pending", v2)
    BY <2>1, <2>4, Setting DEF m2, Updated
  <2> QED BY <1>2, <2>3, <2>4, <2>5 DEF Updated, v1, v2
<1>3. CASE t.op = "apply"
  <2>0. t.on \in Holders
    BY <1>3, Table
  <2>1. CASE t.on = "sender"
    <3> DEFINE v1 == a["sender"].available + a["sender"].pending
               v2 == 0
               v3 == 5000
               m1 == [a EXCEPT !["sender"].available = v1]
               m2 == [m1 EXCEPT !["sender"].pending = v2]
               m3 == [m2 EXCEPT !["sender"].decryptable = v3]
    <3>1. v1 \in Int /\ v2 \in Int /\ v3 \in Int
      BY DEF Accounts, Balances
    <3>3. Moved(a, t) = m3
      BY <1>3, <2>1 DEF Moved
    <3> HIDE DEF v1, v2, v3, m1, m2, m3
    <3>4. Updated(m1, a, "sender", "available", v1)
      BY <3>1, Setting DEF m1
    <3>5. Updated(m2, m1, "sender", "pending", v2)
      BY <3>1, <3>4, Setting DEF m2, Updated
    <3>6. Updated(m3, m2, "sender", "decryptable", v3)
      BY <3>1, <3>5, Setting DEF m3, Updated
    <3> QED BY <1>3, <2>1, <3>3, <3>4, <3>5, <3>6 DEF Updated, v1, v2, v3
  <2>2. CASE t.on = "recipient"
    <3> DEFINE v1 == a["recipient"].available + a["recipient"].pending
               v2 == 0
               v3 == 5000
               m1 == [a EXCEPT !["recipient"].available = v1]
               m2 == [m1 EXCEPT !["recipient"].pending = v2]
               m3 == [m2 EXCEPT !["recipient"].decryptable = v3]
    <3>1. v1 \in Int /\ v2 \in Int /\ v3 \in Int
      BY DEF Accounts, Balances
    <3>3. Moved(a, t) = m3
      BY <1>3, <2>2 DEF Moved
    <3> HIDE DEF v1, v2, v3, m1, m2, m3
    <3>4. Updated(m1, a, "recipient", "available", v1)
      BY <3>1, Setting DEF m1
    <3>5. Updated(m2, m1, "recipient", "pending", v2)
      BY <3>1, <3>4, Setting DEF m2, Updated
    <3>6. Updated(m3, m2, "recipient", "decryptable", v3)
      BY <3>1, <3>5, Setting DEF m3, Updated
    <3> QED BY <1>3, <2>2, <3>3, <3>4, <3>5, <3>6 DEF Updated, v1, v2, v3
  <2> QED BY <2>0, <2>1, <2>2
<1>4. CASE t.op = "transfer"
  <2> DEFINE v1 == a["sender"].available - 5000
             v2 == a["sender"].decryptable - 5000
             v3 == a["recipient"].pending + 5000
             m1 == [a EXCEPT !["sender"].available = v1]
             m2 == [m1 EXCEPT !["sender"].decryptable = v2]
             m3 == [m2 EXCEPT !["recipient"].pending = v3]
  <2>1. v1 \in Int /\ v2 \in Int /\ v3 \in Int
    BY DEF Accounts, Balances
  <2>2. Moved(a, t) = [a EXCEPT !.sender.available = v1, !.sender.decryptable = v2,
                                !.recipient.pending = v3]
    BY <1>4 DEF Moved, Accounts, Balances
  <2> HIDE DEF v1, v2, v3
  <2>3. Moved(a, t) = m3
    BY <2>2
  <2> HIDE DEF m1, m2, m3
  <2>4. Updated(m1, a, "sender", "available", v1)
    BY <2>1, Setting DEF m1
  <2>5. Updated(m2, m1, "sender", "decryptable", v2)
    BY <2>1, <2>4, Setting DEF m2, Updated
  <2>6. Updated(m3, m2, "recipient", "pending", v3)
    BY <2>1, <2>5, Setting DEF m3, Updated
  <2> QED BY <1>4, <2>3, <2>4, <2>5, <2>6 DEF Updated, v1, v2, v3
<1>5. CASE t.op = "withdraw"
  <2> DEFINE v1 == a["recipient"].available - 2000
             v2 == a["recipient"].decryptable - 2000
             v3 == a["recipient"].public + 2000
             m1 == [a EXCEPT !["recipient"].available = v1]
             m2 == [m1 EXCEPT !["recipient"].decryptable = v2]
             m3 == [m2 EXCEPT !["recipient"].public = v3]
  <2>1. v1 \in Int /\ v2 \in Int /\ v3 \in Int
    BY DEF Accounts, Balances
  <2>2. Moved(a, t) = [a EXCEPT !.recipient.available = v1, !.recipient.decryptable = v2,
                                !.recipient.public = v3]
    BY <1>5 DEF Moved, Accounts, Balances
  <2> HIDE DEF v1, v2, v3
  <2>3. Moved(a, t) = m3
    BY <2>2
  <2> HIDE DEF m1, m2, m3
  <2>4. Updated(m1, a, "recipient", "available", v1)
    BY <2>1, Setting DEF m1
  <2>5. Updated(m2, m1, "recipient", "decryptable", v2)
    BY <2>1, <2>4, Setting DEF m2, Updated
  <2>6. Updated(m3, m2, "recipient", "public", v3)
    BY <2>1, <2>5, Setting DEF m3, Updated
  <2> QED BY <1>5, <2>3, <2>4, <2>5, <2>6 DEF Updated, v1, v2, v3
<1>6. CASE t.op \notin {"mintTo", "deposit", "apply", "transfer", "withdraw"}
  BY <1>6 DEF Moved
<1> QED BY <1>1, <1>2, <1>3, <1>4, <1>5, <1>6

\* What a transaction may make of a chain.
Rejected(d, c, t) ==
    /\ d.ok = c.ok /\ d.err = c.err \cup {t} /\ d.did = c.did /\ d.acct = c.acct
Ignored(d, c, t) ==
    /\ d.ok = c.ok \cup {t} /\ d.err = c.err /\ d.did = c.did /\ d.acct = c.acct
    /\ defect = [op |-> t.op, how |-> "ignores"]
Applied(d, c, t) ==
    /\ d.ok = c.ok \cup {t} /\ d.err = c.err /\ d.did = c.did \cup {t}
    /\ d.acct = Moved(c.acct, t)
    /\ Accepts(c, t) /\ defect.op # t.op

\* A transaction is rejected, passed over or applied.
LEMMA Executed ==
    ASSUME NEW c \in Chains, NEW t \in Txs, KnownDefect
    PROVE  /\ Execute(c, t) \in Chains
           /\ \/ /\ Rejected(Execute(c, t), c, t)
                 /\ ~Accepts(c, t) \/ defect = [op |-> t.op, how |-> "rejects"]
              \/ Ignored(Execute(c, t), c, t)
                 /\ defect # [op |-> t.op, how |-> "rejects"]
              \/ Applied(Execute(c, t), c, t)
<1>1. CASE ~Accepts(c, t) \/ defect = [op |-> t.op, how |-> "rejects"]
  <2>1. Execute(c, t) = [c EXCEPT !.err = @ \cup {t}]
    BY <1>1 DEF Execute
  <2> QED BY <1>1, <2>1 DEF Chains, Rejected
<1>2. CASE ~(~Accepts(c, t) \/ defect = [op |-> t.op, how |-> "rejects"])
           /\ defect = [op |-> t.op, how |-> "ignores"]
  <2>1. Execute(c, t) = [c EXCEPT !.ok = @ \cup {t}]
    BY <1>2 DEF Execute
  <2> QED BY <1>2, <2>1 DEF Chains, Ignored
<1>3. CASE ~(~Accepts(c, t) \/ defect = [op |-> t.op, how |-> "rejects"])
           /\ defect # [op |-> t.op, how |-> "ignores"]
  <2>1. Execute(c, t) = [c EXCEPT !.ok = @ \cup {t}, !.did = @ \cup {t},
                                  !.acct = Moved(@, t)]
    BY <1>3 DEF Execute
  <2>2. defect.op # t.op
    <3>1. t.op # "none"
      BY Table DEF Items
    <3> QED BY <1>3, <3>1, DefectKinds
  <2>3. Moved(c.acct, t) \in Accounts
    BY Moving DEF Chains
  <2>4. Execute(c, t) \in Chains
    BY <2>1, <2>3 DEF Chains
  <2>5. Applied(Execute(c, t), c, t)
    BY <1>3, <2>1, <2>2 DEF Chains, Applied
  <2> QED BY <2>4, <2>5
<1> QED BY <1>1, <1>2, <1>3

\* What the existence of an account says of what was done.
LEMMA Accounted ==
    ASSUME NEW c \in Chains
    PROVE  /\ Exists(c, "setup", "mint") => MintTx \in c.did
           /\ \A on \in Holders : /\ Exists(c, "setup", on) => AccountTx(on) \in c.did
                                  /\ Configured(c, on) => ConfigureTx(on) \in c.did
           /\ \A part \in Parts :
                 /\ Exists(c, part, "equality") => VerifyTx(part, "equality") \in c.did
                 /\ Exists(c, part, "validity") => VerifyTx(part, "validity") \in c.did
                 /\ Exists(c, part, "range") => RangeTx(part) \in c.did
                 /\ Exists(c, part, "record") => RecordTx(part) \in c.did
<1>1. \A t \in c.did : t \in Txs
  BY DEF Chains
<1>2. ASSUME NEW part, NEW on, Exists(c, part, on)
      PROVE  \E t \in c.did : /\ t.op \in Creating /\ t.part = part /\ t.on = on
                              /\ t \in Txs
  BY <1>1, <1>2 DEF Exists, Did
<1>3. Exists(c, "setup", "mint") => MintTx \in c.did
  <2> SUFFICES ASSUME Exists(c, "setup", "mint") PROVE MintTx \in c.did
    OBVIOUS
  <2>1. PICK t \in c.did : t.op \in Creating /\ t.part = "setup" /\ t.on = "mint" /\ t \in Txs
    BY <1>2
  <2>2. t.op = "createMint"
    BY <2>1, Table DEF Creating, Holders, Parts, RecordTx, RangeTx, Step
  <2> QED BY <2>1, <2>2, Table
<1>4. ASSUME NEW on \in Holders
      PROVE  /\ Exists(c, "setup", on) => AccountTx(on) \in c.did
             /\ Configured(c, on) => ConfigureTx(on) \in c.did
  <2>1. ASSUME Exists(c, "setup", on) PROVE AccountTx(on) \in c.did
    <3>1. PICK t \in c.did : t.op \in Creating /\ t.part = "setup" /\ t.on = on /\ t \in Txs
      BY <1>2, <2>1
    <3>2. t.op = "createAccount"
      BY <3>1, Table DEF Creating, Holders, Parts, MintTx, RecordTx, RangeTx, Step
    <3> QED BY <3>1, <3>2, Table
  <2>2. ASSUME Configured(c, on) PROVE ConfigureTx(on) \in c.did
    BY <2>2, <1>1, Table DEF Configured, Did
  <2> QED BY <2>1, <2>2
<1>5. ASSUME NEW part \in Parts, NEW on \in {"equality", "validity", "range", "record"},
             Exists(c, part, on)
      PROVE  /\ on \in {"equality", "validity"} => VerifyTx(part, on) \in c.did
             /\ on = "range" => RangeTx(part) \in c.did
             /\ on = "record" => RecordTx(part) \in c.did
  <2>1. PICK t \in c.did : t.op \in Creating /\ t.part = part /\ t.on = on /\ t \in Txs
    BY <1>2, <1>5
  <2>2. /\ on \in {"equality", "validity"} => t.op = "verify"
        /\ on = "range" => t.op = "verifyRecord"
        /\ on = "record" => t.op = "createRecord"
    BY <2>1, Table DEF Creating, Holders, Parts, MintTx, RecordTx, RangeTx, Step
  <2> QED BY <2>1, <2>2, Table
<1> QED BY <1>3, <1>4, <1>5

-----------------------------------------------------------------------------
\* The books of a chain agree with what was done on it.
Booked(c) ==
    /\ c.acct["sender"].public = IF MintToTx \in c.did
                                 THEN IF DepositTx \in c.did THEN 5000 ELSE 10000
                                 ELSE 0
    /\ c.acct["recipient"].public = IF WithdrawTx \in c.did THEN 2000 ELSE 0
    /\ c.acct["sender"].available # 0 => ApplyTx("sender") \in c.did
    /\ c.acct["recipient"].pending # 0 => TransferTx \in c.did
    /\ c.acct["recipient"].available # 0 =>
          TransferTx \in c.did /\ ApplyTx("recipient") \in c.did

\* What was done had what it needs done before it.
Ordered(c) ==
    /\ \A on \in Holders :
          /\ AccountTx(on) \in c.did => MintTx \in c.did
          /\ ConfigureTx(on) \in c.did => AccountTx(on) \in c.did
    /\ DepositTx \in c.did => MintToTx \in c.did
    /\ \A part \in Parts :
          /\ VerifyTx(part, "equality") \in c.did => proof[part].claimed = proof[part].available
          /\ RangeTx(part) \in c.did =>
                RecordTx(part) \in c.did /\ Write(part, 1) \in c.did
    /\ TransferTx \in c.did =>
          ConfigureTx("sender") \in c.did /\ ApplyTx("sender") \in c.did
    /\ WithdrawTx \in c.did =>
          /\ TransferTx \in c.did
          /\ VerifyTx("withdraw", "equality") \in c.did /\ RangeTx("withdraw") \in c.did

\* A success is an effect, or the defect is that there is none.
Honest(c) ==
    /\ c.did \subseteq c.ok /\ c.ok \cap c.err = {}
    /\ \A t \in c.ok : /\ t \in c.did \/ defect = [op |-> t.op, how |-> "ignores"]
                       /\ defect # [op |-> t.op, how |-> "rejects"]
    /\ \A t \in c.did : defect.op # t.op

Sound(c) == c \in Chains /\ Booked(c) /\ Ordered(c) /\ Honest(c)

ProofType == proof \in [Parts -> [available : Int, claimed : Int]]

\* The proofs a transaction relies on were made for enough.
Proven(t) ==
    /\ t.part = "transfer" => proof["transfer"].claimed >= 5000
    /\ t.part = "withdraw" => proof["withdraw"].claimed = 5000

\* The fields of the named transactions.
LEMMA Names ==
    /\ MintTx.op = "createMint" /\ MintToTx.op = "mintTo" /\ DepositTx.op = "deposit"
    /\ TransferTx.op = "transfer" /\ WithdrawTx.op = "withdraw"
    /\ \A on : /\ AccountTx(on).op = "createAccount" /\ AccountTx(on).on = on
               /\ ConfigureTx(on).op = "configure" /\ ConfigureTx(on).on = on
               /\ ApplyTx(on).op = "apply" /\ ApplyTx(on).on = on
    /\ \A part, on : VerifyTx(part, on).op = "verify" /\ VerifyTx(part, on).part = part
                     /\ VerifyTx(part, on).on = on
    /\ \A part : /\ RecordTx(part).op = "createRecord" /\ RecordTx(part).part = part
                 /\ RangeTx(part).op = "verifyRecord" /\ RangeTx(part).part = part
                 /\ \A i : Write(part, i).op = "write" /\ Write(part, i).part = part
    /\ TransferTx.part = "transfer" /\ TransferTx.on = "sender"
    /\ WithdrawTx.part = "withdraw" /\ WithdrawTx.on = "recipient"
BY DEF MintTx, MintToTx, DepositTx, TransferTx, WithdrawTx, AccountTx, ConfigureTx,
       ApplyTx, VerifyTx, RecordTx, RangeTx, Step, Write

\* What a chain accepts finds its prerequisites done.
LEMMA Accepting ==
    ASSUME NEW c \in Chains, NEW t \in Txs, Accepts(c, t),
           Booked(c), Ordered(c), ProofType, Proven(t)
    PROVE  /\ t.op = "createAccount" => MintTx \in c.did
           /\ t.op = "configure" => AccountTx(t.on) \in c.did
           /\ t.op = "deposit" => MintToTx \in c.did
           /\ t.op = "verify" /\ t.on = "equality" =>
                 proof[t.part].claimed = proof[t.part].available
           /\ t.op = "verifyRecord" =>
                 RecordTx(t.part) \in c.did /\ Write(t.part, 1) \in c.did
           /\ t.op = "transfer" =>
                 /\ ConfigureTx("sender") \in c.did /\ ApplyTx("sender") \in c.did
                 /\ c.acct["sender"].available >= 5000
           /\ t.op = "withdraw" =>
                 /\ TransferTx \in c.did
                 /\ VerifyTx("withdraw", "equality") \in c.did /\ RangeTx("withdraw") \in c.did
                 /\ c.acct["recipient"].available = 5000 /\ ApplyTx("recipient") \in c.did
<1>1. t.op = "createAccount" => MintTx \in c.did
  BY Accounted DEF Accepts
<1>2. t.op = "configure" => AccountTx(t.on) \in c.did
  BY Accounted, Table DEF Accepts
<1>3. t.op = "deposit" => MintToTx \in c.did
  <2>1. t.op = "deposit" => c.acct["sender"].public >= 5000
    BY DEF Accepts, DEPOSIT_AMOUNT
  <2> QED BY <2>1 DEF Booked
<1>4. t.op = "verify" /\ t.on = "equality" =>
         proof[t.part].claimed = proof[t.part].available
  BY DEF Accepts
<1>5. ASSUME t.op = "verifyRecord"
      PROVE  RecordTx(t.part) \in c.did /\ Write(t.part, 1) \in c.did
  <2>1. t.part \in Parts
    BY <1>5, Table
  <2>2. Exists(c, t.part, "record")
    BY <1>5 DEF Accepts
  <2>3. Write(t.part, 1) \in c.did
    <3>1. 1 \in 1..ProofLen[t.part] /\ (1 - 1) * RECORD_WRITE_CHUNK < ProofLen[t.part]
      BY <2>1 DEF Parts, ProofLen, RECORD_WRITE_CHUNK
    <3> QED BY <1>5, <3>1 DEF Accepts
  <2> QED BY <2>1, <2>2, <2>3, Accounted
<1>6. ASSUME t.op = "transfer"
      PROVE  /\ ConfigureTx("sender") \in c.did /\ ApplyTx("sender") \in c.did
             /\ c.acct["sender"].available >= 5000
  <2>1. t.part = "transfer" /\ t.on = "sender" /\ "transfer" \in Parts /\ "sender" \in Holders
    BY <1>6, Table, Names DEF Parts, Holders
  <2>2. /\ Configured(c, "sender") /\ Exists(c, "transfer", "equality")
        /\ c.acct["sender"].available = proof["transfer"].available
    BY <1>6, <2>1 DEF Accepts
  <2>3. ConfigureTx("sender") \in c.did /\ VerifyTx("transfer", "equality") \in c.did
    BY <2>1, <2>2, Accounted
  <2>4. c.acct["sender"].available >= 5000
    BY <2>1, <2>2, <2>3 DEF Ordered, Proven
  <2>5. c.acct["sender"].available # 0
    BY <2>4
  <2> QED BY <2>3, <2>4, <2>5 DEF Booked
<1>7. ASSUME t.op = "withdraw"
      PROVE  /\ TransferTx \in c.did
             /\ VerifyTx("withdraw", "equality") \in c.did /\ RangeTx("withdraw") \in c.did
             /\ c.acct["recipient"].available = 5000 /\ ApplyTx("recipient") \in c.did
  <2>1. t.part = "withdraw" /\ t.on = "recipient" /\ "withdraw" \in Parts
    BY <1>7, Table, Names DEF Parts
  <2>2. /\ Exists(c, "withdraw", "equality") /\ Exists(c, "withdraw", "range")
        /\ c.acct["recipient"].available = proof["withdraw"].available
    BY <1>7, <2>1 DEF Accepts
  <2>3. RangeTx("withdraw") \in c.did /\ VerifyTx("withdraw", "equality") \in c.did
    BY <2>1, <2>2, Accounted
  <2>4. c.acct["recipient"].available = 5000
    BY <2>1, <2>2, <2>3 DEF Ordered, Proven
  <2>5. c.acct["recipient"].available # 0
    BY <2>4
  <2> QED BY <2>3, <2>4, <2>5 DEF Booked
<1> QED BY <1>1, <1>2, <1>3, <1>4, <1>5, <1>6, <1>7

\* The execution of a transaction that is new to a chain leaves it sound.
LEMMA SoundStep ==
    ASSUME NEW c, Sound(c), NEW t \in Txs, t \notin c.ok \cup c.err,
           KnownDefect, ProofType, Proven(t)
    PROVE  Sound(Execute(c, t))
<1> DEFINE d == Execute(c, t)
<1>1. /\ c \in Chains /\ Booked(c) /\ Ordered(c) /\ Honest(c)
      /\ d \in Chains
  BY Executed DEF Sound
<1>2. c.did \subseteq Txs /\ c.acct \in Accounts /\ t \notin c.did
  BY <1>1 DEF Chains, Honest
<1>3. \/ Rejected(d, c, t)
      \/ Ignored(d, c, t) /\ defect # [op |-> t.op, how |-> "rejects"]
      \/ Applied(d, c, t)
  BY <1>1, Executed
<1> HIDE DEF d
<1>4. CASE Rejected(d, c, t)
  <2>1. Booked(d) /\ Ordered(d)
    BY <1>1, <1>4 DEF Rejected, Booked, Ordered
  <2>2. Honest(d)
    BY <1>1, <1>4 DEF Rejected, Honest
  <2> QED BY <1>1, <2>1, <2>2 DEF Sound, d
<1>5. CASE Ignored(d, c, t) /\ defect # [op |-> t.op, how |-> "rejects"]
  <2>1. Booked(d) /\ Ordered(d)
    BY <1>1, <1>5 DEF Ignored, Booked, Ordered
  <2>2. Honest(d)
    BY <1>1, <1>5 DEF Ignored, Honest
  <2> QED BY <1>1, <2>1, <2>2 DEF Sound, d
<1>6. CASE Applied(d, c, t)
  <2> DEFINE m == Moved(c.acct, t)
  <2>1. /\ d.did = c.did \cup {t} /\ d.ok = c.ok \cup {t} /\ d.err = c.err
        /\ d.acct = m /\ Accepts(c, t) /\ defect.op # t.op
    BY <1>6 DEF Applied
  <2>2. Honest(d)
    <3>1. /\ defect # [op |-> t.op, how |-> "rejects"]
          /\ defect # [op |-> t.op, how |-> "ignores"]
      BY <2>1
    <3> QED BY <1>1, <2>1, <3>1 DEF Honest
  <2>3. /\ t.op = "createAccount" => MintTx \in c.did
        /\ t.op = "configure" => AccountTx(t.on) \in c.did
        /\ t.op = "deposit" => MintToTx \in c.did
        /\ t.op = "verify" /\ t.on = "equality" =>
              proof[t.part].claimed = proof[t.part].available
        /\ t.op = "verifyRecord" =>
              RecordTx(t.part) \in c.did /\ Write(t.part, 1) \in c.did
        /\ t.op = "transfer" =>
              /\ ConfigureTx("sender") \in c.did /\ ApplyTx("sender") \in c.did
              /\ c.acct["sender"].available >= 5000
        /\ t.op = "withdraw" =>
              /\ TransferTx \in c.did
              /\ VerifyTx("withdraw", "equality") \in c.did /\ RangeTx("withdraw") \in c.did
              /\ c.acct["recipient"].available = 5000 /\ ApplyTx("recipient") \in c.did
    BY <1>1, <2>1, Accepting
  <2>4. Ordered(d)
    BY <1>1, <1>2, <2>1, <2>3, Names DEF Ordered
  <2>5. Booked(d)
    <3>1. /\ t.op = "mintTo" <=> t = MintToTx
          /\ t.op = "deposit" <=> t = DepositTx
          /\ t.op = "transfer" <=> t = TransferTx
          /\ t.op = "withdraw" <=> t = WithdrawTx
          /\ t.op = "apply" /\ t.on = "sender" <=> t = ApplyTx("sender")
          /\ t.op = "apply" /\ t.on = "recipient" <=> t = ApplyTx("recipient")
          /\ MintToTx # DepositTx /\ ApplyTx("recipient") # TransferTx
      BY Table, Names
    <3>2. /\ m["sender"].public =
                 IF t.op = "mintTo" THEN c.acct["sender"].public + 10000
                 ELSE IF t.op = "deposit" THEN c.acct["sender"].public - 5000
                 ELSE c.acct["sender"].public
          /\ m["recipient"].public =
                 IF t.op = "withdraw" THEN c.acct["recipient"].public + 2000
                 ELSE c.acct["recipient"].public
          /\ m["recipient"].pending =
                 IF t.op = "transfer" THEN c.acct["recipient"].pending + 5000
                 ELSE IF t.op = "apply" /\ t.on = "recipient" THEN 0
                 ELSE c.acct["recipient"].pending
          /\ m["sender"].available =
                 IF t.op = "apply" /\ t.on = "sender"
                 THEN c.acct["sender"].available + c.acct["sender"].pending
                 ELSE IF t.op = "transfer" THEN c.acct["sender"].available - 5000
                 ELSE c.acct["sender"].available
          /\ m["recipient"].available =
                 IF t.op = "apply" /\ t.on = "recipient"
                 THEN c.acct["recipient"].available + c.acct["recipient"].pending
                 ELSE IF t.op = "withdraw" THEN c.acct["recipient"].available - 2000
                 ELSE c.acct["recipient"].available
      BY <1>2, Moving
    <3>3. \A h \in Holders : /\ c.acct[h].public \in Int /\ c.acct[h].pending \in Int
                             /\ c.acct[h].available \in Int
      BY <1>2 DEF Accounts, Balances
    <3>4. "sender" \in Holders /\ "recipient" \in Holders
      BY DEF Holders
    <3> HIDE DEF m
    <3>5. d.acct["sender"].public = IF MintToTx \in d.did
                                    THEN IF DepositTx \in d.did THEN 5000 ELSE 10000
                                    ELSE 0
      BY <1>1, <1>2, <2>1, <2>3, <3>1, <3>2 DEF Booked, Ordered
    <3>6. d.acct["recipient"].public = IF WithdrawTx \in d.did THEN 2000 ELSE 0
      BY <1>1, <1>2, <2>1, <3>1, <3>2 DEF Booked
    <3>7. d.acct["sender"].available # 0 => ApplyTx("sender") \in d.did
      BY <1>1, <1>2, <2>1, <2>3, <3>1, <3>2 DEF Booked
    <3>8. d.acct["recipient"].pending # 0 => TransferTx \in d.did
      BY <1>1, <1>2, <2>1, <3>1, <3>2 DEF Booked
    <3>9. d.acct["recipient"].available # 0 =>
             TransferTx \in d.did /\ ApplyTx("recipient") \in d.did
      BY <1>1, <1>2, <2>1, <2>3, <3>1, <3>2, <3>3, <3>4 DEF Booked
    <3> QED BY <3>5, <3>6, <3>7, <3>8, <3>9 DEF Booked
  <2> QED BY <1>1, <2>2, <2>4, <2>5 DEF Sound, d
<1> QED BY <1>3, <1>4, <1>5, <1>6 DEF d

-----------------------------------------------------------------------------
\* The parts of the line.
LEMMA PartsOf ==
    /\ Flow[1].part = "setup" /\ Flow[2].part = "setup" /\ Flow[3].part = "setup"
    /\ Flow[4].part = "setup" /\ Flow[5].part = "setup" /\ Flow[6].part = "setup"
    /\ Flow[7].part = "setup" /\ Flow[8].part = "setup" /\ Flow[9].part = "setup"
    /\ Flow[10].part = "transfer" /\ Flow[11].part = "transfer" /\ Flow[12].part = "transfer"
    /\ Flow[13].part = "transfer" /\ Flow[14].part = "transfer" /\ Flow[15].part = "transfer"
    /\ Flow[16].part = "transfer" /\ Flow[17].part = "transfer" /\ Flow[18].part = "transfer"
    /\ Flow[19].part = "transfer" /\ Flow[20].part = "transfer" /\ Flow[21].part = "transfer"
    /\ Flow[22].part = "setup" /\ Flow[23].part = "setup" /\ Flow[24].part = "withdraw"
    /\ Flow[25].part = "withdraw" /\ Flow[26].part = "withdraw" /\ Flow[27].part = "withdraw"
    /\ Flow[28].part = "withdraw" /\ Flow[29].part = "withdraw" /\ Flow[30].part = "withdraw"
    /\ Flow[31].part = "withdraw" /\ Flow[32].part = "withdraw" /\ Flow[33].part = "withdraw"
    /\ Flow[34].part = "end" /\ Flow[35].part = "end" /\ Flow[36].part = "end"
BY FlowLine DEF Step, Write

\* The transactions of a part lie between its prove step and the next part.
LEMMA PartPlaces ==
    ASSUME NEW t \in Txs
    PROVE  /\ t.part = "transfer" => Rank(t) \in 11..21
           /\ t.part = "withdraw" => Rank(t) \in 25..33
<1>1. PICK i \in 1..36 : i = Rank(t) /\ t = Flow[i] /\ i <= 33
  BY Table
<1>2. /\ Flow[i].part = "transfer" => i \in 10..21
      /\ Flow[i].part = "withdraw" => i \in 24..36
  BY Split, PartsOf
<1>3. i # 10 /\ i # 24
  BY <1>1, Table, Places
<1> QED BY <1>1, <1>2, <1>3

\* The transactions before a step of the line.
Before(k) == {t \in Txs : Rank(t) < k}

\* One step on, one transaction more is behind the test, or none after a read.
LEMMA BeforeNext ==
    ASSUME NEW k \in 1..36
    PROVE  /\ Flow[k] \in Txs <=> Flow[k].op \notin Reads
           /\ Flow[k] \in Txs => Before(k + 1) = Before(k) \cup {Flow[k]}
           /\ Flow[k] \notin Txs => Before(k + 1) = Before(k)
           /\ Flow[k] \notin Before(k)
<1>1. Rank(Flow[k]) = k /\ \A t \in Txs : Rank(t) \in 1..33 /\ Flow[Rank(t)] = t
  BY Ranked, Table
<1>2. Flow[k] \in Steps
  BY Ranked DEF Steps
<1>3. \A t \in Txs : Rank(t) < k + 1 <=> Rank(t) < k \/ t = Flow[k]
  BY <1>1
<1> QED BY <1>1, <1>2, <1>3 DEF Before, Txs

\* At the start no transaction is behind the test, at the last step all are.
LEMMA BeforeEnds ==
    Before(0) = {} /\ Before(1) = {} /\ Before(36) = Txs
<1>1. \A t \in Txs : Rank(t) \in 1..33
  BY Table
<1> QED BY <1>1 DEF Before

\* The step the test is at.
LEMMA NowIs ==
    ASSUME step \in 0..36
    PROVE  /\ step = 0 => Now \notin Txs /\ Now.op = "none"
           /\ step \in 1..36 => Now = Flow[step] /\ Rank(Now) = step
           /\ Now \in Txs <=> step \in 1..36 /\ Now.op \notin Reads
           /\ Now \in Txs => step <= 33
<1>1. CASE step = 0
  <2>1. Now = Step("none", "end", "none")
    BY <1>1, Ranked DEF Now
  <2>2. Now.op = "none"
    BY <2>1 DEF Step
  <2> QED BY <1>1, <2>2, Table DEF Items
<1>2. CASE step \in 1..36
  <2>1. Now = Flow[step]
    BY <1>2, Ranked DEF Now
  <2> QED BY <1>2, <2>1, Ranked, BeforeNext, Table
<1> QED BY <1>1, <1>2

\* What the test is past is what it has reported, and it has passed at its last step.
Place ==
    /\ network \in {"localnet", "live", "otherProgram", "noProgram"}
    /\ step \in 0..36 /\ waiting \in BOOLEAN
    /\ outcome \in {"none", "pass", "fail", "skip"}
    /\ step # 0 => network = "live"
    /\ waiting => Now \in Txs
    /\ sigs \cup records = Before(step)
    /\ records # {} => Now.op \in RecordOps
    /\ outcome = "pass" => step = 36

\* Place holds at the start.
LEMMA PlaceInit ==
    ASSUME Init
    PROVE  Place
<1>1. /\ network \in {"localnet", "live", "otherProgram", "noProgram"}
      /\ step = 0 /\ waiting = FALSE /\ records = {} /\ sigs = {} /\ outcome = "none"
  BY DEF Init
<1>2. sigs \cup records = Before(step)
  BY <1>1, BeforeEnds
<1>3. waiting \in BOOLEAN /\ ~waiting
  BY <1>1
<1>4. outcome \in {"none", "pass", "fail", "skip"} /\ outcome # "pass" /\ step \in 0..36
  BY <1>1
<1> QED BY <1>1, <1>2, <1>3, <1>4 DEF Place

\* What the test is at after a step.
LEMMA NowNext ==
    ASSUME step \in 1..35, step' = step + 1
    PROVE  Now' = Flow[step + 1]
BY Ranked DEF Now

\* The places where the test reads and goes on.
LEMMA PlaceReads ==
    ASSUME Place, Running, Now.op \in Reads, Now.op # "readRecipient", GoOn, UNCHANGED network
    PROVE  /\ Place'
           /\ step \in 1..35 /\ ~waiting /\ records = {} /\ Before(step') = Before(step)
<1>1. Now.op # "none"
  BY DEF Reads
<1>2. step \in 1..36 /\ Now = Flow[step] /\ Now \notin Txs
  BY <1>1, NowIs, Table DEF Place
<1>3. step # 36
  <2>1. Flow[36].op = "readRecipient"
    BY Ops
  <2> QED BY <1>2, <2>1
<1>4. records = {}
  BY DEF Place, Reads, RecordOps
<1>5. ~waiting
  BY <1>2 DEF Place
<1>6. Before(step + 1) = Before(step)
  BY <1>2, BeforeNext
<1>7. step' = step + 1 /\ UNCHANGED <<waiting, records, sigs, outcome, network>>
  BY DEF GoOn
<1> QED BY <1>2, <1>3, <1>4, <1>5, <1>6, <1>7 DEF Place, Running

\* A return keeps the place.
LEMMA PlaceReturns ==
    ASSUME Place, NEW o \in {"fail", "skip"}, Return(o), UNCHANGED network
    PROVE  Place'
BY DEF Place, Return, Now

\* Every step keeps Place: what the test is past is what it reports.
LEMMA PlaceStep ==
    ASSUME Place, [Next]_vars
    PROVE  Place'
<1>1. CASE Start
  <2>1. CASE network = "localnet" \/ network # "live"
    BY <1>1, <2>1, PlaceReturns DEF Start
  <2>2. CASE network = "live"
    <3>1. /\ step = 0 /\ step' = 1
          /\ UNCHANGED <<network, waiting, proof, senderSaw, records, sigs, outcome>>
      BY <1>1, <2>2 DEF Start
    <3>2. ~waiting /\ records = {}
      BY <3>1, NowIs, BeforeEnds DEF Place
    <3> QED BY <1>1, <2>2, <3>1, <3>2, BeforeEnds DEF Place, Start, Running
  <2> QED BY <2>1, <2>2
<1>2. CASE Send
  <2>1. /\ step \in DOMAIN Flow /\ Now.op \notin Reads /\ waiting' = TRUE
        /\ UNCHANGED <<network, step, records, sigs, outcome>>
    BY <1>2 DEF Send
  <2>2. Now \in Txs /\ Now' = Now
    BY <2>1, NowIs, Ranked DEF Place, Now
  <2> QED BY <1>2, <2>1, <2>2 DEF Place
<1>3. CASE Poll
  <2>1. CASE Return("fail")
    BY <1>3, <2>1, PlaceReturns DEF Poll
  <2>2. CASE /\ Report(Now) /\ step' = step + 1 /\ waiting' = FALSE
             /\ UNCHANGED <<proof, senderSaw, outcome>>
    <3>1. Running /\ waiting /\ UNCHANGED network
      BY <1>3 DEF Poll
    <3>2. Now \in Txs /\ step \in 1..33 /\ Now = Flow[step]
      BY <3>1, NowIs DEF Place
    <3>3. Before(step + 1) = Before(step) \cup {Now} /\ Now' = Flow[step + 1]
      BY <2>2, <3>2, BeforeNext, NowNext
    <3>4. \/ /\ records' = records \cup {Now} /\ sigs' = sigs
             /\ Flow[step + 1].op \in RecordOps
          \/ sigs' = sigs \cup (records \cup {Now}) /\ records' = {}
      BY <2>2 DEF Report
    <3>5. records' # {} => Now'.op \in RecordOps
      BY <3>3, <3>4
    <3>6. sigs' \cup records' = Before(step')
      <4>1. sigs \cup records = Before(step)
        BY DEF Place
      <4> QED BY <2>2, <3>3, <3>4, <4>1
    <3>7. waiting' \in BOOLEAN /\ ~waiting'
      BY <2>2
    <3>8. /\ network' = network /\ network = "live" /\ step' \in 0..36
          /\ network \in {"localnet", "live", "otherProgram", "noProgram"}
          /\ outcome' = "none"
      BY <2>2, <3>1, <3>2 DEF Place, Running
    <3> QED BY <3>5, <3>6, <3>7, <3>8 DEF Place
  <2> QED BY <1>3, <2>1, <2>2 DEF Poll
<1>4. CASE GiveUp
  BY <1>4, PlaceReturns DEF GiveUp
<1>5. CASE RpcFails
  BY <1>5, PlaceReturns DEF RpcFails
<1>6. CASE ReadCounter
  <2>1. Running /\ Now.op = "counter" /\ UNCHANGED network
    BY <1>6 DEF ReadCounter, Reading
  <2>2. GoOn \/ Return("fail")
    BY <1>6 DEF ReadCounter
  <2> QED BY <2>1, <2>2, PlaceReads, PlaceReturns DEF Reads
<1>7. CASE Prove
  <2>1. Running /\ Now.op = "prove" /\ UNCHANGED network
    BY <1>7 DEF Prove, Reading
  <2>2. GoOn \/ Return("fail")
    BY <1>7 DEF Prove
  <2> QED BY <2>1, <2>2, PlaceReads, PlaceReturns DEF Reads
<1>8. CASE Audit
  <2>1. Running /\ Now.op = "audit" /\ UNCHANGED network
    BY <1>8 DEF Audit, Reading
  <2>2. GoOn \/ Return("fail")
    BY <1>8 DEF Audit
  <2> QED BY <2>1, <2>2, PlaceReads, PlaceReturns DEF Reads
<1>9. CASE ReadSender
  <2>1. Running /\ Now.op = "readSender" /\ UNCHANGED network
    BY <1>9 DEF ReadSender, Reading
  <2>2. GoOn \/ Return("fail")
    BY <1>9 DEF ReadSender
  <2> QED BY <2>1, <2>2, PlaceReads, PlaceReturns DEF Reads
<1>10. CASE ReadRecipient
  <2>1. /\ Now.op = "readRecipient" /\ UNCHANGED <<network, step, waiting, records, sigs>>
        /\ outcome' \in {"pass", "fail"}
    BY <1>10 DEF ReadRecipient, Reading, Return
  <2>2. step = 36
    <3>1. step \in 1..36 /\ Now = Flow[step]
      BY <2>1, NowIs DEF Place
    <3> QED BY <2>1, <3>1, Places
  <2> QED BY <2>1, <2>2 DEF Place, Now
<1>11. CASE (\E t \in sent : Process(t)) \/ Confirm \/ Drop \/ UNCHANGED vars
  <2>1. UNCHANGED <<network, host>>
    BY <1>11 DEF Process, Confirm, Drop, vars
  <2> QED BY <2>1 DEF Place, host, Now
<1> QED BY <1>1, <1>2, <1>3, <1>4, <1>5, <1>6, <1>7, <1>8, <1>9, <1>10, <1>11
        DEF Next, Host

\* The test goes past a transaction only on its success.
LEMMA BeforeStep ==
    ASSUME Place, [Next]_vars
    PROVE  Before(step') \subseteq Before(step) \cup processed.ok
<1>1. ASSUME Running, Now.op \in Reads, Now.op # "readRecipient", GoOn, UNCHANGED network
      PROVE  Before(step') = Before(step)
  BY <1>1, PlaceReads
<1>2. CASE Start
  <2>1. step' = step \/ (step = 0 /\ step' = 1)
    BY <1>2 DEF Start, Return
  <2> QED BY <2>1, BeforeEnds
<1>3. CASE Send \/ GiveUp \/ RpcFails \/ ReadRecipient \/ UNCHANGED vars
           \/ (\E t \in sent : Process(t)) \/ Confirm \/ Drop
  <2>1. step' = step
    BY <1>3 DEF Send, GiveUp, RpcFails, ReadRecipient, Return, vars, Process, Confirm,
       Drop, host
  <2> QED BY <2>1
<1>4. CASE Poll
  <2>1. CASE step' = step
    BY <2>1
  <2>2. CASE step' = step + 1 /\ Now \in processed.ok
    <3>1. Now \in Txs /\ step \in 1..36 /\ Now = Flow[step]
      BY <1>4, NowIs DEF Poll, Place
    <3> QED BY <2>2, <3>1, BeforeNext
  <2> QED BY <1>4, <2>1, <2>2 DEF Poll, Return
<1>5. CASE ReadCounter
  <2>1. /\ Running /\ Now.op = "counter" /\ UNCHANGED network
        /\ GoOn \/ step' = step
    BY <1>5 DEF ReadCounter, Reading, Return
  <2> QED BY <1>1, <2>1 DEF Reads
<1>6. CASE Prove
  <2>1. /\ Running /\ Now.op = "prove" /\ UNCHANGED network
        /\ GoOn \/ step' = step
    BY <1>6 DEF Prove, Reading, Return
  <2> QED BY <1>1, <2>1 DEF Reads
<1>7. CASE Audit
  <2>1. /\ Running /\ Now.op = "audit" /\ UNCHANGED network
        /\ GoOn \/ step' = step
    BY <1>7 DEF Audit, Reading, Return
  <2> QED BY <1>1, <2>1 DEF Reads
<1>8. CASE ReadSender
  <2>1. /\ Running /\ Now.op = "readSender" /\ UNCHANGED network
        /\ GoOn \/ step' = step
    BY <1>8 DEF ReadSender, Reading, Return
  <2> QED BY <1>1, <2>1 DEF Reads
<1> QED BY <1>2, <1>3, <1>4, <1>5, <1>6, <1>7, <1>8 DEF Next, Host

-----------------------------------------------------------------------------
\* The step whose transaction may be out although the test is not past it.
Current == IF waiting \/ outcome # "none" THEN {Now} ELSE {}
Reach == Before(step) \cup Current

\* What may be on the network stays possible.
LEMMA ReachGrows ==
    ASSUME Place, [Next]_vars
    PROVE  Reach \subseteq Reach'
<1> DEFINE Returns == \E o \in {"pass", "fail", "skip"} : Return(o)
<1>1. ASSUME Returns
      PROVE  Reach \subseteq Reach'
  BY <1>1 DEF Return, Reach, Current, Now
<1>2. ASSUME Running, Now.op \in Reads, Now.op # "readRecipient", GoOn, UNCHANGED network
      PROVE  Reach \subseteq Reach'
  BY <1>2, PlaceReads DEF Reach, Current, Running
<1>3. ASSUME UNCHANGED host
      PROVE  Reach \subseteq Reach'
  BY <1>3 DEF host, Reach, Current, Now
<1>4. CASE Start
  <2>1. CASE Returns
    BY <1>1, <2>1
  <2>2. CASE step = 0 /\ step' = 1 /\ Running /\ UNCHANGED waiting
    <3>1. ~waiting /\ Before(0) = {}
      BY <2>2, NowIs, BeforeEnds DEF Place
    <3> QED BY <2>2, <3>1 DEF Reach, Current, Running
  <2> QED BY <1>4, <2>1, <2>2 DEF Start
<1>5. CASE Send
  <2>1. Running /\ ~waiting /\ step' = step
    BY <1>5 DEF Send
  <2> QED BY <2>1 DEF Reach, Current, Running
<1>6. CASE Poll
  <2>1. CASE Returns
    BY <1>1, <2>1
  <2>2. CASE step' = step + 1
    <3>1. Running /\ Now \in Txs /\ step \in 1..36 /\ Now = Flow[step]
      BY <1>6, NowIs DEF Poll, Place
    <3>2. Before(step + 1) = Before(step) \cup {Now}
      BY <3>1, BeforeNext
    <3> QED BY <2>2, <3>1, <3>2 DEF Reach, Current
  <2> QED BY <1>6, <2>1, <2>2 DEF Poll
<1>7. CASE GiveUp \/ RpcFails \/ ReadRecipient
  BY <1>1, <1>7 DEF GiveUp, RpcFails, ReadRecipient
<1>8. CASE ReadCounter
  <2>1. Running /\ Now.op = "counter" /\ UNCHANGED network
    BY <1>8 DEF ReadCounter, Reading
  <2>2. GoOn \/ Return("fail")
    BY <1>8 DEF ReadCounter
  <2> QED BY <2>1, <2>2, <1>1, <1>2 DEF Reads
<1>9. CASE Prove
  <2>1. Running /\ Now.op = "prove" /\ UNCHANGED network
    BY <1>9 DEF Prove, Reading
  <2>2. GoOn \/ Return("fail")
    BY <1>9 DEF Prove
  <2> QED BY <2>1, <2>2, <1>1, <1>2 DEF Reads
<1>10. CASE Audit
  <2>1. Running /\ Now.op = "audit" /\ UNCHANGED network
    BY <1>10 DEF Audit, Reading
  <2>2. GoOn \/ Return("fail")
    BY <1>10 DEF Audit
  <2> QED BY <2>1, <2>2, <1>1, <1>2 DEF Reads
<1>11. CASE ReadSender
  <2>1. Running /\ Now.op = "readSender" /\ UNCHANGED network
    BY <1>11 DEF ReadSender, Reading
  <2>2. GoOn \/ Return("fail")
    BY <1>11 DEF ReadSender
  <2> QED BY <2>1, <2>2, <1>1, <1>2 DEF Reads
<1>12. CASE (\E t \in sent : Process(t)) \/ Confirm \/ Drop \/ UNCHANGED vars
  <2>1. UNCHANGED host
    BY <1>12 DEF Process, Confirm, Drop, vars
  <2> QED BY <2>1, <1>3
<1> QED BY <1>4, <1>5, <1>6, <1>7, <1>8, <1>9, <1>10, <1>11, <1>12 DEF Next, Host

-----------------------------------------------------------------------------
OnFork == {fork[i] : i \in 1..Len(fork)}
Decided(c) == c.ok \cup c.err

\* A transaction is waiting, on the fork or confirmed, never two of these, and none
\* beyond the current one is anywhere.
Net ==
    /\ KnownDefect
    /\ sent \subseteq Txs /\ fork \in Seq(Txs) /\ Len(fork) <= MaxLag
    /\ drops \in 0..MaxDrops /\ faults \subseteq {"rpc", "timeout", "drop", "stale"}
    /\ ever \subseteq Txs
    /\ ever \cup sent \cup OnFork \cup Decided(confirmed) \subseteq Reach
    /\ sent \cap OnFork = {} /\ sent \cap Decided(confirmed) = {}
    /\ OnFork \cap Decided(confirmed) = {}
    /\ \A i, j \in 1..Len(fork) : fork[i] = fork[j] => i = j
    /\ Decided(processed) = Decided(confirmed) \cup OnFork
    /\ processed \in Chains /\ confirmed \in Chains

\* The chain before the test.
LEMMA EmptyChainIs ==
    /\ EmptyChain \in Chains
    /\ EmptyChain.ok = {} /\ EmptyChain.err = {} /\ EmptyChain.did = {}
    /\ \A h \in Holders : EmptyChain.acct[h] = EmptyAccount
BY DEF EmptyChain, EmptyAccount, Chains, Accounts, Balances, Holders

\* Net holds at the start.
LEMMA NetInit ==
    ASSUME Init
    PROVE  Net
<1>1. /\ KnownDefect /\ sent = {} /\ fork = <<>> /\ drops = 0 /\ faults = {} /\ ever = {}
      /\ processed = EmptyChain /\ confirmed = EmptyChain
  BY DEF Init, KnownDefect
<1>2. fork \in Seq(Txs) /\ Len(fork) = 0 /\ OnFork = {}
  BY <1>1 DEF OnFork
<1>3. Decided(processed) = {} /\ Decided(confirmed) = {}
  BY <1>1, EmptyChainIs DEF Decided
<1>4. drops \in 0..MaxDrops /\ Len(fork) <= MaxLag
  BY <1>1, <1>2, LagAssumption, DropsAssumption
<1> QED BY <1>1, <1>2, <1>3, <1>4, EmptyChainIs DEF Net

\* An executed transaction has a status.
LEMMA DecidedNext ==
    ASSUME NEW c \in Chains, NEW t \in Txs, KnownDefect
    PROVE  Execute(c, t) \in Chains /\ Decided(Execute(c, t)) = Decided(c) \cup {t}
BY Executed DEF Decided, Rejected, Ignored, Applied

\* A step that sends at most the current transaction.
LEMMA NetSends ==
    ASSUME Place, Net, [Next]_vars,
           UNCHANGED <<defect, fork, processed, confirmed, drops, ever>>,
           sent' = sent \/ (sent' = sent \cup {Now} /\ Now \in Txs /\ Running /\ ~waiting
                            /\ Now \in Reach'),
           faults' \subseteq {"rpc", "timeout", "drop", "stale"}
    PROVE  Net'
<1>1. Reach \subseteq Reach'
  BY ReachGrows
<1>2. OnFork' = OnFork
  BY DEF OnFork
<1>3. CASE sent' = sent
  BY <1>1, <1>2, <1>3 DEF Net, KnownDefect, Decided
<1>4. CASE sent' = sent \cup {Now} /\ Now \in Txs /\ Running /\ ~waiting /\ Now \in Reach'
  <2>1. Current = {}
    BY <1>4 DEF Current, Running
  <2>2. Now \notin Before(step)
    BY <1>4, NowIs, BeforeNext DEF Place
  <2>3. Now \notin sent \cup OnFork \cup Decided(confirmed)
    BY <2>1, <2>2 DEF Net, Reach
  <2> QED BY <1>1, <1>2, <1>4, <2>3 DEF Net, KnownDefect, Decided
<1> QED BY <1>3, <1>4

\* Process keeps Net.
LEMMA NetProcess ==
    ASSUME Place, Net, NEW t \in sent, Process(t)
    PROVE  Net'
<1>1. /\ t \in Txs /\ fork \in Seq(Txs) /\ KnownDefect
      /\ processed \in Chains /\ confirmed \in Chains
  BY DEF Net
<1>2. /\ sent' = sent \ {t} /\ fork' = Append(fork, t) /\ Len(fork) < MaxLag
      /\ processed' = Execute(processed, t)
      /\ ever' = ever \/ ever' = ever \cup {t}
      /\ UNCHANGED <<defect, confirmed, drops, faults, host>>
  BY DEF Process
<1>3. /\ fork' \in Seq(Txs) /\ Len(fork') = Len(fork) + 1 /\ fork'[Len(fork) + 1] = t
      /\ \A i \in 1..Len(fork) : fork'[i] = fork[i]
      /\ Len(fork) \in Nat
  BY <1>1, <1>2
<1>4. OnFork' = OnFork \cup {t}
  BY <1>3 DEF OnFork
<1>5. processed' \in Chains /\ Decided(processed') = Decided(processed) \cup {t}
  BY <1>1, <1>2, DecidedNext
<1>6. Reach' = Reach
  BY <1>2 DEF host, Reach, Current, Now
<1>7. \A i, j \in 1..Len(fork') : fork'[i] = fork'[j] => i = j
  <2>1. \A i \in 1..Len(fork) : fork[i] # t
    BY DEF Net, OnFork
  <2>2. \A i \in 1..Len(fork') : i \in 1..Len(fork) \/ i = Len(fork) + 1
    BY <1>3
  <2> QED BY <1>3, <2>1, <2>2 DEF Net
<1>8. Len(fork') <= MaxLag
  BY <1>2, <1>3, LagAssumption
<1>9. Decided(processed)' = Decided(processed') /\ Decided(confirmed)' = Decided(confirmed)
  BY <1>2 DEF Decided
<1> QED BY <1>1, <1>2, <1>3, <1>4, <1>5, <1>6, <1>7, <1>8, <1>9 DEF Net, KnownDefect

\* Confirm keeps Net: the head of the fork becomes confirmed.
LEMMA NetConfirm ==
    ASSUME Place, Net, Confirm
    PROVE  Net'
<1> DEFINE t == Head(fork)
<1>1. fork \in Seq(Txs) /\ KnownDefect /\ processed \in Chains /\ confirmed \in Chains
  BY DEF Net
<1>2. /\ fork # <<>> /\ fork' = Tail(fork) /\ confirmed' = Execute(confirmed, t)
      /\ UNCHANGED <<defect, sent, processed, drops, faults, ever, host>>
  BY DEF Confirm
<1>3. /\ Len(fork) \in Nat \ {0} /\ t = fork[1] /\ t \in Txs
      /\ fork' \in Seq(Txs) /\ Len(fork') = Len(fork) - 1
      /\ \A i \in 1..Len(fork') : fork'[i] = fork[i + 1]
  BY <1>1, <1>2
<1> HIDE DEF t
<1>4. OnFork = OnFork' \cup {t} /\ t \notin OnFork'
  <2>1. \A i \in 1..Len(fork) : i = 1 \/ (i - 1 \in 1..Len(fork') /\ fork[i] = fork'[i - 1])
    <3> SUFFICES ASSUME NEW i \in 1..Len(fork), i # 1
                 PROVE  i - 1 \in 1..Len(fork') /\ fork[i] = fork'[i - 1]
      OBVIOUS
    <3>1. i - 1 \in 1..Len(fork') /\ (i - 1) + 1 = i
      BY <1>3
    <3> QED BY <1>3, <3>1
  <2>2. \A i \in 1..Len(fork') : i + 1 \in 1..Len(fork) /\ i + 1 # 1
    BY <1>3
  <2>3. 1 \in 1..Len(fork)
    BY <1>3
  <2>4. \A i \in 1..Len(fork') : fork'[i] # t
    <3> SUFFICES ASSUME NEW i \in 1..Len(fork'), fork'[i] = t PROVE FALSE
      OBVIOUS
    <3>1. fork[i + 1] = fork[1] /\ i + 1 \in 1..Len(fork) /\ i + 1 # 1
      BY <1>3, <2>2
    <3> QED BY <2>3, <3>1 DEF Net
  <2>5. OnFork \subseteq OnFork' \cup {t}
    BY <1>3, <2>1 DEF OnFork
  <2>6. OnFork' \cup {t} \subseteq OnFork
    BY <1>3, <2>2, <2>3 DEF OnFork
  <2>7. t \notin OnFork'
    BY <2>4 DEF OnFork
  <2> QED BY <2>5, <2>6, <2>7
<1>5. confirmed' \in Chains /\ Decided(confirmed') = Decided(confirmed) \cup {t}
  BY <1>1, <1>2, <1>3, DecidedNext
<1>6. Reach' = Reach
  BY <1>2 DEF host, Reach, Current, Now
<1>7. \A i, j \in 1..Len(fork') : fork'[i] = fork'[j] => i = j
  <2> SUFFICES ASSUME NEW i \in 1..Len(fork'), NEW j \in 1..Len(fork'), fork'[i] = fork'[j]
               PROVE  i = j
    OBVIOUS
  <2>1. i + 1 \in 1..Len(fork) /\ j + 1 \in 1..Len(fork) /\ fork[i + 1] = fork[j + 1]
    BY <1>3
  <2>2. i + 1 = j + 1
    BY <2>1 DEF Net
  <2> QED BY <1>3, <2>2
<1>8. Len(fork') <= MaxLag
  BY <1>3, LagAssumption DEF Net
<1>9. Decided(processed)' = Decided(processed) /\ Decided(confirmed)' = Decided(confirmed')
  BY <1>2 DEF Decided
<1>10. t \in Reach /\ t \notin sent
  BY <1>4 DEF Net
<1> QED BY <1>1, <1>2, <1>3, <1>4, <1>5, <1>6, <1>7, <1>8, <1>9, <1>10 DEF Net, KnownDefect

\* Drop keeps Net: the fork is sent again.
LEMMA NetDrop ==
    ASSUME Place, Net, Drop
    PROVE  Net'
<1>1. fork \in Seq(Txs) /\ KnownDefect /\ processed \in Chains /\ confirmed \in Chains
  BY DEF Net
<1>2. /\ drops < MaxDrops /\ drops' = drops + 1
      /\ sent' = sent \cup {fork[i] : i \in DOMAIN fork} /\ fork' = <<>>
      /\ processed' = confirmed /\ faults' = faults \cup {"drop"}
      /\ UNCHANGED <<defect, confirmed, ever, host>>
  BY DEF Drop
<1>3. sent' = sent \cup OnFork
  BY <1>1, <1>2 DEF OnFork
<1>4. fork' \in Seq(Txs) /\ Len(fork') = 0 /\ OnFork' = {}
  BY <1>2 DEF OnFork
<1>5. OnFork \subseteq Txs
  BY <1>1 DEF OnFork
<1>6. Reach' = Reach
  BY <1>2 DEF host, Reach, Current, Now
<1>7. drops' \in 0..MaxDrops /\ Len(fork') <= MaxLag
  BY <1>2, <1>4, LagAssumption, DropsAssumption DEF Net
<1>8. Decided(processed)' = Decided(confirmed) /\ Decided(confirmed)' = Decided(confirmed)
  BY <1>2 DEF Decided
<1> QED BY <1>1, <1>2, <1>3, <1>4, <1>5, <1>6, <1>7, <1>8 DEF Net, KnownDefect

\* Every step keeps Net: no transaction is executed twice on one chain.
LEMMA NetStep ==
    ASSUME Place, Net, [Next]_vars
    PROVE  Net'
<1>1. CASE Start \/ Poll \/ GiveUp \/ ReadCounter \/ Prove \/ Audit \/ ReadSender \/ ReadRecipient
  <2>1. UNCHANGED <<defect, chain>>
    BY <1>1 DEF Start, Poll, GiveUp, ReadCounter, Prove, Audit, ReadSender, ReadRecipient,
                Reading
  <2>2. faults' = faults \/ faults' = faults \cup {"timeout"} \/ faults' = faults \cup {"stale"}
    BY <1>1 DEF Start, Poll, GiveUp, ReadCounter, Prove, Audit, ReadSender, ReadRecipient,
                Reading, Fault
  <2>3. faults' \subseteq {"rpc", "timeout", "drop", "stale"}
    BY <2>2 DEF Net
  <2> QED BY <2>1, <2>3, NetSends DEF chain
<1>2. CASE Send
  <2>1. /\ Running /\ ~waiting /\ step \in DOMAIN Flow /\ Now.op \notin Reads
        /\ sent' = sent \cup {Now} /\ waiting' = TRUE /\ step' = step
        /\ UNCHANGED <<defect, fork, processed, confirmed, drops, ever, faults>>
    BY <1>2 DEF Send
  <2>2. Now \in Txs
    BY <2>1, NowIs, Ranked DEF Place
  <2>3. Now \in Reach'
    BY <2>1 DEF Reach, Current, Now
  <2>4. faults' \subseteq {"rpc", "timeout", "drop", "stale"}
    BY <2>1 DEF Net
  <2> QED BY <2>1, <2>2, <2>3, <2>4, NetSends
<1>3. CASE RpcFails
  <2>1. /\ Running /\ step \in DOMAIN Flow /\ Return("fail") /\ faults' = faults \cup {"rpc"}
        /\ UNCHANGED <<defect, fork, processed, confirmed, drops, ever>>
        /\ \/ sent' = sent
           \/ sent' = sent \cup {Now} /\ Now.op \notin Reads /\ ~waiting
    BY <1>3 DEF RpcFails, Fault
  <2>2. Now.op \notin Reads => Now \in Txs
    BY <2>1, NowIs, Ranked DEF Place
  <2>3. Now \in Reach'
    BY <2>1 DEF Reach, Current, Now, Return
  <2>4. faults' \subseteq {"rpc", "timeout", "drop", "stale"}
    BY <2>1 DEF Net
  <2> QED BY <2>1, <2>2, <2>3, <2>4, NetSends
<1>4. CASE UNCHANGED vars
  <2>1. UNCHANGED <<defect, sent, fork, processed, confirmed, drops, ever, faults>>
    BY <1>4 DEF vars, chain
  <2>2. faults' \subseteq {"rpc", "timeout", "drop", "stale"}
    BY <2>1 DEF Net
  <2> QED BY <2>1, <2>2, NetSends
<1> QED BY <1>1, <1>2, <1>3, <1>4, NetProcess, NetConfirm, NetDrop DEF Next, Host

-----------------------------------------------------------------------------
\* Both chains are sound, and the proofs the test is past were made for enough.
Truth ==
    /\ ProofType
    /\ step > 10 => proof["transfer"].claimed >= 5000
    /\ step > 24 => proof["withdraw"].claimed = 5000
    /\ Sound(processed) /\ Sound(confirmed)

\* Truth holds at the start.
LEMMA TruthInit ==
    ASSUME Init
    PROVE  Truth
<1>1. /\ proof = [part \in {"transfer", "withdraw"} |-> [available |-> 0, claimed |-> 0]]
      /\ step = 0 /\ processed = EmptyChain /\ confirmed = EmptyChain
  BY DEF Init
<1>2. ProofType
  BY <1>1 DEF ProofType, Parts
<1>3. Sound(EmptyChain)
  <2>1. /\ EmptyChain.acct["sender"] = EmptyAccount
        /\ EmptyChain.acct["recipient"] = EmptyAccount
    BY EmptyChainIs DEF Holders
  <2> QED BY EmptyChainIs, <2>1 DEF Sound, Booked, Ordered, Honest, EmptyAccount
<1> QED BY <1>1, <1>2, <1>3 DEF Truth

\* What may be out by now relies only on proofs the test is past.
LEMMA ReachProven ==
    ASSUME Place, Truth, NEW t \in Txs, t \in Reach
    PROVE  Proven(t)
<1>1. Rank(t) <= step
  <2>1. CASE t \in Before(step)
    BY <2>1, Table DEF Before, Place
  <2>2. CASE t = Now
    BY <2>2, NowIs DEF Place
  <2> QED BY <2>1, <2>2 DEF Reach, Current
<1>2. /\ t.part = "transfer" => step > 10
      /\ t.part = "withdraw" => step > 24
  BY <1>1, PartPlaces DEF Place
<1> QED BY <1>2 DEF Truth, Proven

\* Steps other than Prove do not take the test past a prove step.
LEMMA NotPastProve ==
    ASSUME Place, step' = step \/ (step' = step + 1 /\ Now.op # "prove"),
           UNCHANGED <<defect, proof>>, Truth,
           Sound(processed)', Sound(confirmed)'
    PROVE  Truth'
<1>1. step' = step + 1 /\ step \in {10, 24} => Now.op = "prove"
  <2>1. step \in {10, 24} => Now = Flow[step]
    BY NowIs DEF Place
  <2> QED BY <2>1, Ops
<1>2. /\ step' > 10 => step > 10
      /\ step' > 24 => step > 24
  BY <1>1 DEF Place
<1> QED BY <1>2 DEF Truth, ProofType

\* Steps that leave the chains and the proofs alone keep Truth.
LEMMA TruthHost ==
    ASSUME Place, Truth, step' = step \/ (step' = step + 1 /\ Now.op # "prove"),
           UNCHANGED <<defect, proof, processed, confirmed>>
    PROVE  Truth'
<1>1. Sound(processed)' /\ Sound(confirmed)'
  BY DEF Truth, Sound, Ordered, Honest
<1> QED BY <1>1, NotPastProve

\* Every step keeps Truth: execution keeps a chain sound, and a proof is made
\* before any transaction of its part is out.
LEMMA TruthStep ==
    ASSUME Place, Net, Truth, [Next]_vars
    PROVE  Truth'
<1>1. CASE Start
  <2>1. step = 0 => Now.op # "prove"
    BY NowIs DEF Place
  <2>2. /\ step' = step \/ (step' = step + 1 /\ Now.op # "prove")
        /\ UNCHANGED <<defect, proof, processed, confirmed>>
    BY <1>1, <2>1 DEF Start, Return, chain
  <2> QED BY <2>2, TruthHost
<1>2. CASE Send
  BY <1>2, TruthHost DEF Send
<1>3. CASE Poll
  <2>1. Now.op # "prove"
    BY <1>3, NowIs DEF Poll, Place, Reads
  <2>2. /\ step' = step \/ step' = step + 1
        /\ UNCHANGED <<defect, proof, processed, confirmed>>
    BY <1>3 DEF Poll, Return, chain
  <2> QED BY <2>1, <2>2, TruthHost
<1>4. CASE GiveUp \/ RpcFails \/ ReadRecipient
  <2>1. step' = step /\ UNCHANGED <<defect, proof, processed, confirmed>>
    BY <1>4 DEF GiveUp, RpcFails, ReadRecipient, Reading, Return, chain
  <2> QED BY <2>1, TruthHost
<1>5. CASE ReadCounter \/ Audit \/ ReadSender
  <2>1. Now.op # "prove"
    BY <1>5 DEF ReadCounter, Audit, ReadSender, Reading
  <2>2. /\ step' = step \/ step' = step + 1
        /\ UNCHANGED <<defect, proof, processed, confirmed>>
    BY <1>5 DEF ReadCounter, Audit, ReadSender, Reading, GoOn, Return, chain
  <2> QED BY <2>1, <2>2, TruthHost
<1>6. CASE Prove
  <2> DEFINE account == confirmed.acct[Now.on]
             claimed == IF Now.part = "transfer" THEN account.decryptable ELSE TRANSFER_AMOUNT
  <2>1. /\ Running /\ Now.op = "prove" /\ UNCHANGED <<network, defect, processed, confirmed>>
        /\ \/ Return("fail")
           \/ /\ claimed >= IF Now.part = "transfer" THEN TRANSFER_AMOUNT ELSE WITHDRAW_AMOUNT
              /\ GoOn
              /\ proof' = [proof EXCEPT ![Now.part] =
                              [available |-> account.available, claimed |-> claimed]]
    BY <1>6 DEF Prove, Reading, chain
  <2>2. CASE Return("fail")
    BY <2>1, <2>2, TruthHost DEF Return
  <2>3. CASE GoOn /\ ~Return("fail")
    <3>1. /\ step \in 1..35 /\ ~waiting /\ step' = step + 1 /\ Now = Flow[step]
      BY <2>1, <2>3, PlaceReads, NowIs DEF GoOn, Reads, Place
    <3>2. \/ step = 10 /\ Now.part = "transfer" /\ Now.on = "sender"
          \/ step = 24 /\ Now.part = "withdraw" /\ Now.on = "recipient"
      <4>1. step \in {10, 24}
        BY <2>1, <3>1, Places
      <4>2. /\ Flow[10] = Step("prove", "transfer", "sender")
            /\ Flow[24] = Step("prove", "withdraw", "recipient")
        BY FlowLine
      <4> QED BY <3>1, <4>1, <4>2 DEF Step
    <3>3. account \in Balances
      BY <3>2 DEF Truth, Sound, Chains, Accounts, Holders
    <3> HIDE DEF account
    <3>4. claimed \in Int /\ claimed >= 5000 /\ (Now.part = "withdraw" => claimed = 5000)
      <4>1. CASE Now.part = "transfer"
        <5>1. claimed = account.decryptable /\ claimed >= TRANSFER_AMOUNT
          BY <2>1, <2>3, <4>1
        <5> QED BY <3>3, <4>1, <5>1 DEF Balances, TRANSFER_AMOUNT
      <4>2. CASE Now.part = "withdraw"
        BY <4>2 DEF TRANSFER_AMOUNT
      <4> QED BY <3>2, <4>1, <4>2
    <3> HIDE DEF claimed
    <3>5. ProofType'
      BY <2>1, <2>3, <3>2, <3>3, <3>4 DEF Truth, ProofType, Parts, Balances
    <3>6. /\ proof'[Now.part].claimed = claimed
          /\ \A part \in Parts : part # Now.part => proof'[part] = proof[part]
      BY <2>1, <2>3, <3>2 DEF Truth, ProofType, Parts
    <3>7. \A c \in {processed, confirmed} : VerifyTx(Now.part, "equality") \notin c.did
      <4> SUFFICES ASSUME NEW c \in {processed, confirmed}, VerifyTx(Now.part, "equality") \in c.did
                   PROVE  FALSE
        OBVIOUS
      <4>1. /\ VerifyTx(Now.part, "equality") \in Txs
            /\ VerifyTx(Now.part, "equality") \in Decided(c)
        BY DEF Truth, Sound, Chains, Honest, Decided
      <4>2. VerifyTx(Now.part, "equality") \in Before(step)
        BY <2>1, <3>1, <4>1 DEF Net, Reach, Current, Running
      <4>3. Rank(VerifyTx(Now.part, "equality")) > step
        BY <3>2, <4>1, PartPlaces, Names
      <4> QED BY <3>1, <4>1, <4>2, <4>3, Table DEF Before
    <3>8. Sound(processed)' /\ Sound(confirmed)'
      <4>1. Ordered(processed)'
        BY <2>1, <3>6, <3>7 DEF Truth, Sound, Ordered
      <4>2. Ordered(confirmed)'
        BY <2>1, <3>6, <3>7 DEF Truth, Sound, Ordered
      <4> QED BY <2>1, <4>1, <4>2 DEF Truth, Sound, Honest
    <3>9. /\ step' > 10 => proof'["transfer"].claimed >= 5000
          /\ step' > 24 => proof'["withdraw"].claimed = 5000
      BY <3>1, <3>2, <3>4, <3>6 DEF Truth, Parts
    <3> QED BY <3>5, <3>8, <3>9 DEF Truth
  <2> QED BY <2>1, <2>2, <2>3
<1>7. ASSUME NEW t \in sent, Process(t)
      PROVE  Truth'
  <2>1. /\ UNCHANGED <<defect, proof, step, confirmed>> /\ processed' = Execute(processed, t)
    BY <1>7 DEF Process, host
  <2>2. /\ t \in Txs /\ t \in Reach /\ t \notin processed.ok \cup processed.err /\ KnownDefect
    BY DEF Net, Decided
  <2>3. Sound(Execute(processed, t))
    BY <2>2, ReachProven, SoundStep DEF Truth
  <2>4. Sound(processed)' /\ Sound(confirmed)'
    BY <2>1, <2>3 DEF Truth, Sound, Ordered, Honest
  <2> QED BY <2>1, <2>4, NotPastProve
<1>8. CASE Confirm
  <2> DEFINE t == Head(fork)
  <2>1. /\ UNCHANGED <<defect, proof, step, processed>> /\ confirmed' = Execute(confirmed, t)
        /\ fork # <<>>
    BY <1>8 DEF Confirm, host
  <2>2. t \in OnFork /\ t \in Txs
    BY <2>1 DEF Net, OnFork
  <2> HIDE DEF t
  <2>3. /\ t \in Reach /\ t \notin confirmed.ok \cup confirmed.err /\ KnownDefect
    BY <2>2 DEF Net, Decided
  <2>4. Sound(Execute(confirmed, t))
    BY <2>2, <2>3, ReachProven, SoundStep DEF Truth
  <2>5. Sound(processed)' /\ Sound(confirmed)'
    BY <2>1, <2>4 DEF Truth, Sound, Ordered, Honest
  <2> QED BY <2>1, <2>5, NotPastProve
<1>9. CASE Drop
  <2>1. UNCHANGED <<defect, proof, step, confirmed>> /\ processed' = confirmed
    BY <1>9 DEF Drop, host
  <2>2. Sound(processed)' /\ Sound(confirmed)'
    BY <2>1 DEF Truth, Sound, Ordered, Honest
  <2> QED BY <2>1, <2>2, NotPastProve
<1>10. CASE UNCHANGED vars
  BY <1>10, TruthHost DEF vars, host, chain
<1> QED BY <1>1, <1>2, <1>3, <1>4, <1>5, <1>6, <1>7, <1>8, <1>9, <1>10 DEF Next, Host

-----------------------------------------------------------------------------
\* The chains between the confirmed one and the end of the fork, the statuses
\* of each of them recorded in ever.
Replay(h) ==
    /\ h \in [0..Len(fork) -> Chains]
    /\ h[0] = confirmed /\ h[Len(fork)] = processed
    /\ \A i \in 1..Len(fork), c \in Chains, t \in Txs :
          h[i - 1] = c /\ fork[i] = t => h[i] = Execute(c, t)
    /\ \A i \in 0..Len(fork) : h[i].ok \subseteq ever

\* Every success is recorded, and a rejected transaction has none.
Recorded ==
    /\ Before(step) \subseteq ever
    /\ \A t \in ever : defect # [op |-> t.op, how |-> "rejects"]
    /\ \E h : Replay(h)

\* Recorded holds at the start.
LEMMA RecordedInit ==
    ASSUME Init
    PROVE  Recorded
<1> DEFINE h == [i \in 0..0 |-> confirmed]
<1>1. /\ step = 0
      /\ ever = {}
      /\ fork = <<>>
      /\ processed = EmptyChain
      /\ confirmed = EmptyChain
  BY DEF Init
<1>2. Len(fork) = 0
  BY <1>1
<1>3. Replay(h)
  BY <1>1, <1>2, EmptyChainIs DEF Replay
<1> QED BY <1>1, <1>3, BeforeEnds DEF Recorded

\* Steps that leave the fork alone keep Recorded, if no transaction on the fork
\* relies on a proof that changes.
LEMMA RecordedHost ==
    ASSUME Net, Recorded, UNCHANGED <<defect, fork, processed, confirmed, ever>>,
           \A i \in 1..Len(fork) :
              fork[i].op \in {"verify", "transfer", "withdraw"}
                => proof'[fork[i].part] = proof[fork[i].part],
           Before(step') \subseteq ever
    PROVE  Recorded'
<1>1. PICK h : Replay(h)
  BY DEF Recorded
<1>2. ASSUME NEW i \in 1..Len(fork), NEW c \in Chains, NEW t \in Txs,
             h[i - 1] = c, fork[i] = t
      PROVE  h[i] = Execute(c, t)'
  <2>1. Accepts(c, t)' <=> Accepts(c, t)
    BY <1>2 DEF Accepts
  <2>2. Execute(c, t)' = Execute(c, t)
    BY <2>1 DEF Execute
  <2>3. h[i] = Execute(c, t)
    BY <1>1, <1>2 DEF Replay
  <2> QED BY <2>2, <2>3
<1>3. Replay(h)'
  BY <1>1, <1>2 DEF Replay
<1> QED BY <1>3 DEF Recorded

\* Process adds the new end of the fork to the replay.
LEMMA RecordedProcess ==
    ASSUME Place, Net, Net', Truth, Truth', Recorded, NEW t \in sent, Process(t)
    PROVE  Recorded'
<1>1. PICK h : Replay(h)
  BY DEF Recorded
<1>2. /\ t \in Txs /\ fork \in Seq(Txs) /\ KnownDefect /\ processed \in Chains
  BY DEF Net
<1>3. /\ fork' = Append(fork, t) /\ processed' = Execute(processed, t)
      /\ ever' = IF t \in processed'.ok THEN ever \cup {t} ELSE ever
      /\ UNCHANGED <<defect, confirmed, step, proof>>
  BY DEF Process, host
<1>4. /\ Len(fork) \in Nat /\ Len(fork') = Len(fork) + 1 /\ fork'[Len(fork) + 1] = t
      /\ \A i \in 1..Len(fork) : fork'[i] = fork[i]
  BY <1>2, <1>3
<1>5. processed' \in Chains /\ processed'.ok \subseteq processed.ok \cup {t}
  BY <1>2, <1>3, Executed DEF Rejected, Ignored, Applied
<1>6. processed'.ok \subseteq ever' /\ ever \subseteq ever'
  <2>1. processed.ok \subseteq ever
    BY <1>1, <1>4 DEF Replay
  <2> QED BY <1>3, <1>5, <2>1
<1>7. PICK n \in Nat, g \in [0..(Len(fork) + 1) -> Chains] :
         /\ n = Len(fork) /\ g[n + 1] = processed'
         /\ \A i \in 0..n : g[i] = h[i]
  <2> DEFINE f == [i \in 0..(Len(fork) + 1) |-> IF i <= Len(fork) THEN h[i] ELSE processed']
  <2>1. f \in [0..(Len(fork) + 1) -> Chains]
    BY <1>1, <1>4, <1>5 DEF Replay
  <2>2. f[Len(fork) + 1] = processed' /\ \A i \in 0..Len(fork) : f[i] = h[i]
    BY <1>4
  <2> HIDE DEF f
  <2> QED BY <1>4, <2>1, <2>2
<1>8. Replay(g)'
  <2>1. g \in [0..Len(fork') -> Chains]
    BY <1>4, <1>7
  <2>2. g[0] = confirmed' /\ g[Len(fork')] = processed'
    BY <1>1, <1>3, <1>4, <1>7 DEF Replay
  <2>3. \A i \in 0..Len(fork') : g[i].ok \subseteq ever'
    <3> SUFFICES ASSUME NEW i \in 0..Len(fork') PROVE g[i].ok \subseteq ever'
      OBVIOUS
    <3>1. i \in 0..n \/ i = n + 1
      BY <1>4, <1>7
    <3>2. CASE i \in 0..n
      BY <1>1, <1>6, <1>7, <3>2 DEF Replay
    <3> QED BY <1>6, <1>7, <3>1, <3>2
  <2>4. ASSUME NEW i \in 1..Len(fork'), NEW c \in Chains, NEW u \in Txs,
               g[i - 1] = c, fork'[i] = u
        PROVE  g[i] = Execute(c, u)'
    <3>1. g[i] = Execute(c, u)
      <4>1. CASE i \in 1..n
        <5>1. i - 1 \in 0..n /\ i \in 0..n
          BY <1>7, <4>1
        <5>2. g[i] = h[i] /\ c = h[i - 1] /\ u = fork[i]
          BY <1>4, <1>7, <2>4, <4>1, <5>1
        <5> QED BY <1>1, <1>7, <4>1, <5>2 DEF Replay
      <4>2. CASE i = n + 1
        <5>1. i - 1 = n /\ n \in 0..n
          BY <1>7, <4>2
        <5>2. g[i] = processed' /\ c = h[n] /\ u = t
          BY <1>4, <1>7, <2>4, <4>2, <5>1
        <5>3. h[n] = processed
          BY <1>1, <1>7 DEF Replay
        <5> QED BY <1>3, <5>2, <5>3
      <4>3. i \in 1..n \/ i = n + 1
        BY <1>4, <1>7
      <4> QED BY <4>1, <4>2, <4>3
    <3>2. Execute(c, u)' = Execute(c, u)
      <4>1. Accepts(c, u)' <=> Accepts(c, u)
        BY <1>3 DEF Accepts
      <4> QED BY <1>3, <4>1 DEF Execute
    <3> QED BY <3>1, <3>2
  <2> QED BY <2>1, <2>2, <2>3, <2>4 DEF Replay
<1>9. \A u \in ever' : defect' # [op |-> u.op, how |-> "rejects"]
  <2>1. \A u \in processed'.ok : defect' # [op |-> u.op, how |-> "rejects"]
    BY DEF Truth, Sound, Honest
  <2> QED BY <1>3, <2>1 DEF Recorded
<1> QED BY <1>3, <1>6, <1>8, <1>9 DEF Recorded

\* Confirm executes again what was executed on the fork, with the same result.
LEMMA RecordedConfirm ==
    ASSUME Net, Recorded, Confirm
    PROVE  Recorded'
<1>1. PICK h : Replay(h)
  BY DEF Recorded
<1>2. fork \in Seq(Txs) /\ fork # <<>>
  BY DEF Net, Confirm
<1>3. /\ fork' = Tail(fork) /\ confirmed' = Execute(confirmed, Head(fork))
      /\ UNCHANGED <<defect, processed, ever, step, proof>>
  BY DEF Confirm, host
<1>4. /\ Len(fork) \in Nat \ {0} /\ Len(fork') = Len(fork) - 1 /\ Head(fork) = fork[1]
      /\ \A i \in 1..Len(fork') : fork'[i] = fork[i + 1]
  BY <1>2, <1>3
<1>5. PICK n \in Nat \ {0}, g \in [0..(Len(fork) - 1) -> Chains] :
         n = Len(fork) /\ \A i \in 0..(n - 1) : g[i] = h[i + 1]
  <2> DEFINE f == [i \in 0..(Len(fork) - 1) |-> h[i + 1]]
  <2>1. f \in [0..(Len(fork) - 1) -> Chains] /\ \A i \in 0..(Len(fork) - 1) : f[i] = h[i + 1]
    BY <1>1, <1>4 DEF Replay
  <2> HIDE DEF f
  <2> QED BY <1>4, <2>1
<1>6. h[1] = confirmed'
  <2>1. 1 \in 1..Len(fork) /\ 1 - 1 = 0 /\ h[0] = confirmed /\ confirmed \in Chains
        /\ fork[1] \in Txs
    BY <1>1, <1>2, <1>4 DEF Replay, Net
  <2> QED BY <1>1, <1>3, <1>4, <2>1 DEF Replay
<1>8. Replay(g)'
  <2>1. g \in [0..Len(fork') -> Chains]
    BY <1>4, <1>5
  <2>2. g[0] = confirmed' /\ g[Len(fork')] = processed'
    <3>1. /\ 0 \in 0..(n - 1) /\ 0 + 1 = 1 /\ n - 1 \in 0..(n - 1) /\ (n - 1) + 1 = n
          /\ Len(fork') = n - 1
      BY <1>4, <1>5
    <3> QED BY <1>1, <1>3, <1>5, <1>6, <3>1 DEF Replay
  <2>3. \A i \in 0..Len(fork') : g[i].ok \subseteq ever'
    <3> SUFFICES ASSUME NEW i \in 0..Len(fork') PROVE g[i].ok \subseteq ever'
      OBVIOUS
    <3>1. i \in 0..(n - 1) /\ i + 1 \in 0..Len(fork)
      BY <1>4, <1>5
    <3> QED BY <1>1, <1>3, <1>5, <3>1 DEF Replay
  <2>4. ASSUME NEW i \in 1..Len(fork'), NEW c \in Chains, NEW u \in Txs,
               g[i - 1] = c, fork'[i] = u
        PROVE  g[i] = Execute(c, u)'
    <3>1. i + 1 \in 1..Len(fork) /\ (i + 1) - 1 = i /\ i - 1 \in 0..(n - 1) /\ i \in 0..(n - 1)
          /\ (i - 1) + 1 = i
      BY <1>4, <1>5
    <3>2. g[i] = h[i + 1] /\ c = h[i] /\ u = fork[i + 1]
      BY <1>4, <1>5, <2>4, <3>1
    <3>3. g[i] = Execute(c, u)
      BY <1>1, <3>1, <3>2 DEF Replay
    <3>4. Accepts(c, u)' <=> Accepts(c, u)
      BY <1>3 DEF Accepts
    <3>5. Execute(c, u)' = Execute(c, u)
      BY <1>3, <3>4 DEF Execute
    <3> QED BY <3>3, <3>5
  <2> QED BY <2>1, <2>2, <2>3, <2>4 DEF Replay
<1> QED BY <1>3, <1>8 DEF Recorded

\* Drop leaves the confirmed chain alone in the replay.
LEMMA RecordedDrop ==
    ASSUME Net, Recorded, Drop
    PROVE  Recorded'
<1>1. PICK h : Replay(h)
  BY DEF Recorded
<1>2. /\ fork' = <<>> /\ processed' = confirmed
      /\ UNCHANGED <<defect, confirmed, ever, step, proof>>
  BY DEF Drop, host
<1>0. PICK g : g = [i \in 0..0 |-> confirmed]
  OBVIOUS
<1>3. Len(fork) \in Nat /\ Len(fork') = 0 /\ confirmed \in Chains
  BY <1>2 DEF Net
<1>4. confirmed.ok \subseteq ever
  BY <1>1, <1>3 DEF Replay
<1>5. Replay(g)'
  BY <1>0, <1>2, <1>3, <1>4 DEF Replay
<1> QED BY <1>2, <1>5 DEF Recorded

\* Every step keeps Recorded: a proof that is made changes nothing on the fork.
LEMMA RecordedStep ==
    ASSUME Place, Net, Net', Truth, Truth', Recorded, [Next]_vars
    PROVE  Recorded'
<1>1. Before(step') \subseteq ever
  <2>1. PICK h : Replay(h)
    BY DEF Recorded
  <2>2. processed.ok \subseteq ever
    BY <2>1 DEF Replay, Net
  <2> QED BY <2>2, BeforeStep DEF Recorded
<1>2. ASSUME \/ UNCHANGED <<defect, chain, proof>>
             \/ UNCHANGED <<defect, fork, processed, confirmed, ever, proof>>
      PROVE  Recorded'
  BY <1>1, <1>2, RecordedHost DEF chain
<1>3. CASE Start \/ Send \/ Poll \/ GiveUp \/ RpcFails \/ ReadCounter \/ Audit
           \/ ReadSender \/ ReadRecipient \/ UNCHANGED vars
  <2>1. \/ UNCHANGED <<defect, chain, proof>>
        \/ UNCHANGED <<defect, fork, processed, confirmed, ever, proof>>
    BY <1>3 DEF Start, Send, Poll, GiveUp, RpcFails, ReadCounter, Audit, ReadSender,
                ReadRecipient, Reading, Return, vars, host
  <2> QED BY <1>2, <2>1
<1>4. CASE Prove
  <2>1. /\ Running /\ Now.op = "prove" /\ UNCHANGED <<network, defect, chain>>
        /\ \/ Return("fail")
           \/ GoOn /\ \E b : proof' = [proof EXCEPT ![Now.part] = b]
    BY <1>4 DEF Prove, Reading
  <2>2. CASE Return("fail")
    BY <1>2, <2>1, <2>2 DEF Return
  <2>3. CASE GoOn /\ \E b : proof' = [proof EXCEPT ![Now.part] = b]
    <3>1. /\ step \in 1..35 /\ ~waiting /\ Now = Flow[step]
      BY <2>1, <2>3, PlaceReads, NowIs DEF Reads, Place
    <3>2. \A i \in 1..Len(fork) : fork[i] \in Txs /\ Rank(fork[i]) < step
      BY <2>1, <3>1 DEF Net, OnFork, Reach, Current, Running, Before
    <3>3. \A i \in 1..Len(fork) : fork[i].part # Now.part
      <4>1. \/ step = 10 /\ Now.part = "transfer"
            \/ step = 24 /\ Now.part = "withdraw"
        <5>1. step \in {10, 24}
          BY <2>1, <3>1, Places
        <5> QED BY <3>1, <5>1, PartsOf
      <4> QED BY <3>2, <4>1, PartPlaces
    <3>4. \A i \in 1..Len(fork) :
             fork[i].op \in {"verify", "transfer", "withdraw"}
               => proof'[fork[i].part] = proof[fork[i].part]
      <4> SUFFICES ASSUME NEW i \in 1..Len(fork), fork[i].op \in {"verify", "transfer", "withdraw"}
                   PROVE  proof'[fork[i].part] = proof[fork[i].part]
        OBVIOUS
      <4>1. fork[i].part \in Parts
        BY <3>2, Table, Names DEF Parts
      <4>2. fork[i].part # Now.part
        BY <3>3
      <4>3. proof \in [Parts -> [available : Int, claimed : Int]]
        BY DEF Truth, ProofType
      <4> QED BY <2>3, <4>1, <4>2, <4>3
    <3> QED BY <1>1, <2>1, <3>4, RecordedHost DEF chain
  <2> QED BY <2>1, <2>2, <2>3
<1> QED BY <1>3, <1>4, RecordedProcess, RecordedConfirm, RecordedDrop DEF Next, Host

-----------------------------------------------------------------------------
\* What the test saw is done on the chain, and what it is past succeeded there.
Seen ==
    /\ senderSaw \in 0..10000
    /\ senderSaw = 5000 => DepositTx \in confirmed.did
    /\ outcome = "pass" => /\ DepositTx \in confirmed.did
                           /\ WithdrawTx \in confirmed.did
    /\ drops = 0 => Before(step) \subseteq processed.ok

\* Seen holds at the start.
LEMMA SeenInit ==
    ASSUME Init
    PROVE  Seen
BY BeforeEnds DEF Init, Seen

\* A chain forgets nothing unless its fork is dropped.
LEMMA Kept ==
    ASSUME Net, [Next]_vars
    PROVE  /\ confirmed.did \subseteq confirmed'.did
           /\ drops' = 0 => drops = 0 /\ processed.ok \subseteq processed'.ok
<1>1. CASE Start \/ Send \/ Poll \/ GiveUp \/ RpcFails \/ ReadCounter \/ Prove \/ Audit
           \/ ReadSender \/ ReadRecipient \/ UNCHANGED vars
  <2>1. UNCHANGED <<processed, confirmed, drops>>
    BY <1>1 DEF Start, Send, Poll, GiveUp, RpcFails, ReadCounter, Prove, Audit,
                ReadSender, ReadRecipient, Reading, vars, chain
  <2> QED BY <2>1
<1>2. ASSUME NEW t \in sent, Process(t)
      PROVE  /\ UNCHANGED <<confirmed, drops>> /\ processed.ok \subseteq processed'.ok
  <2>1. t \in Txs /\ processed \in Chains /\ KnownDefect
    BY DEF Net
  <2>2. processed.ok \subseteq Execute(processed, t).ok
    BY <2>1, Executed DEF Rejected, Ignored, Applied
  <2> QED BY <1>2, <2>2 DEF Process
<1>3. CASE Confirm
  <2>1. Head(fork) \in Txs /\ confirmed \in Chains /\ KnownDefect
    BY <1>3 DEF Net, Confirm
  <2>2. confirmed.did \subseteq Execute(confirmed, Head(fork)).did
    BY <2>1, Executed DEF Rejected, Ignored, Applied
  <2> QED BY <1>3, <2>2 DEF Confirm
<1>4. CASE Drop
  <2>1. UNCHANGED confirmed /\ drops' = drops + 1 /\ drops \in Nat
    BY <1>4, DropsAssumption DEF Drop, Net
  <2> QED BY <2>1
<1> QED BY <1>1, <1>2, <1>3, <1>4 DEF Next, Host

\* Every step keeps Seen: what was read stays done.
LEMMA SeenStep ==
    ASSUME Place, Net, Truth, Seen, [Next]_vars
    PROVE  Seen'
<1>1. /\ confirmed.did \subseteq confirmed'.did
      /\ drops' = 0 => drops = 0 /\ processed.ok \subseteq processed'.ok
  BY Kept
<1>2. drops' = 0 => Before(step') \subseteq processed'.ok
  BY <1>1, BeforeStep DEF Seen
<1>3. CASE ReadSender
  <2>1. PICK seen : seen = confirmed.acct["sender"].public
    OBVIOUS
  <2>2. /\ Running /\ UNCHANGED confirmed
        /\ \/ senderSaw' = seen /\ outcome' = outcome
           \/ senderSaw' = senderSaw /\ outcome' = "fail"
    BY <1>3, <2>1 DEF ReadSender, Reading, Return, GoOn, chain
  <2>3. \/ seen = 0 \/ seen = 10000
        \/ seen = 5000 /\ DepositTx \in confirmed.did
    BY <2>1 DEF Truth, Sound, Booked
  <2>4. seen \in 0..10000 /\ (seen = 5000 => DepositTx \in confirmed.did)
    BY <2>3
  <2>5. senderSaw' \in 0..10000 /\ (senderSaw' = 5000 => DepositTx \in confirmed'.did)
    <3>1. CASE senderSaw' = seen
      <4>1. senderSaw' \in 0..10000
        BY <2>4, <3>1
      <4>2. senderSaw' = 5000 => DepositTx \in confirmed'.did
        BY <2>2, <2>4, <3>1
      <4> QED BY <4>1, <4>2
    <3>2. CASE senderSaw' = senderSaw
      <4>1. senderSaw' \in 0..10000
        BY <3>2 DEF Seen
      <4>2. senderSaw' = 5000 => DepositTx \in confirmed'.did
        BY <2>2, <3>2 DEF Seen
      <4> QED BY <4>1, <4>2
    <3> QED BY <2>2, <3>1, <3>2
  <2>6. outcome' # "pass"
    BY <2>2 DEF Running
  <2> QED BY <1>2, <2>5, <2>6 DEF Seen
<1>4. CASE ReadRecipient
  <2>1. /\ UNCHANGED <<confirmed, senderSaw>>
        /\ outcome' = "pass" => Balanced(senderSaw, confirmed.acct.recipient.public)
    BY <1>4 DEF ReadRecipient, Reading, Return, chain
  <2>2. outcome' = "pass" => senderSaw = 5000 /\ confirmed.acct["recipient"].public = 2000
    BY <2>1 DEF Balanced, MINT_AMOUNT, DEPOSIT_AMOUNT, WITHDRAW_AMOUNT
  <2>3. confirmed.acct["recipient"].public = 2000 => WithdrawTx \in confirmed.did
    BY DEF Truth, Sound, Booked
  <2> QED BY <1>2, <2>1, <2>2, <2>3 DEF Seen
<1>5. ASSUME senderSaw' = senderSaw, outcome' = outcome \/ outcome' \in {"skip", "fail"}
      PROVE  Seen'
  BY <1>1, <1>2, <1>5 DEF Seen
<1>6. CASE Start \/ Send \/ Poll \/ GiveUp \/ RpcFails
  BY <1>5, <1>6 DEF Start, Send, Poll, GiveUp, RpcFails, Return
<1>7. CASE ReadCounter \/ Prove \/ Audit
  BY <1>5, <1>7 DEF ReadCounter, Prove, Audit, Return, GoOn
<1>8. CASE (\E t \in sent : Process(t)) \/ Confirm \/ Drop \/ UNCHANGED vars
  <2>1. UNCHANGED <<senderSaw, outcome>>
    BY <1>8 DEF Process, Confirm, Drop, vars, host
  <2> QED BY <1>5, <2>1
<1> QED BY <1>3, <1>4, <1>6, <1>7, <1>8 DEF Next, Host

-----------------------------------------------------------------------------
\* A chain on which every transaction so far succeeded, and its books.
Worked(c) ==
    /\ c.err = {}
    /\ \A t \in c.ok : t.op \notin Closing => t \in c.did
    /\ c.acct["sender"].pending =
          IF DepositTx \in c.ok /\ ApplyTx("sender") \notin c.ok THEN 5000 ELSE 0
    /\ c.acct["sender"].available =
          IF ApplyTx("sender") \in c.ok /\ TransferTx \notin c.ok THEN 5000 ELSE 0
    /\ c.acct["sender"].decryptable =
          IF ApplyTx("sender") \in c.ok /\ TransferTx \notin c.ok THEN 5000 ELSE 0
    /\ c.acct["recipient"].pending =
          IF TransferTx \in c.ok /\ ApplyTx("recipient") \notin c.ok THEN 5000 ELSE 0
    /\ c.acct["recipient"].available =
          IF ApplyTx("recipient") \in c.ok
          THEN IF WithdrawTx \in c.ok THEN 3000 ELSE 5000
          ELSE 0

\* The proofs that a transaction relies on are made for the right balance.
Exact(part) == proof[part].available = 5000 /\ proof[part].claimed = 5000

\* The places of the named transactions.
LEMMA NamedRanks ==
    /\ MintTx \in Txs /\ Rank(MintTx) = 1
    /\ AccountTx("sender") \in Txs /\ Rank(AccountTx("sender")) = 2
    /\ ConfigureTx("sender") \in Txs /\ Rank(ConfigureTx("sender")) = 3
    /\ AccountTx("recipient") \in Txs /\ Rank(AccountTx("recipient")) = 4
    /\ ConfigureTx("recipient") \in Txs /\ Rank(ConfigureTx("recipient")) = 5
    /\ MintToTx \in Txs /\ Rank(MintToTx) = 6
    /\ DepositTx \in Txs /\ Rank(DepositTx) = 7
    /\ ApplyTx("sender") \in Txs /\ Rank(ApplyTx("sender")) = 9
    /\ VerifyTx("transfer", "equality") \in Txs /\ Rank(VerifyTx("transfer", "equality")) = 11
    /\ VerifyTx("transfer", "validity") \in Txs /\ Rank(VerifyTx("transfer", "validity")) = 12
    /\ RecordTx("transfer") \in Txs /\ Rank(RecordTx("transfer")) = 13
    /\ Write("transfer", 1) \in Txs /\ Rank(Write("transfer", 1)) = 14
    /\ Write("transfer", 2) \in Txs /\ Rank(Write("transfer", 2)) = 15
    /\ RangeTx("transfer") \in Txs /\ Rank(RangeTx("transfer")) = 16
    /\ TransferTx \in Txs /\ Rank(TransferTx) = 17
    /\ ApplyTx("recipient") \in Txs /\ Rank(ApplyTx("recipient")) = 23
    /\ VerifyTx("withdraw", "equality") \in Txs /\ Rank(VerifyTx("withdraw", "equality")) = 25
    /\ RecordTx("withdraw") \in Txs /\ Rank(RecordTx("withdraw")) = 26
    /\ Write("withdraw", 1) \in Txs /\ Rank(Write("withdraw", 1)) = 27
    /\ Write("withdraw", 2) \in Txs /\ Rank(Write("withdraw", 2)) = 28
    /\ RangeTx("withdraw") \in Txs /\ Rank(RangeTx("withdraw")) = 29
    /\ WithdrawTx \in Txs /\ Rank(WithdrawTx) = 30
<1>1. ASSUME NEW i \in 1..36, Flow[i].op \notin Reads
      PROVE  Flow[i] \in Txs /\ Rank(Flow[i]) = i
  BY <1>1, BeforeNext, Ranked
<1>2. \A i \in 1..36 : i \notin {8, 10, 22, 24, 34, 35, 36} => Flow[i].op \notin Reads
  BY Places
<1>3. /\ Flow[1] = MintTx /\ Flow[2] = AccountTx("sender") /\ Flow[3] = ConfigureTx("sender")
      /\ Flow[4] = AccountTx("recipient") /\ Flow[5] = ConfigureTx("recipient")
      /\ Flow[6] = MintToTx /\ Flow[7] = DepositTx /\ Flow[9] = ApplyTx("sender")
      /\ Flow[11] = VerifyTx("transfer", "equality")
      /\ Flow[12] = VerifyTx("transfer", "validity")
      /\ Flow[13] = RecordTx("transfer")
      /\ Flow[14] = Write("transfer", 1) /\ Flow[15] = Write("transfer", 2)
      /\ Flow[16] = RangeTx("transfer") /\ Flow[17] = TransferTx
      /\ Flow[23] = ApplyTx("recipient")
      /\ Flow[25] = VerifyTx("withdraw", "equality") /\ Flow[26] = RecordTx("withdraw")
      /\ Flow[27] = Write("withdraw", 1) /\ Flow[28] = Write("withdraw", 2)
      /\ Flow[29] = RangeTx("withdraw") /\ Flow[30] = WithdrawTx
  BY FlowLine DEF MintTx, AccountTx, ConfigureTx, MintToTx, DepositTx, ApplyTx, VerifyTx,
                  RecordTx, RangeTx, TransferTx, WithdrawTx
<1>4. \A i \in 1..36 : i \notin {8, 10, 22, 24, 34, 35, 36} => Flow[i] \in Txs /\ Rank(Flow[i]) = i
  BY <1>1, <1>2
<1> QED BY <1>3, <1>4

\* The accounts of a part are closed at the end of it, each once.
LEMMA ClosingRanks ==
    ASSUME NEW v \in Txs, v.op \in Closing
    PROVE  /\ \/ v.part = "transfer" /\ Rank(v) >= 18
              \/ v.part = "withdraw" /\ Rank(v) >= 31
           /\ \A t \in Txs : t.op \in Closing /\ t.part = v.part /\ t.on = v.on => t = v
<1>1. Rank(v) \in 1..36 /\ Flow[Rank(v)] = v /\ v.part \in Parts
  BY Table DEF Closing
<1>2. Rank(v) \in {18, 19, 20, 21, 31, 32, 33}
  BY <1>1, Places DEF Closing
<1>3. \/ v.part = "transfer" /\ Rank(v) >= 18
      \/ v.part = "withdraw" /\ Rank(v) >= 31
  BY <1>1, <1>2, PartPlaces DEF Parts
<1>4. ASSUME NEW t \in Txs, t.op \in Closing, t.part = v.part, t.on = v.on
      PROVE  t = v
  <2>1. /\ t.op = "closeRecord" => t = Step("closeRecord", t.part, "record") /\ t.on = "record"
        /\ t.op = "closeContext" => t = Step("closeContext", t.part, t.on) /\ t.on # "record"
    BY Table DEF Step
  <2>2. /\ v.op = "closeRecord" => v = Step("closeRecord", v.part, "record") /\ v.on = "record"
        /\ v.op = "closeContext" => v = Step("closeContext", v.part, v.on) /\ v.on # "record"
    BY Table DEF Step
  <2> QED BY <1>4, <2>1, <2>2 DEF Closing
<1> QED BY <1>3, <1>4

\* What was created before a step and is not closed before it exists.
LEMMA Existing ==
    ASSUME NEW c, Sound(c), Worked(c), NEW k \in 1..36, c.ok = Before(k),
           NEW u \in Txs, u.op \in Creating, Rank(u) < k,
           \A v \in Txs : v.op \in Closing /\ v.part = u.part /\ v.on = u.on => Rank(v) >= k
    PROVE  Exists(c, u.part, u.on)
<1>1. u \in c.did
  BY DEF Before, Worked, Creating, Closing
<1>2. ASSUME NEW v \in c.did, v.op \in Closing, v.part = u.part, v.on = u.on
      PROVE  FALSE
  <2>1. v \in Txs /\ Rank(v) < k
    BY DEF Sound, Honest, Before
  <2> QED BY <1>2, <2>1, Table
<1> QED BY <1>1, <1>2 DEF Exists, Did

\* On such a chain the programs accept the transaction that is next.
LEMMA Ready ==
    ASSUME NEW c, Sound(c), Worked(c), NEW t \in Txs, c.ok = Before(Rank(t)),
           t.part \in Parts => Exact(t.part)
    PROVE  Accepts(c, t)
<1> DEFINE k == Rank(t)
<1>1. k \in 1..36 /\ k \in 1..33 /\ Flow[k] = t /\ t \notin c.ok
  BY Table DEF Before
<1>2. ASSUME NEW u \in Txs, u.op \in Creating, Rank(u) < k,
             \/ u.part = "setup"
             \/ u.part = "transfer" /\ k <= 18
             \/ u.part = "withdraw" /\ k <= 31
             \/ t.op \in Closing /\ t.part = u.part /\ t.on = u.on
      PROVE  Exists(c, u.part, u.on)
  <2>1. ASSUME NEW v \in Txs, v.op \in Closing, v.part = u.part, v.on = u.on
        PROVE  Rank(v) >= k
    <3>1. CASE t.op \in Closing /\ t.part = u.part /\ t.on = u.on
      <4>1. v = t
        BY <2>1, <3>1, ClosingRanks
      <4> QED BY <1>1, <4>1
    <3>2. CASE ~(t.op \in Closing /\ t.part = u.part /\ t.on = u.on)
      <4>1. Rank(v) \in Nat
        BY Table
      <4> QED BY <1>1, <1>2, <2>1, <3>2, <4>1, ClosingRanks
    <3> QED BY <3>1, <3>2
  <2> QED BY <1>1, <1>2, <2>1, Existing
<1>3. ASSUME NEW u \in Txs, Rank(u) < k, u.op \notin Closing
      PROVE  u \in c.ok /\ u \in c.did
  BY <1>3 DEF Worked, Before
<1>4. ASSUME NEW on \in Holders, Rank(ConfigureTx(on)) < k
      PROVE  Configured(c, on)
  <2>1. ConfigureTx(on) \in Txs
    BY NamedRanks DEF Holders
  <2>2. ConfigureTx(on) \in c.did
    BY <1>3, <1>4, <2>1, Names DEF Closing
  <2> QED BY <2>2 DEF Configured, Did, ConfigureTx, Step
<1> HIDE DEF k
<1>5. t.op = "createAccount" => Exists(c, "setup", "mint")
  <2>1. t.op = "createAccount" => k \in {2, 4}
    BY <1>1, Places
  <2>2. MintTx.part = "setup" /\ MintTx.on = "mint" /\ MintTx.op \in Creating
    BY DEF MintTx, Step, Creating
  <2> QED BY <1>2, <2>1, <2>2, NamedRanks
<1>6. t.op \in {"configure", "mintTo"} => Exists(c, "setup", t.on)
  <2>1. ASSUME NEW on \in Holders, Rank(AccountTx(on)) < k
        PROVE  Exists(c, "setup", on)
    <3>1. /\ AccountTx(on) \in Txs /\ AccountTx(on).part = "setup" /\ AccountTx(on).on = on
          /\ AccountTx(on).op \in Creating
      BY NamedRanks DEF AccountTx, Step, Creating, Holders
    <3> QED BY <1>2, <2>1, <3>1
  <2>2. t.op = "configure" => t.on \in Holders /\ Rank(AccountTx(t.on)) < k
    <3> SUFFICES ASSUME t.op = "configure" PROVE t.on \in Holders /\ Rank(AccountTx(t.on)) < k
      OBVIOUS
    <3>1. t.on \in Holders /\ t = ConfigureTx(t.on)
      BY Table
    <3> QED BY <3>1, NamedRanks DEF Holders, k
  <2>3. t.op = "mintTo" => t.on \in Holders /\ Rank(AccountTx(t.on)) < k
    <3> SUFFICES ASSUME t.op = "mintTo" PROVE t.on \in Holders /\ Rank(AccountTx(t.on)) < k
      OBVIOUS
    <3>1. t = MintToTx /\ t.on = "sender"
      BY Table DEF MintToTx, Step
    <3> QED BY <3>1, NamedRanks DEF Holders, k
  <2> QED BY <2>1, <2>2, <2>3
<1>7. t.op = "deposit" => Configured(c, t.on) /\ c.acct.sender.public >= DEPOSIT_AMOUNT
  <2> SUFFICES ASSUME t.op = "deposit"
               PROVE  Configured(c, t.on) /\ c.acct["sender"].public >= DEPOSIT_AMOUNT
    OBVIOUS
  <2>1. t = DepositTx /\ t.on = "sender" /\ k = 7
    BY Table, NamedRanks DEF DepositTx, Step, k
  <2>2. Configured(c, "sender")
    BY <1>4, <2>1, NamedRanks DEF Holders
  <2>3. MintToTx \in c.did
    BY <1>3, <2>1, NamedRanks, Names DEF Closing
  <2>4. DepositTx \notin c.did
    BY <1>1, <2>1 DEF Sound, Honest
  <2>5. c.acct["sender"].public = 10000
    BY <2>3, <2>4 DEF Sound, Booked
  <2> QED BY <2>1, <2>2, <2>5 DEF DEPOSIT_AMOUNT
<1>8. t.op = "apply" => Configured(c, t.on)
  <2> SUFFICES ASSUME t.op = "apply" PROVE Configured(c, t.on)
    OBVIOUS
  <2>1. t.on \in Holders /\ t = ApplyTx(t.on)
    BY Table
  <2> QED BY <1>4, <2>1, NamedRanks DEF Holders, k
<1>9. t.op = "verify" /\ t.on = "equality" => proof[t.part].claimed = proof[t.part].available
  BY Table DEF Exact
<1>10. \A part, on :
          /\ VerifyTx(part, on).op \in Creating /\ VerifyTx(part, on).part = part
          /\ VerifyTx(part, on).on = on
          /\ RecordTx(part).op \in Creating /\ RecordTx(part).part = part
          /\ RecordTx(part).on = "record"
          /\ RangeTx(part).op \in Creating /\ RangeTx(part).part = part
          /\ RangeTx(part).on = "range"
  BY DEF VerifyTx, RecordTx, RangeTx, Step, Creating
<1>11. t.op \in {"write", "closeRecord"} => Exists(c, t.part, "record")
  <2>1. CASE t.op = "write"
    <3>1. /\ t.part \in Parts /\ t.chunk \in {1, 2} /\ t = Write(t.part, t.chunk)
      BY <2>1, Table
    <3>2. \/ t.part = "transfer" /\ k \in {14, 15}
          \/ t.part = "withdraw" /\ k \in {27, 28}
      BY <3>1, NamedRanks DEF Parts, k
    <3> QED BY <1>2, <1>10, <3>2, NamedRanks
  <2>2. CASE t.op = "closeRecord"
    <3>1. t.part \in Parts /\ t.op \in Closing /\ t.on = "record"
      BY <2>2, Table DEF Closing, Step
    <3>2. \/ t.part = "transfer" /\ k >= 18
          \/ t.part = "withdraw" /\ k >= 31
      BY <3>1, ClosingRanks DEF k
    <3> QED BY <1>1, <1>2, <1>10, <3>1, <3>2, NamedRanks
  <2> QED BY <2>1, <2>2
<1>12. t.op = "verifyRecord" =>
          /\ Exists(c, t.part, "record")
          /\ \A i \in 1..ProofLen[t.part] :
                (i - 1) * RECORD_WRITE_CHUNK < ProofLen[t.part]
                  => Write(t.part, i) \in c.did
  <2> SUFFICES ASSUME t.op = "verifyRecord"
               PROVE  /\ Exists(c, t.part, "record")
                      /\ \A i \in 1..ProofLen[t.part] :
                            (i - 1) * RECORD_WRITE_CHUNK < ProofLen[t.part]
                              => Write(t.part, i) \in c.did
    OBVIOUS
  <2>1. t.part \in Parts /\ t = RangeTx(t.part)
    BY Table
  <2>2. \/ t.part = "transfer" /\ k = 16
        \/ t.part = "withdraw" /\ k = 29
    BY <2>1, NamedRanks DEF Parts, k
  <2>3. Exists(c, t.part, "record")
    BY <1>2, <1>10, <2>2, NamedRanks
  <2>4. Write(t.part, 1) \in c.did /\ Write(t.part, 2) \in c.did
    BY <1>3, <2>2, NamedRanks, Names DEF Closing
  <2>5. \A i \in 1..ProofLen[t.part] :
           (i - 1) * RECORD_WRITE_CHUNK < ProofLen[t.part] <=> i \in {1, 2}
    BY <2>1, Chunks DEF Parts
  <2> QED BY <2>3, <2>4, <2>5
<1>13. t.op \in {"transfer", "withdraw"} =>
          /\ Configured(c, "sender") /\ Configured(c, "recipient")
          /\ Exists(c, t.part, "equality") /\ Exists(c, t.part, "range")
          /\ t.op = "transfer" => Exists(c, t.part, "validity")
          /\ c.acct[t.on].available = proof[t.part].available
  <2>1. CASE t.op = "transfer"
    <3>1. t = TransferTx /\ t.part = "transfer" /\ t.on = "sender" /\ k = 17
      BY <2>1, Table, Names, NamedRanks DEF k
    <3>2. Configured(c, "sender") /\ Configured(c, "recipient")
      BY <1>4, <3>1, NamedRanks DEF Holders
    <3>3. /\ Exists(c, "transfer", "equality") /\ Exists(c, "transfer", "validity")
          /\ Exists(c, "transfer", "range")
      BY <1>2, <1>10, <3>1, NamedRanks
    <3>4. ApplyTx("sender") \in c.ok /\ TransferTx \notin c.ok
      BY <1>1, <1>3, <3>1, NamedRanks, Names DEF Closing
    <3>5. c.acct["sender"].available = 5000 /\ proof["transfer"].available = 5000
      BY <3>1, <3>4 DEF Worked, Exact, Parts
    <3> QED BY <2>1, <3>1, <3>2, <3>3, <3>5
  <2>2. CASE t.op = "withdraw"
    <3>1. t = WithdrawTx /\ t.part = "withdraw" /\ t.on = "recipient" /\ k = 30
      BY <2>2, Table, Names, NamedRanks DEF k
    <3>2. Configured(c, "sender") /\ Configured(c, "recipient")
      BY <1>4, <3>1, NamedRanks DEF Holders
    <3>3. Exists(c, "withdraw", "equality") /\ Exists(c, "withdraw", "range")
      BY <1>2, <1>10, <3>1, NamedRanks
    <3>4. ApplyTx("recipient") \in c.ok /\ WithdrawTx \notin c.ok
      BY <1>1, <1>3, <3>1, NamedRanks, Names DEF Closing
    <3>5. c.acct["recipient"].available = 5000 /\ proof["withdraw"].available = 5000
      BY <3>1, <3>4 DEF Worked, Exact, Parts
    <3> QED BY <2>2, <3>1, <3>2, <3>3, <3>5
  <2> QED BY <2>1, <2>2
<1>14. t.op = "closeContext" => Exists(c, t.part, t.on)
  <2> SUFFICES ASSUME t.op = "closeContext" PROVE Exists(c, t.part, t.on)
    OBVIOUS
  <2>1. /\ t.part \in Parts /\ t.op \in Closing
        /\ t.on \in {"equality", "range"} \/ (t.on = "validity" /\ t.part = "transfer")
    BY Table DEF Closing
  <2>2. \/ t.part = "transfer" /\ k >= 18
        \/ t.part = "withdraw" /\ k >= 31
    BY <2>1, ClosingRanks DEF k
  <2>3. CASE t.on = "range"
    BY <1>1, <1>2, <1>10, <2>1, <2>2, <2>3, NamedRanks
  <2>4. CASE t.on = "equality"
    BY <1>1, <1>2, <1>10, <2>1, <2>2, <2>4, NamedRanks
  <2>5. CASE t.on = "validity" /\ t.part = "transfer"
    BY <1>1, <1>2, <1>10, <2>1, <2>2, <2>5, NamedRanks
  <2> QED BY <2>1, <2>3, <2>4, <2>5
<1> QED BY <1>5, <1>6, <1>7, <1>8, <1>9, <1>11, <1>12, <1>13, <1>14 DEF Accepts

\* The books stay right.
LEMMA WorkedStep ==
    ASSUME NEW c, Sound(c), Worked(c), NEW t \in Txs, c.ok = Before(Rank(t)),
           KnownDefect, defect \in Unseen, Accepts(c, t)
    PROVE  Worked(Execute(c, t)) /\ Execute(c, t).ok = c.ok \cup {t}
<1> DEFINE d == Execute(c, t)
           k == Rank(t)
           m == Moved(c.acct, t)
<1>1. c \in Chains /\ c.acct \in Accounts /\ c.did \subseteq c.ok /\ k \in 1..33
  BY Table DEF Sound, Chains, Honest
<1>2. defect # [op |-> t.op, how |-> "rejects"]
  <2>1. t.op # "none"
    BY Table DEF Items
  <2> QED BY <2>1 DEF Unseen
<1>3. Ignored(d, c, t) \/ Applied(d, c, t)
  BY <1>1, <1>2, Executed
<1>4. \A u \in Txs : u \in c.ok <=> Rank(u) < k
  BY DEF Before
<1>5. /\ DepositTx \in c.ok <=> 7 < k
      /\ ApplyTx("sender") \in c.ok <=> 9 < k
      /\ TransferTx \in c.ok <=> 17 < k
      /\ ApplyTx("recipient") \in c.ok <=> 23 < k
      /\ WithdrawTx \in c.ok <=> 30 < k
  BY <1>4, NamedRanks
<1>6. /\ t.op = "deposit" <=> t = DepositTx
      /\ t.op = "transfer" <=> t = TransferTx
      /\ t.op = "withdraw" <=> t = WithdrawTx
      /\ t.op = "apply" /\ t.on = "sender" <=> t = ApplyTx("sender")
      /\ t.op = "apply" /\ t.on = "recipient" <=> t = ApplyTx("recipient")
  BY Table, Names
<1>7. /\ t = DepositTx => k = 7
      /\ t = ApplyTx("sender") => k = 9
      /\ t = TransferTx => k = 17
      /\ t = ApplyTx("recipient") => k = 23
      /\ t = WithdrawTx => k = 30
  BY NamedRanks
<1> HIDE DEF d, k
<1>8. CASE Ignored(d, c, t)
  <2>1. /\ d.ok = c.ok \cup {t} /\ d.err = c.err /\ d.did = c.did /\ d.acct = c.acct
        /\ defect = [op |-> t.op, how |-> "ignores"]
    BY <1>8 DEF Ignored
  <2>2. t.op \in Closing
    <3>1. t.op # "none"
      BY Table DEF Items
    <3> QED BY <2>1, <3>1 DEF Unseen
  <2>3. /\ t # DepositTx /\ t # TransferTx /\ t # WithdrawTx
        /\ t # ApplyTx("sender") /\ t # ApplyTx("recipient")
    BY <2>2, Names DEF Closing
  <2>4. /\ DepositTx \in d.ok <=> DepositTx \in c.ok
        /\ TransferTx \in d.ok <=> TransferTx \in c.ok
        /\ WithdrawTx \in d.ok <=> WithdrawTx \in c.ok
        /\ ApplyTx("sender") \in d.ok <=> ApplyTx("sender") \in c.ok
        /\ ApplyTx("recipient") \in d.ok <=> ApplyTx("recipient") \in c.ok
    BY <2>1, <2>3
  <2>5. \A u \in d.ok : u.op \notin Closing => u \in d.did
    BY <2>1, <2>2 DEF Worked
  <2>6. Worked(d)
    BY <2>1, <2>4, <2>5 DEF Worked
  <2> QED BY <2>1, <2>6 DEF d
<1>9. CASE Applied(d, c, t)
  <2>1. /\ d.ok = c.ok \cup {t} /\ d.err = c.err /\ d.did = c.did \cup {t} /\ d.acct = m
    BY <1>9 DEF Applied
  <2>2. /\ m["sender"].pending =
              IF t.op = "deposit" THEN c.acct["sender"].pending + 5000
              ELSE IF t.op = "apply" /\ t.on = "sender" THEN 0
              ELSE c.acct["sender"].pending
        /\ m["recipient"].pending =
              IF t.op = "transfer" THEN c.acct["recipient"].pending + 5000
              ELSE IF t.op = "apply" /\ t.on = "recipient" THEN 0
              ELSE c.acct["recipient"].pending
        /\ m["sender"].available =
              IF t.op = "apply" /\ t.on = "sender"
              THEN c.acct["sender"].available + c.acct["sender"].pending
              ELSE IF t.op = "transfer" THEN c.acct["sender"].available - 5000
              ELSE c.acct["sender"].available
        /\ m["recipient"].available =
              IF t.op = "apply" /\ t.on = "recipient"
              THEN c.acct["recipient"].available + c.acct["recipient"].pending
              ELSE IF t.op = "withdraw" THEN c.acct["recipient"].available - 2000
              ELSE c.acct["recipient"].available
        /\ m["sender"].decryptable =
              IF t.op = "apply" /\ t.on = "sender" THEN 5000
              ELSE IF t.op = "transfer" THEN c.acct["sender"].decryptable - 5000
              ELSE c.acct["sender"].decryptable
    BY <1>1, Moving
  <2> HIDE DEF m
  <2>3. /\ DepositTx \in d.ok <=> 7 < k \/ t = DepositTx
        /\ ApplyTx("sender") \in d.ok <=> 9 < k \/ t = ApplyTx("sender")
        /\ TransferTx \in d.ok <=> 17 < k \/ t = TransferTx
        /\ ApplyTx("recipient") \in d.ok <=> 23 < k \/ t = ApplyTx("recipient")
        /\ WithdrawTx \in d.ok <=> 30 < k \/ t = WithdrawTx
    BY <1>5, <2>1
  <2>4. /\ c.acct["sender"].pending = IF 7 < k /\ ~(9 < k) THEN 5000 ELSE 0
        /\ c.acct["sender"].available = IF 9 < k /\ ~(17 < k) THEN 5000 ELSE 0
        /\ c.acct["sender"].decryptable = IF 9 < k /\ ~(17 < k) THEN 5000 ELSE 0
        /\ c.acct["recipient"].pending = IF 17 < k /\ ~(23 < k) THEN 5000 ELSE 0
        /\ c.acct["recipient"].available = IF 23 < k THEN IF 30 < k THEN 3000 ELSE 5000 ELSE 0
    BY <1>5 DEF Worked
  <2>5. d.acct["sender"].pending =
           IF DepositTx \in d.ok /\ ApplyTx("sender") \notin d.ok THEN 5000 ELSE 0
    BY <1>1, <1>6, <1>7, <2>1, <2>2, <2>3, <2>4
  <2>6. d.acct["sender"].available =
           IF ApplyTx("sender") \in d.ok /\ TransferTx \notin d.ok THEN 5000 ELSE 0
    BY <1>1, <1>6, <1>7, <2>1, <2>2, <2>3, <2>4
  <2>7. d.acct["sender"].decryptable =
           IF ApplyTx("sender") \in d.ok /\ TransferTx \notin d.ok THEN 5000 ELSE 0
    BY <1>1, <1>6, <1>7, <2>1, <2>2, <2>3, <2>4
  <2>8. d.acct["recipient"].pending =
           IF TransferTx \in d.ok /\ ApplyTx("recipient") \notin d.ok THEN 5000 ELSE 0
    BY <1>1, <1>6, <1>7, <2>1, <2>2, <2>3, <2>4
  <2>9. d.acct["recipient"].available =
           IF ApplyTx("recipient") \in d.ok
           THEN IF WithdrawTx \in d.ok THEN 3000 ELSE 5000
           ELSE 0
    BY <1>1, <1>6, <1>7, <2>1, <2>2, <2>3, <2>4
  <2>10. d.err = {} /\ \A u \in d.ok : u.op \notin Closing => u \in d.did
    BY <2>1 DEF Worked
  <2>11. Worked(d)
    BY <2>5, <2>6, <2>7, <2>8, <2>9, <2>10 DEF Worked
  <2> QED BY <2>1, <2>11 DEF d
<1> QED BY <1>3, <1>8, <1>9

-----------------------------------------------------------------------------
\* Nothing hinders the test, and the runtime has no defect that it could see.
Right == network = "live" /\ defect \in Unseen /\ faults = {}

\* Then every transaction succeeds, the books are exact and so are the proofs.
Quiet ==
    /\ outcome = "skip" => network = "localnet"
    /\ network = "localnet" => outcome \in {"none", "skip"}
    /\ drops = 0 \/ "drop" \in faults
    /\ Right => /\ outcome \in {"none", "pass"}
                /\ Worked(processed)
                /\ step > 10 => Exact("transfer")
                /\ step > 24 => Exact("withdraw")
                /\ step > 35 => senderSaw = 5000

\* Quiet holds at the start.
LEMMA QuietInit ==
    ASSUME Init
    PROVE  Quiet
<1>1. /\ outcome = "none" /\ drops = 0 /\ step = 0 /\ processed = EmptyChain
  BY DEF Init
<1>2. /\ EmptyChain.acct["sender"] = EmptyAccount /\ EmptyChain.acct["recipient"] = EmptyAccount
  BY EmptyChainIs DEF Holders
<1>3. Worked(EmptyChain)
  BY <1>2, EmptyChainIs DEF Worked, EmptyAccount
<1> QED BY <1>1, <1>3 DEF Quiet

\* A read that is answered from the end of the fork sees all that was sent.
LEMMA ReadsNow ==
    ASSUME Place, Net, Recorded, Seen, Quiet, NEW op \in Reads, Reading(op), Right'
    PROVE  /\ Right /\ confirmed = processed /\ step \in 1..36 /\ Now = Flow[step]
           /\ \A t \in Txs : Rank(t) < step => t \in confirmed.ok
           /\ \A t \in Txs : Rank(t) < step /\ t.op \notin Closing => t \in confirmed.did
<1>1. UNCHANGED <<network, defect>> /\ Now.op = op /\ faults = {} /\ fork = <<>>
  <2>1. IF fork = <<>> THEN UNCHANGED faults ELSE faults' = faults \cup {"stale"}
    BY DEF Reading, Fault
  <2>2. faults' = {}
    BY DEF Right
  <2> QED BY <2>1, <2>2 DEF Reading
<1>2. Right
  BY <1>1 DEF Right
<1>3. confirmed = processed
  <2>1. PICK h : Replay(h)
    BY DEF Recorded
  <2>2. Len(fork) = 0
    BY <1>1
  <2> QED BY <2>1, <2>2 DEF Replay
<1>4. step \in 1..36 /\ Now = Flow[step]
  <2>1. Now.op # "none"
    BY <1>1 DEF Reads
  <2> QED BY <2>1, NowIs DEF Place
<1>5. \A t \in Txs : Rank(t) < step => t \in confirmed.ok
  <2>1. drops = 0
    BY <1>1 DEF Quiet
  <2> QED BY <1>3, <2>1 DEF Seen, Before
<1>6. \A t \in Txs : Rank(t) < step /\ t.op \notin Closing => t \in confirmed.did
  BY <1>2, <1>3, <1>5 DEF Quiet, Worked
<1> QED BY <1>2, <1>3, <1>4, <1>5, <1>6

\* A step of the test that changes neither the chain nor the proofs.
LEMMA QuietHost ==
    ASSUME Place, Quiet, UNCHANGED <<network, defect, processed, drops, proof>>,
           faults \subseteq faults',
           step' = step \/ (step' = step + 1 /\ step \notin {10, 24, 35}),
           senderSaw' = senderSaw, outcome' = outcome
    PROVE  Quiet'
<1>1. drops' = 0 \/ "drop" \in faults'
  BY DEF Quiet
<1>2. ASSUME Right'
      PROVE  /\ outcome' \in {"none", "pass"} /\ Worked(processed)'
             /\ step' > 10 => Exact("transfer")'
             /\ step' > 24 => Exact("withdraw")'
             /\ step' > 35 => senderSaw' = 5000
  <2>1. Right
    BY <1>2 DEF Right
  <2>2. /\ step' > 10 => step > 10
        /\ step' > 24 => step > 24
        /\ step' > 35 => step > 35
    BY DEF Place
  <2> QED BY <2>1, <2>2 DEF Quiet, Worked, Exact
<1> QED BY <1>1, <1>2 DEF Quiet

\* On a quiet network only the current transaction is executed, and accepted.
LEMMA QuietProcess ==
    ASSUME Place, Net, Truth, Seen, Quiet, NEW t \in sent, Process(t)
    PROVE  Quiet'
<1>1. /\ UNCHANGED <<network, defect, host, drops, faults>>
      /\ processed' = Execute(processed, t)
  BY DEF Process
<1>2. ASSUME Right
      PROVE  Worked(processed')
  <2>1. drops = 0 /\ processed.err = {}
    BY <1>2 DEF Quiet, Right, Worked
  <2>2. Before(step) \subseteq processed.ok
    BY <2>1 DEF Seen
  <2>3. t \in Txs /\ t \in Reach /\ t \notin Decided(processed)
    BY DEF Net
  <2>4. t = Now /\ step \in 1..36 /\ Rank(t) = step
    <3>1. t \notin Before(step)
      BY <2>2, <2>3 DEF Decided
    <3> QED BY <2>3, <3>1, NowIs DEF Reach, Current, Place
  <2>5. processed.ok = Before(Rank(t))
    <3>1. processed.ok \subseteq Reach
      BY DEF Net, Decided
    <3>2. t \notin processed.ok
      BY <2>3 DEF Decided
    <3>3. processed.ok \subseteq Before(step)
      BY <2>4, <3>1, <3>2 DEF Reach, Current
    <3> QED BY <2>2, <2>4, <3>3
  <2>6. Sound(processed) /\ KnownDefect /\ defect \in Unseen
    BY <1>2 DEF Truth, Net, Right
  <2>7. t.part \in Parts => Exact(t.part)
    <3>1. /\ t.part = "transfer" => step > 10
          /\ t.part = "withdraw" => step > 24
      BY <2>3, <2>4, PartPlaces
    <3> QED BY <1>2, <3>1 DEF Quiet, Parts
  <2>8. Accepts(processed, t)
    BY <1>2, <2>3, <2>5, <2>6, <2>7, Ready DEF Quiet
  <2> QED BY <1>1, <1>2, <2>3, <2>5, <2>6, <2>8, WorkedStep DEF Quiet
<1>3. Right' => Right
  BY <1>1 DEF Right
<1>4. UNCHANGED <<outcome, step, proof, senderSaw>>
  BY <1>1 DEF host
<1>5. Right' => Worked(processed)'
  BY <1>2, <1>3 DEF Worked
<1> QED BY <1>1, <1>3, <1>4, <1>5 DEF Quiet, Exact

\* A read that is not answered from the end of the fork.
LEMMA QuietBlind ==
    ASSUME Place, Quiet, NEW op \in Reads, Reading(op), outcome' # "skip", ~Right'
    PROVE  Quiet'
<1>1. UNCHANGED <<network, drops>> /\ faults \subseteq faults' /\ Now.op = op
  BY DEF Reading, Fault, chain
<1>2. network # "localnet"
  <2>1. Now.op # "none"
    BY <1>1 DEF Reads
  <2> QED BY <2>1, NowIs DEF Place
<1> QED BY <1>1, <1>2 DEF Quiet

\* The accounts the test reads are there.
LEMMA Readable ==
    ASSUME NEW c, NEW on \in Holders
    PROVE  /\ ConfigureTx(on) \in c.did => Configured(c, on)
           /\ c.did \subseteq Txs /\ AccountTx(on) \in c.did => Exists(c, "setup", on)
<1>1. ConfigureTx(on) \in c.did => Configured(c, on)
  BY DEF Configured, Did, ConfigureTx, Step
<1>2. ASSUME c.did \subseteq Txs, AccountTx(on) \in c.did
      PROVE  Exists(c, "setup", on)
  <2>1. /\ AccountTx(on).op \in Creating /\ AccountTx(on).part = "setup"
        /\ AccountTx(on).on = on
    BY DEF AccountTx, Step, Creating
  <2>2. \A v \in c.did : ~(v.op \in Closing /\ v.part = "setup" /\ v.on = on)
    BY <1>2, ClosingRanks
  <2> QED BY <1>2, <2>1, <2>2 DEF Exists, Did
<1> QED BY <1>1, <1>2

\* Every step keeps Quiet: no read, status or comparison of the test fails.
LEMMA QuietStep ==
    ASSUME Place, Net, Truth, Recorded, Seen, Quiet, [Next]_vars
    PROVE  Quiet'
<1>1. CASE Start
  <2>1. /\ step = 0 /\ Running
        /\ UNCHANGED <<network, defect, processed, drops, proof, senderSaw, faults>>
        /\ \/ network = "localnet" /\ Return("skip")
           \/ network \notin {"localnet", "live"} /\ Return("fail")
           \/ network = "live" /\ step' = 1 /\ outcome' = outcome
    BY <1>1 DEF Start, Return, chain
  <2>2. CASE network = "localnet" /\ Return("skip")
    BY <2>1, <2>2 DEF Quiet, Right, Return
  <2>3. CASE network \notin {"localnet", "live"} /\ Return("fail")
    BY <2>1, <2>3 DEF Quiet, Right, Return
  <2>4. CASE network = "live" /\ step' = 1 /\ outcome' = outcome
    BY <2>1, <2>4, QuietHost
  <2> QED BY <2>1, <2>2, <2>3, <2>4
<1>2. CASE Send
  BY <1>2, QuietHost DEF Send
<1>3. CASE Poll
  <2>1. /\ Now \in Txs /\ step \in 1..36 /\ Now = Flow[step] /\ network = "live"
        /\ UNCHANGED <<network, defect, processed, drops, faults>>
    BY <1>3, NowIs DEF Poll, Place, chain
  <2>2. CASE step' = step + 1 /\ UNCHANGED <<proof, senderSaw, outcome>>
    <3>1. step \notin {10, 24, 35}
      <4>1. Now.op \notin Reads
        BY <2>1, Table
      <4> QED BY <2>1, <4>1, Places
    <3> QED BY <2>1, <2>2, <3>1, QuietHost
  <2>3. CASE Now \in processed.err /\ Return("fail")
    <3>1. ~Right
      BY <2>3 DEF Quiet, Worked
    <3>2. ~Right'
      BY <2>1, <3>1 DEF Right
    <3> QED BY <2>1, <2>3, <3>2 DEF Quiet, Return
  <2> QED BY <1>3, <2>2, <2>3 DEF Poll
<1>4. CASE GiveUp \/ RpcFails
  <2>1. /\ Return("fail")
        /\ UNCHANGED <<network, drops>>
        /\ faults \subseteq faults'
        /\ faults' # {}
        /\ network # "localnet"
    <3>1. step # 0
      BY <1>4, NowIs, Ranked DEF GiveUp, RpcFails, Place
    <3> QED BY <1>4, <3>1 DEF GiveUp, RpcFails, Fault, chain, Place
  <2> QED BY <2>1 DEF Quiet, Right, Return
<1>5. CASE ReadCounter
  <2>1. /\ Reading("counter") /\ "counter" \in Reads /\ Now.op = "counter" /\ Running
        /\ UNCHANGED <<network, defect, processed, drops>> /\ faults \subseteq faults'
    BY <1>5 DEF ReadCounter, Reads, Reading, Fault, chain
  <2>2. CASE ~Right'
    BY <1>5, <2>1, <2>2, QuietBlind DEF ReadCounter, GoOn, Return, Running
  <2>3. CASE Right'
    <3>1. /\ step \in 1..36 /\ Now = Flow[step]
          /\ \A t \in Txs : Rank(t) < step /\ t.op \notin Closing => t \in confirmed.did
      BY <2>1, <2>3, ReadsNow
    <3>2. \/ step = 8 /\ Now.on = "sender"
          \/ step = 22 /\ Now.on = "recipient"
      <4>1. step \in {8, 22}
        BY <2>1, <3>1, Places
      <4>2. /\ Flow[8] = Step("counter", "setup", "sender")
            /\ Flow[22] = Step("counter", "setup", "recipient")
        BY FlowLine
      <4> QED BY <3>1, <4>1, <4>2 DEF Step
    <3>3. Configured(confirmed, Now.on)
      <4>1. ConfigureTx(Now.on) \in confirmed.did
        BY <3>1, <3>2, NamedRanks, Names DEF Closing
      <4> QED BY <3>2, <4>1, Readable DEF Holders
    <3>4. GoOn /\ UNCHANGED <<proof, senderSaw>>
      BY <1>5, <3>3 DEF ReadCounter
    <3> QED BY <2>1, <3>2, <3>4, QuietHost DEF GoOn
  <2> QED BY <2>2, <2>3
<1>6. CASE Prove
  <2>1. /\ Reading("prove") /\ "prove" \in Reads /\ Now.op = "prove" /\ Running
        /\ UNCHANGED <<network, defect, processed, drops>> /\ faults \subseteq faults'
    BY <1>6 DEF Prove, Reads, Reading, Fault, chain
  <2>2. CASE ~Right'
    <3>1. outcome' # "skip"
      BY <1>6, <2>1 DEF Prove, GoOn, Return, Running
    <3> QED BY <2>1, <2>2, <3>1, QuietBlind
  <2>3. CASE Right'
    <3>1. /\ Right /\ confirmed = processed /\ step \in 1..36 /\ Now = Flow[step]
          /\ \A t \in Txs : Rank(t) < step /\ t.op \notin Closing => t \in confirmed.did
      BY <2>1, <2>3, ReadsNow
    <3>2. \/ step = 10 /\ Now.part = "transfer" /\ Now.on = "sender"
          \/ step = 24 /\ Now.part = "withdraw" /\ Now.on = "recipient"
      <4>1. step \in {10, 24}
        BY <2>1, <3>1, Places
      <4>2. /\ Flow[10] = Step("prove", "transfer", "sender")
            /\ Flow[24] = Step("prove", "withdraw", "recipient")
        BY FlowLine
      <4> QED BY <3>1, <4>1, <4>2 DEF Step
    <3>3. Configured(confirmed, Now.on)
      <4>1. ConfigureTx(Now.on) \in confirmed.did
        BY <3>1, <3>2, NamedRanks, Names DEF Closing
      <4> QED BY <3>2, <4>1, Readable DEF Holders
    <3>4. Worked(confirmed) /\ confirmed.did \subseteq confirmed.ok
      BY <3>1 DEF Quiet, Truth, Sound, Honest
    <3>5. /\ processed.ok \subseteq Before(step)
          /\ confirmed.ok \subseteq Before(step)
      <4>1. Now \notin Txs
        BY <2>1, <3>1, NowIs DEF Reads, Place
      <4> QED BY <3>1, <4>1 DEF Net, Decided, Reach, Current, Sound, Truth, Chains
    <3>6. /\ step = 10 => /\ confirmed.acct["sender"].available = 5000
                          /\ confirmed.acct["sender"].decryptable = 5000
          /\ step = 24 => confirmed.acct["recipient"].available = 5000
      <4>1. ASSUME step = 10
            PROVE  ApplyTx("sender") \in confirmed.ok /\ TransferTx \notin confirmed.ok
        <5>1. ApplyTx("sender") \in confirmed.did
          BY <3>1, <4>1, NamedRanks, Names DEF Closing
        <5> QED BY <3>4, <3>5, <4>1, <5>1, NamedRanks DEF Before
      <4>2. ASSUME step = 24
            PROVE  ApplyTx("recipient") \in confirmed.ok /\ WithdrawTx \notin confirmed.ok
        <5>1. ApplyTx("recipient") \in confirmed.did
          BY <3>1, <4>2, NamedRanks, Names DEF Closing
        <5> QED BY <3>4, <3>5, <4>2, <5>1, NamedRanks DEF Before
      <4> QED BY <3>4, <4>1, <4>2 DEF Worked
    <3>7. /\ GoOn /\ UNCHANGED senderSaw
          /\ proof' = [proof EXCEPT ![Now.part] = [available |-> 5000, claimed |-> 5000]]
      BY <1>6, <3>2, <3>3, <3>6 DEF Prove, TRANSFER_AMOUNT, WITHDRAW_AMOUNT
    <3>8. proof \in [Parts -> [available : Int, claimed : Int]]
      BY DEF Truth, ProofType
    <3>9. /\ step' > 10 => Exact("transfer")'
          /\ step' > 24 => Exact("withdraw")'
      <4>1. CASE step = 10
        BY <3>2, <3>7, <3>8, <4>1 DEF Exact, Parts, GoOn
      <4>2. CASE step = 24
        <5>1. Exact("transfer")
          BY <3>1, <4>2 DEF Quiet
        <5> QED BY <3>2, <3>7, <3>8, <4>2, <5>1 DEF Exact, Parts
      <4> QED BY <3>2, <4>1, <4>2
    <3>10. Worked(processed)' /\ outcome' = outcome /\ ~(step' > 35)
      BY <2>1, <3>1, <3>2, <3>7 DEF Quiet, Worked, GoOn
    <3> QED BY <2>1, <3>1, <3>9, <3>10 DEF Quiet
  <2> QED BY <2>2, <2>3
<1>7. CASE Audit
  <2>1. /\ Reading("audit") /\ "audit" \in Reads /\ Now.op = "audit" /\ Running
        /\ UNCHANGED <<network, defect, processed, drops>> /\ faults \subseteq faults'
    BY <1>7 DEF Audit, Reads, Reading, Fault, chain
  <2>2. CASE ~Right'
    BY <1>7, <2>1, <2>2, QuietBlind DEF Audit, GoOn, Return, Running
  <2>3. CASE Right'
    <3>1. /\ step \in 1..36 /\ Now = Flow[step]
          /\ \A t \in Txs : Rank(t) < step => t \in confirmed.ok
      BY <2>1, <2>3, ReadsNow
    <3>2. step = 34
      BY <2>1, <3>1, Places
    <3>3. TransferTx \in confirmed.ok
      BY <3>1, <3>2, NamedRanks
    <3>4. GoOn /\ UNCHANGED <<proof, senderSaw>>
      BY <1>7, <3>3 DEF Audit, TransferTx
    <3> QED BY <2>1, <3>2, <3>4, QuietHost DEF GoOn
  <2> QED BY <2>2, <2>3
<1>8. CASE ReadSender
  <2>1. /\ Reading("readSender") /\ "readSender" \in Reads /\ Now.op = "readSender" /\ Running
        /\ UNCHANGED <<network, defect, processed, drops>> /\ faults \subseteq faults'
    BY <1>8 DEF ReadSender, Reads, Reading, Fault, chain
  <2>2. CASE ~Right'
    BY <1>8, <2>1, <2>2, QuietBlind DEF ReadSender, GoOn, Return, Running
  <2>3. CASE Right'
    <3>1. /\ Right /\ step \in 1..36 /\ Now = Flow[step]
          /\ \A t \in Txs : Rank(t) < step /\ t.op \notin Closing => t \in confirmed.did
      BY <2>1, <2>3, ReadsNow
    <3>2. step = 35
      BY <2>1, <3>1, Places
    <3>3. /\ AccountTx("sender") \in confirmed.did /\ MintToTx \in confirmed.did
          /\ DepositTx \in confirmed.did
      BY <3>1, <3>2, NamedRanks, Names DEF Closing
    <3>4. Exists(confirmed, "setup", "sender")
      BY <3>3, Readable DEF Holders, Truth, Sound, Chains
    <3>5. /\ senderSaw' = confirmed.acct["sender"].public /\ GoOn /\ UNCHANGED proof
      BY <1>8, <3>4 DEF ReadSender
    <3>6. senderSaw' = 5000
      BY <3>3, <3>5 DEF Truth, Sound, Booked
    <3>7. /\ Worked(processed)' /\ outcome' = outcome
          /\ Exact("transfer")' /\ Exact("withdraw")'
      BY <2>1, <3>1, <3>2, <3>5 DEF Quiet, Worked, GoOn, Exact
    <3> QED BY <2>1, <3>1, <3>6, <3>7 DEF Quiet
  <2> QED BY <2>2, <2>3
<1>9. CASE ReadRecipient
  <2>1. /\ Reading("readRecipient") /\ "readRecipient" \in Reads /\ Now.op = "readRecipient"
        /\ UNCHANGED <<network, defect, processed, drops, proof, senderSaw, step>>
        /\ faults \subseteq faults' /\ outcome' \in {"pass", "fail"}
    BY <1>9 DEF ReadRecipient, Reads, Reading, Fault, Return, chain
  <2>2. CASE ~Right'
    BY <2>1, <2>2, QuietBlind
  <2>3. CASE Right'
    <3>1. /\ Right /\ step \in 1..36 /\ Now = Flow[step]
          /\ \A t \in Txs : Rank(t) < step /\ t.op \notin Closing => t \in confirmed.did
      BY <2>1, <2>3, ReadsNow
    <3>2. step = 36
      BY <2>1, <3>1, Places
    <3>3. AccountTx("recipient") \in confirmed.did /\ WithdrawTx \in confirmed.did
      BY <3>1, <3>2, NamedRanks, Names DEF Closing
    <3>4. Exists(confirmed, "setup", "recipient")
      BY <3>3, Readable DEF Holders, Truth, Sound, Chains
    <3>5. senderSaw = 5000 /\ confirmed.acct["recipient"].public = 2000
      BY <3>1, <3>2, <3>3 DEF Quiet, Truth, Sound, Booked
    <3>6. Balanced(senderSaw, confirmed.acct.recipient.public)
      BY <3>5 DEF Balanced, MINT_AMOUNT, DEPOSIT_AMOUNT, WITHDRAW_AMOUNT
    <3>7. outcome' = "pass"
      BY <1>9, <3>4, <3>6 DEF ReadRecipient, Return
    <3>8. /\ Worked(processed)' /\ Exact("transfer")' /\ Exact("withdraw")' /\ senderSaw' = 5000
      BY <2>1, <3>1, <3>2, <3>5 DEF Quiet, Worked, Exact
    <3>9. network # "localnet"
      BY <3>2 DEF Place
    <3> QED BY <2>1, <3>7, <3>8, <3>9 DEF Quiet
  <2> QED BY <2>2, <2>3
<1>10. CASE Confirm \/ UNCHANGED vars
  <2>1. UNCHANGED <<network, defect, host, processed, drops, faults>>
    BY <1>10 DEF Confirm, vars, chain
  <2> QED BY <2>1, QuietHost DEF host
<1>11. CASE Drop
  <2>1. UNCHANGED <<network, outcome>> /\ "drop" \in faults'
    BY <1>11 DEF Drop, host
  <2> QED BY <2>1 DEF Quiet, Right
<1> QED BY <1>1, <1>2, <1>3, <1>4, <1>5, <1>6, <1>7, <1>8, <1>9, <1>10, <1>11,
           QuietProcess DEF Next, Host

-----------------------------------------------------------------------------
IInv == Place /\ Net /\ Truth /\ Recorded /\ Seen /\ Quiet

\* The inductive invariant of the test and the network.
LEMMA Invariant == Spec => []IInv
<1>1. Init => IInv
  BY PlaceInit, NetInit, TruthInit, RecordedInit, SeenInit, QuietInit DEF IInv
<1>2. IInv /\ [Next]_vars => IInv'
  <2> SUFFICES ASSUME IInv, [Next]_vars PROVE IInv'
    OBVIOUS
  <2>1. Place /\ Net /\ Truth /\ Recorded /\ Seen /\ Quiet
    BY DEF IInv
  <2>2. Place' /\ Net' /\ Truth' /\ Seen' /\ Quiet'
    BY <2>1, PlaceStep, NetStep, TruthStep, SeenStep, QuietStep
  <2>3. Recorded'
    BY <2>1, <2>2, RecordedStep
  <2> QED BY <2>2, <2>3 DEF IInv
<1> QED BY <1>1, <1>2, PTL DEF Spec

\* The variables keep their types.
THEOREM TypeCorrect == Spec => []TypeOK
<1>1. IInv => TypeOK
  <2> SUFFICES ASSUME Place, Net, Truth, Seen PROVE TypeOK
    BY DEF IInv
  <2>1. step \in 0..(Len(Flow) + 1)
    BY FlowLine DEF Place
  <2>2. records \subseteq Txs /\ sigs \subseteq Txs
    BY DEF Place, Before
  <2>3. \A i \in DOMAIN fork : fork[i] \in Txs
    BY DEF Net
  <2>4. \A c \in {processed, confirmed} :
           /\ c.did \subseteq c.ok /\ c.ok \cup c.err \subseteq Txs
           /\ c.ok \cap c.err = {}
    BY DEF Truth, Sound, Chains, Honest
  <2> QED BY <2>1, <2>2, <2>3, <2>4 DEF TypeOK, Place, Net, Seen, MINT_AMOUNT
<1> QED BY <1>1, Invariant, PTL

\* What is reported succeeded, and what succeeded is reported, up to the record in
\* work and the current transaction (send_ixs, create_record_account).
THEOREM EvidenceIsKept == Spec => []EvidenceKept
<1>1. IInv => EvidenceKept
  <2> SUFFICES ASSUME Place, Net, Recorded PROVE EvidenceKept
    BY DEF IInv
  <2>1. sigs \subseteq ever
    BY DEF Place, Recorded
  <2>2. ever \subseteq sigs \cup records \cup {Now}
    BY DEF Place, Net, Reach, Current
  <2> QED BY <2>1, <2>2 DEF EvidenceKept, Place
<1> QED BY <1>1, Invariant, PTL

\* What a pass rests on: the confirmed withdrawal needs all that was done before,
\* and the books of the confirmed chain show the amounts.
LEMMA Earned == IInv => PassIsEarned
<1> SUFFICES ASSUME Place, Net, Truth, Recorded, Seen, outcome = "pass"
             PROVE  /\ network = "live" /\ defect \in Unseen
                    /\ {DepositTx, TransferTx, WithdrawTx} \subseteq confirmed.did
                    /\ confirmed.acct.sender.public = MINT_AMOUNT - DEPOSIT_AMOUNT
                    /\ confirmed.acct.recipient.public = WITHDRAW_AMOUNT
  BY DEF IInv, PassIsEarned, DepositTx, TransferTx, WithdrawTx
<1>1. step = 36 /\ network = "live"
  BY DEF Place
<1>2. DepositTx \in confirmed.did /\ WithdrawTx \in confirmed.did
  BY DEF Seen
<1>3. Booked(confirmed) /\ Ordered(confirmed) /\ Honest(confirmed)
  BY DEF Truth, Sound
<1>4. /\ TransferTx \in confirmed.did /\ MintToTx \in confirmed.did
      /\ VerifyTx("withdraw", "equality") \in confirmed.did
      /\ RangeTx("withdraw") \in confirmed.did
      /\ ConfigureTx("sender") \in confirmed.did /\ ApplyTx("sender") \in confirmed.did
  BY <1>2, <1>3 DEF Ordered
<1>5. /\ RecordTx("withdraw") \in confirmed.did /\ Write("withdraw", 1) \in confirmed.did
      /\ AccountTx("sender") \in confirmed.did
  BY <1>3, <1>4 DEF Ordered, Parts, Holders
<1>6. MintTx \in confirmed.did
  BY <1>3, <1>5 DEF Ordered, Holders
<1>7. \A t \in confirmed.did : defect.op # t.op
  BY <1>3 DEF Honest
<1>8. defect.op \notin {"createMint", "createAccount", "configure", "mintTo", "deposit",
                        "apply", "verify", "createRecord", "write", "verifyRecord",
                        "transfer", "withdraw"}
  BY <1>2, <1>4, <1>5, <1>6, <1>7, Names
<1>9. \A t \in Txs : defect # [op |-> t.op, how |-> "rejects"]
  BY <1>1, BeforeEnds DEF Recorded
<1>10. defect \in Unseen
  <2>1. CASE defect = [op |-> "none", how |-> "none"]
    BY <2>1 DEF Unseen
  <2>2. CASE defect.how \in {"rejects", "ignores"}
    <3>1. PICK t \in Txs : defect.op = t.op
      BY <2>2, DefectKinds DEF Net
    <3>2. t.op \in Closing
      BY <1>8, <3>1, Table DEF Items, Reads, Closing
    <3>3. defect = [op |-> defect.op, how |-> defect.how]
      BY DefectKinds DEF Net
    <3>4. defect.how # "rejects"
      BY <1>9, <3>1, <3>3
    <3>5. defect = [op |-> t.op, how |-> "ignores"]
      BY <2>2, <3>1, <3>3, <3>4
    <3> QED BY <3>2, <3>5 DEF Unseen
  <2> QED BY <2>1, <2>2, DefectKinds DEF Net
<1> QED BY <1>1, <1>2, <1>3, <1>4, <1>10
        DEF Booked, MINT_AMOUNT, DEPOSIT_AMOUNT, WITHDRAW_AMOUNT

\* A pass of run_inner is of a runtime that did what it was asked: no defect but
\* one of closing, and the amounts moved, whatever forks were dropped.
THEOREM PassEarned == Spec => []PassIsEarned
BY Earned, Invariant, PTL

\* The closings of a part.
LEMMA Closings ==
    ASSUME NEW part \in Parts, NEW on \in {"equality", "validity", "range", "record"},
           on = "validity" => part = "transfer"
    PROVE  \E t \in Txs : t.op \in Closing /\ t.part = part /\ t.on = on
<1>1. /\ Flow[18] = Step("closeContext", "transfer", "equality")
      /\ Flow[19] = Step("closeContext", "transfer", "validity")
      /\ Flow[20] = Step("closeContext", "transfer", "range")
      /\ Flow[21] = Step("closeRecord", "transfer", "record")
      /\ Flow[31] = Step("closeContext", "withdraw", "equality")
      /\ Flow[32] = Step("closeContext", "withdraw", "range")
      /\ Flow[33] = Step("closeRecord", "withdraw", "record")
  BY FlowLine
<1>2. /\ Flow[18] \in Txs /\ Flow[19] \in Txs /\ Flow[20] \in Txs /\ Flow[21] \in Txs
      /\ Flow[31] \in Txs /\ Flow[32] \in Txs /\ Flow[33] \in Txs
  BY BeforeNext, Ops DEF Reads
<1>3. /\ Flow[18].op \in Closing /\ Flow[19].op \in Closing /\ Flow[20].op \in Closing
      /\ Flow[21].op \in Closing /\ Flow[31].op \in Closing /\ Flow[32].op \in Closing
      /\ Flow[33].op \in Closing
  BY Ops DEF Closing
<1>4. /\ Flow[18].on = "equality" /\ Flow[19].on = "validity" /\ Flow[20].on = "range"
      /\ Flow[21].on = "record" /\ Flow[31].on = "equality" /\ Flow[32].on = "range"
      /\ Flow[33].on = "record"
  BY <1>1 DEF Step
<1>5. part = "transfer" \/ (part = "withdraw" /\ on # "validity")
  BY DEF Parts
<1> QED BY <1>2, <1>3, <1>4, <1>5, PartsOf

\* Without dropped forks, the proof accounts of one part are closed before those of
\* the other are opened, and after a pass none is left.
THEOREM RentIsReclaimed == Spec => []RentReclaimed
<1>1. IInv => RentReclaimed
  <2> SUFFICES ASSUME Place, Net, Truth, Seen, drops = 0, defect.op \notin Closing
               PROVE  /\ ProofAccounts(processed, "transfer") = {}
                           \/ ProofAccounts(processed, "withdraw") = {}
                      /\ outcome = "pass" => \A part \in {"transfer", "withdraw"} :
                                                ProofAccounts(processed, part) = {}
    BY DEF IInv, RentReclaimed
  <2>1. processed.did \subseteq processed.ok /\ processed \in Chains
    BY DEF Truth, Sound, Honest
  <2>2. ASSUME NEW part \in Parts, \A t \in Txs : t.part = part => Rank(t) < step
        PROVE  ProofAccounts(processed, part) = {}
    <3> SUFFICES ASSUME NEW on \in {"equality", "validity", "range", "record"}
                 PROVE  ~Exists(processed, part, on)
      BY DEF ProofAccounts
    <3>1. CASE on = "validity" => part = "transfer"
      <4>1. PICK t \in Txs : t.op \in Closing /\ t.part = part /\ t.on = on
        BY <3>1, Closings
      <4>2. t \in processed.ok
        BY <2>2, <4>1 DEF Seen, Before
      <4>3. defect # [op |-> t.op, how |-> "ignores"]
        BY <4>1
      <4>4. t \in processed.did
        BY <4>2, <4>3 DEF Truth, Sound, Honest
      <4> QED BY <4>1, <4>4 DEF Exists, Did
    <3>2. CASE on = "validity" /\ part = "withdraw"
      <4>1. \A t \in Txs : ~(t.op \in Creating /\ t.part = part /\ t.on = on)
        BY <3>2, Table DEF Creating, Holders, MintTx, RecordTx, RangeTx, Step
      <4> QED BY <2>1, <4>1 DEF Exists, Did, Chains
    <3> QED BY <3>1, <3>2 DEF Parts
  <2>3. CASE step <= 24
    <3>1. \A t \in processed.did : t \in Txs /\ t \in Reach
      BY <2>1 DEF Net, Decided, Chains
    <3>2. \A t \in processed.did : Rank(t) <= 24
      <4> SUFFICES ASSUME NEW t \in processed.did PROVE Rank(t) <= 24
        OBVIOUS
      <4>1. t \in Txs /\ t \in Reach
        BY <3>1
      <4>2. CASE t \in Before(step)
        BY <2>3, <4>1, <4>2, Table DEF Before, Place
      <4>3. CASE t = Now
        BY <2>3, <4>1, <4>3, NowIs DEF Place
      <4> QED BY <4>1, <4>2, <4>3 DEF Reach, Current
    <3>3. \A t \in processed.did : t.part # "withdraw"
      BY <3>1, <3>2, PartPlaces
    <3>4. ProofAccounts(processed, "withdraw") = {}
      BY <3>3 DEF ProofAccounts, Exists, Did
    <3>5. outcome # "pass"
      BY <2>3 DEF Place
    <3> QED BY <3>4, <3>5
  <2>4. CASE step > 24
    <3>1. \A t \in Txs : t.part = "transfer" => Rank(t) < step
      BY <2>4, PartPlaces DEF Place
    <3>2. ProofAccounts(processed, "transfer") = {}
      BY <2>2, <3>1 DEF Parts
    <3>3. ASSUME outcome = "pass"
          PROVE  ProofAccounts(processed, "withdraw") = {}
      <4>1. step = 36
        BY <3>3 DEF Place
      <4>2. \A t \in Txs : t.part = "withdraw" => Rank(t) < step
        BY <4>1, PartPlaces
      <4> QED BY <2>2, <4>2 DEF Parts
    <3> QED BY <3>2, <3>3
  <2>5. step \in Nat
    BY DEF Place
  <2> QED BY <2>3, <2>4, <2>5
<1> QED BY <1>1, Invariant, PTL

\* On a quiet network run skips on localnet, and else passes exactly when the runtime
\* has no defect but one of closing.
THEOREM ExactOnQuietNetwork == Spec => []ExactWhenQuiet
<1>1. IInv => ExactWhenQuiet
  <2> SUFFICES ASSUME IInv, outcome # "none", faults = {}
               PROVE  /\ network = "localnet" <=> outcome = "skip"
                      /\ network = "live" => (outcome = "pass" <=> defect \in Unseen)
    BY DEF ExactWhenQuiet
  <2>1. /\ outcome = "skip" => network = "localnet"
        /\ network = "localnet" => outcome \in {"none", "skip"}
    BY DEF IInv, Quiet
  <2>2. ASSUME network = "live", outcome = "pass"
        PROVE  defect \in Unseen
    BY <2>2, Earned DEF PassIsEarned
  <2>3. ASSUME network = "live", defect \in Unseen
        PROVE  outcome = "pass"
    BY <2>3 DEF IInv, Quiet, Right
  <2> QED BY <2>1, <2>2, <2>3
<1> QED BY <1>1, Invariant, PTL
=============================================================================
