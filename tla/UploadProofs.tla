---------------------------- MODULE UploadProofs ----------------------------
(***************************************************************************)
(* The safety of the bootloader in the composed system: with the uploader, *)
(* the bus between them and the applications on the other side, faults of  *)
(* every kind included.                                                    *)
(*                                                                         *)
(* Every step of the composed system is, on the variables of Bootloader, a *)
(* step of Bootloader or one of the application's: the packets that reach  *)
(* the device are packets of the host's script, so that the invariants and *)
(* the refinement carry over.                                              *)
(***************************************************************************)
EXTENDS UploadSystem, BootloaderProofs, SequenceTheorems

USE DEF Loop, Reply, vars, ramVars, bootVars, busVars, hostVars, allVars

-----------------------------------------------------------------------------
(* The script is never empty, and holds packets only.                      *)

LEMMA FrameCountType ==
    ASSUME NEW mode \in {"FAST", "RAW", "DATA"}
    PROVE  FrameCount(mode) \in Nat
  <1>1. PICK n \in 0 .. AppWords : Firmware \in [1 .. n -> Cell]
    BY UploadAssumption DEF Images
  <1>2. n \in Nat /\ Firmware \in Seq(Cell) /\ Len(Firmware) = n
    BY <1>1, LayoutAssumption
  <1> QED
    BY <1>2 DEF FrameCount, FrameWords

(* The parts of a script, put one after the other: u is s, which has m     *)
(* elements, followed by t, which has n.                                   *)
Cat(s, t) == s \o t

IsCat(u, s, m, t, n) ==
    /\ Len(u) = m + n
    /\ \A i \in 1 .. m : u[i] = s[i]
    /\ \A i \in m + 1 .. m + n : u[i] = t[i - m]

LEMMA ConcatElements ==
    ASSUME NEW S, NEW s \in Seq(S), NEW t \in Seq(S), NEW m, NEW n, Len(s) = m, Len(t) = n
    PROVE  Cat(s, t) \in Seq(S) /\ IsCat(Cat(s, t), s, m, t, n)
  BY DEF Cat, IsCat

(* Where each packet of the script is.                                     *)
SetAddrPacketSent == [cmd |-> "SET_ADDR", dlc |-> 5, addr |-> APP_START_ADDR, low_bits |-> 0]
CrcPacketSent     == [cmd |-> "CRC", dlc |-> 5, crc |-> Crc[Firmware]]

DataFrom(o) == IF o.erase THEN 12 ELSE 11

LEMMA ScriptShape ==
    ASSUME NEW o \in Options
    PROVE  /\ o.mode \in {"FAST", "RAW", "DATA"}
           /\ FrameCount(o.mode) \in Nat
           /\ Len(Scripts[o]) = DataFrom(o) + FrameCount(o.mode) - 1
                                + (IF o.crc THEN 1 ELSE 0) + (IF o.boot THEN 1 ELSE 0)
           /\ Scripts[o][1] = Plain("PING")
           /\ Scripts[o][2] = Plain("RESET")
           /\ Scripts[o][3] = Plain("PING")
           /\ \A i \in 4 .. 9 : Scripts[o][i] = Info(i - 4)
           /\ o.erase => Scripts[o][10] = Plain("ERASE")
           /\ Scripts[o][DataFrom(o) - 1] = SetAddrPacketSent
           /\ \A k \in 1 .. FrameCount(o.mode) :
                 Scripts[o][DataFrom(o) - 1 + k] = DataFrame(o.mode, k)
           /\ o.crc => Scripts[o][DataFrom(o) + FrameCount(o.mode)] = CrcPacketSent
           /\ o.boot => Scripts[o][Len(Scripts[o])] = Plain("BOOT")
  <1> DEFINE head   == <<Plain("PING"), Plain("RESET"), Plain("PING")>>
             pages  == [k \in 1 .. 6 |-> Info(k - 1)]
             erase  == OnlyIf(o.erase, Plain("ERASE"))
             addr   == <<SetAddrPacketSent>>
             N      == FrameCount(o.mode)
             frames == [k \in 1 .. N |-> DataFrame(o.mode, k)]
             crc    == OnlyIf(o.crc, CrcPacketSent)
             boot   == OnlyIf(o.boot, Plain("BOOT"))
             S == {Plain(c) : c \in {"PING", "RESET", "ERASE", "BOOT"}}
                  \cup {Info(k - 1) : k \in 1 .. 6} \cup {SetAddrPacketSent, CrcPacketSent}
                  \cup {DataFrame(o.mode, k) : k \in 1 .. N}
             E == IF o.erase THEN 1 ELSE 0
             C == IF o.crc THEN 1 ELSE 0
             B == IF o.boot THEN 1 ELSE 0
  <1>0. o.mode \in {"FAST", "RAW", "DATA"} /\ N \in Nat
        /\ o.erase \in BOOLEAN /\ o.crc \in BOOLEAN /\ o.boot \in BOOLEAN
    BY FrameCountType, UploadAssumption DEF CommandLine
  <1> HIDE DEF N
  <1>1. head \in Seq(S) /\ Len(head) = 3
        /\ head[1] = Plain("PING") /\ head[2] = Plain("RESET") /\ head[3] = Plain("PING")
    OBVIOUS
  <1>2. pages \in Seq(S) /\ Len(pages) = 6 /\ \A i \in 1 .. 6 : pages[i] = Info(i - 1)
    OBVIOUS
  <1>3. frames \in Seq(S) /\ Len(frames) = N
        /\ \A k \in 1 .. N : frames[k] = DataFrame(o.mode, k)
    <2> HIDE DEF S
    <2>1. \A k \in 1 .. N : DataFrame(o.mode, k) \in S
      BY DEF S
    <2> QED
      BY <1>0, <2>1
  <1>4. {Plain("ERASE"), Plain("BOOT"), SetAddrPacketSent, CrcPacketSent} \subseteq S
    OBVIOUS
  <1> HIDE DEF S
  <1>5. \A asked \in BOOLEAN, pkt \in S : /\ OnlyIf(asked, pkt) \in Seq(S)
                                          /\ Len(OnlyIf(asked, pkt)) = IF asked THEN 1 ELSE 0
                                          /\ asked => OnlyIf(asked, pkt)[1] = pkt
    BY DEF OnlyIf
  <1>6. erase \in Seq(S) /\ Len(erase) = E /\ (o.erase => erase[1] = Plain("ERASE"))
    BY <1>0, <1>4, <1>5
  <1>7. crc \in Seq(S) /\ Len(crc) = C /\ (o.crc => crc[1] = CrcPacketSent)
    BY <1>0, <1>4, <1>5
  <1>8. boot \in Seq(S) /\ Len(boot) = B /\ (o.boot => boot[1] = Plain("BOOT"))
    BY <1>0, <1>4, <1>5
  <1>9. addr \in Seq(S) /\ Len(addr) = 1 /\ addr[1] = SetAddrPacketSent
    BY <1>4
  <1>10. E \in {0, 1} /\ C \in {0, 1} /\ B \in {0, 1} /\ DataFrom(o) = 11 + E
         /\ (o.erase <=> E = 1) /\ (o.crc <=> C = 1) /\ (o.boot <=> B = 1)
    BY <1>0 DEF DataFrom
  <1> HIDE DEF head, pages, erase, addr, frames, crc, boot, E, C, B
  <1> DEFINE s1 == Cat(head, pages)
             s2 == Cat(s1, erase)
             s3 == Cat(s2, addr)
             s4 == Cat(s3, frames)
             s5 == Cat(s4, crc)
             s6 == Cat(s5, boot)
  <1>11. Scripts[o] = s6
    BY DEF Cat, Scripts, ScriptOf, head, pages, erase, addr, frames, crc, boot, N,
           SetAddrPacketSent, CrcPacketSent
  <1>12. s1 \in Seq(S) /\ IsCat(s1, head, 3, pages, 6)
    BY <1>1, <1>2, ConcatElements, Zenon
  <1> HIDE DEF s1
  <1>13. /\ Len(s1) = 9
         /\ s1[1] = Plain("PING") /\ s1[2] = Plain("RESET") /\ s1[3] = Plain("PING")
         /\ \A i \in 4 .. 9 : s1[i] = Info(i - 4)
    <2>1. Len(s1) = 9 /\ (\A i \in 1 .. 3 : s1[i] = head[i])
          /\ \A i \in 4 .. 9 : s1[i] = pages[i - 3]
      BY <1>12 DEF IsCat
    <2>2. \A i \in 4 .. 9 : pages[i - 3] = Info(i - 4)
      BY <1>2
    <2> QED
      BY <1>1, <2>1, <2>2
  <1>14. s2 \in Seq(S) /\ IsCat(s2, s1, 9, erase, E)
    BY <1>6, <1>12, <1>13, ConcatElements, Zenon
  <1> HIDE DEF s2
  <1>15. Len(s2) = 9 + E /\ (\A i \in 1 .. 9 : s2[i] = s1[i])
         /\ (o.erase => s2[10] = Plain("ERASE"))
    BY <1>6, <1>10, <1>14 DEF IsCat
  <1>16. s3 \in Seq(S) /\ IsCat(s3, s2, 9 + E, addr, 1)
    BY <1>9, <1>14, <1>15, ConcatElements, Zenon
  <1> HIDE DEF s3
  <1>17. Len(s3) = 10 + E /\ (\A i \in 1 .. 9 + E : s3[i] = s2[i])
         /\ s3[10 + E] = SetAddrPacketSent
    BY <1>9, <1>10, <1>16 DEF IsCat
  <1>18. s4 \in Seq(S) /\ IsCat(s4, s3, 10 + E, frames, N)
    BY <1>3, <1>16, <1>17, ConcatElements, Zenon
  <1> HIDE DEF s4
  <1>19. Len(s4) = 10 + E + N /\ (\A i \in 1 .. 10 + E : s4[i] = s3[i])
         /\ \A k \in 1 .. N : s4[10 + E + k] = DataFrame(o.mode, k)
    <2>1. /\ Len(s4) = (10 + E) + N
          /\ \A i \in 1 .. 10 + E : s4[i] = s3[i]
          /\ \A i \in (10 + E) + 1 .. (10 + E) + N : s4[i] = frames[i - (10 + E)]
      BY <1>18 DEF IsCat
    <2>2. ASSUME NEW k \in 1 .. N PROVE s4[10 + E + k] = DataFrame(o.mode, k)
      <3>1. 10 + E + k \in (10 + E) + 1 .. (10 + E) + N /\ (10 + E + k) - (10 + E) = k
        BY <1>0, <1>10
      <3>2. s4[10 + E + k] = frames[k]
        BY <2>1, <3>1
      <3> QED
        BY <1>3, <3>2
    <2> QED
      BY <2>1, <2>2
  <1>20. s5 \in Seq(S) /\ IsCat(s5, s4, 10 + E + N, crc, C)
    BY <1>7, <1>18, <1>19, ConcatElements, Zenon
  <1> HIDE DEF s5
  <1>21. Len(s5) = 10 + E + N + C /\ (\A i \in 1 .. 10 + E + N : s5[i] = s4[i])
         /\ (o.crc => s5[11 + E + N] = CrcPacketSent)
    BY <1>0, <1>7, <1>10, <1>20 DEF IsCat
  <1>22. s6 \in Seq(S) /\ IsCat(s6, s5, 10 + E + N + C, boot, B)
    BY <1>8, <1>20, <1>21, ConcatElements, Zenon
  <1> HIDE DEF s6
  <1>23. Len(s6) = 10 + E + N + C + B /\ (\A i \in 1 .. 10 + E + N + C : s6[i] = s5[i])
         /\ (o.boot => s6[10 + E + N + C + B] = Plain("BOOT"))
    BY <1>0, <1>8, <1>10, <1>22 DEF IsCat
  <1>24. /\ \A i \in 1 .. 10 + E + N : s6[i] = s4[i]
         /\ \A i \in 1 .. 10 + E : s6[i] = s3[i]
         /\ \A i \in 1 .. 9 + E : s6[i] = s2[i]
         /\ \A i \in 1 .. 9 : s6[i] = s1[i]
    BY <1>0, <1>10, <1>15, <1>17, <1>19, <1>21, <1>23
  <1>25. \A k \in 1 .. N : s6[10 + E + k] = DataFrame(o.mode, k)
    BY <1>0, <1>10, <1>19, <1>24
  <1>26. /\ o.erase => s6[10] = Plain("ERASE")
         /\ s6[10 + E] = SetAddrPacketSent
         /\ o.crc => s6[11 + E + N] = CrcPacketSent
    BY <1>0, <1>10, <1>15, <1>17, <1>21, <1>23, <1>24
  <1>27. /\ s6[1] = Plain("PING") /\ s6[2] = Plain("RESET") /\ s6[3] = Plain("PING")
         /\ \A i \in 4 .. 9 : s6[i] = Info(i - 4)
    BY <1>13, <1>24
  <1>28. Len(s6) = DataFrom(o) + N - 1 + C + B
         /\ (o.boot => s6[Len(s6)] = Plain("BOOT"))
    <2>1. Len(s6) = 10 + E + N + C + B
      BY <1>23
    <2>2. Len(s6) = DataFrom(o) + N - 1 + C + B
      BY <1>0, <1>10, <2>1
    <2> QED
      BY <1>23, <2>1, <2>2
  <1>29. s6[DataFrom(o) - 1] = SetAddrPacketSent
         /\ (o.crc => s6[DataFrom(o) + N] = CrcPacketSent)
    <2>1. DataFrom(o) - 1 = 10 + E /\ DataFrom(o) + N = 11 + E + N
      BY <1>0, <1>10
    <2> QED
      BY <1>26, <2>1
  <1>30. \A k \in 1 .. N : s6[DataFrom(o) - 1 + k] = DataFrame(o.mode, k)
    <2>1. DataFrom(o) - 1 = 10 + E
      BY <1>0, <1>10
    <2> QED
      BY <1>25, <2>1
  <1> QED
    BY <1>0, <1>11, <1>26, <1>27, <1>28, <1>29, <1>30 DEF N, C, B

LEMMA ScriptType ==
    ASSUME NEW o \in Options
    PROVE  Scripts[o] \in Seq(Packets) /\ Len(Scripts[o]) \in Nat \ {0}
  <1> DEFINE N == FrameCount(o.mode)
             d == DataFrom(o)
             L == Len(Scripts[o])
  <1>1. L = d + N - 1 + (IF o.crc THEN 1 ELSE 0) + (IF o.boot THEN 1 ELSE 0)
    BY ScriptShape
  <1>2. N \in Nat
    BY ScriptShape
  <1>3. d \in {11, 12}
    BY DEF DataFrom
  <1>4. Scripts[o] \in Seq(Packets)
    BY ScriptAssumption
  <1> HIDE DEF N, d
  <1>5. L \in Nat \ {0}
    BY <1>1, <1>2, <1>3, <1>4
  <1> QED
    BY <1>4, <1>5

-----------------------------------------------------------------------------
(* The type of the bus, the host and the faults.                           *)

HostTypeOK ==
    /\ rx \in Seq(Packets) /\ Len(rx) <= FifoDepth
    /\ options \in Options
    /\ item \in 1 .. Len(Script)
    /\ tries \in 1 .. Retries + 1
    /\ waiting \in BOOLEAN
    /\ outcome \in {"running", "done", "failed"}

FaultsOK == faults \in [FaultKinds -> Nat] /\ FaultSum <= MaxFaults

LEMMA FaultsCounted ==
    ASSUME FaultsOK,
           UNCHANGED faults \/ CountAnew \/ \E kind \in FaultKinds : Fault(kind)
    PROVE  FaultsOK'
  <1>1. ASSUME NEW kind \in FaultKinds, Fault(kind) PROVE FaultsOK'
    <2>1. faults \in [FaultKinds -> Nat] /\ MaxFaults \in Nat
      BY UploadAssumption DEF FaultsOK
    <2>2. faults' \in [FaultKinds -> Nat]
      BY <1>1, <2>1 DEF Fault
    <2>3. /\ faults["late"] \in Nat /\ faults["past"] \in Nat
          /\ faults["power"] \in Nat /\ faults["other"] \in Nat
      BY <2>1 DEF FaultKinds
    <2>4. FaultSum' = FaultSum + 1
      BY <1>1, <2>1, <2>3 DEF Fault, FaultSum, FaultKinds
    <2>5. FaultSum \in Nat /\ FaultSum < MaxFaults
      BY <1>1, <2>3 DEF Fault, FaultSum
    <2> QED
      BY <2>1, <2>2, <2>4, <2>5 DEF FaultsOK
  <1>2. CASE UNCHANGED faults
    BY <1>2 DEF FaultsOK, FaultSum
  <1>3. CASE CountAnew
    BY <1>3 DEF FaultsOK, CountAnew, FaultSum, FaultKinds
  <1> QED
    BY <1>1, <1>2, <1>3

LEMMA ItemType ==
    ASSUME HostTypeOK
    PROVE  /\ Script \in Seq(Packets) /\ Len(Script) \in Nat \ {0}
           /\ Script[item] \in Packets
           /\ Retries + 1 \in 1 .. Retries + 1
  <1>1. Script \in Seq(Packets) /\ Len(Script) \in Nat \ {0}
    BY ScriptType DEF HostTypeOK, Script
  <1> QED
    BY <1>1, UploadAssumption DEF HostTypeOK

LEMMA FifoType ==
    ASSUME rx \in Seq(Packets), Len(rx) <= FifoDepth, NEW f \in Packets
    PROVE  FifoAdd(f) \in Seq(Packets) /\ Len(FifoAdd(f)) <= FifoDepth
  BY CanAssumption DEF FifoAdd

LEMMA EmptyFifo == <<>> \in Seq(Packets) /\ Len(<<>>) <= FifoDepth
  BY CanAssumption

(* Packets leave the FIFO at its front.                                    *)
LEMMA TakenPacket ==
    ASSUME HostTypeOK, rx # <<>>
    PROVE  /\ Head(rx) \in Packets
           /\ Tail(rx) \in Seq(Packets) /\ Len(Tail(rx)) <= FifoDepth
  <1>1. rx \in Seq(Packets) /\ Len(rx) <= FifoDepth /\ FifoDepth \in Nat
    BY CanAssumption DEF HostTypeOK
  <1> QED
    BY <1>1

LEMMA HostMoves ==
    ASSUME HostTypeOK, UNCHANGED <<rx, options>>,
           \/ Fail
           \/ \E next \in Nat \ {0} : Advance(next)
           \/ UNCHANGED <<item, outcome>> /\ waiting' = FALSE
              /\ (tries' = tries \/ (tries > 1 /\ tries' = tries - 1))
    PROVE  HostTypeOK'
  <1>1. Script' = Script
    BY DEF Script
  <1>2. CASE Fail
    BY <1>1, <1>2 DEF Fail, HostTypeOK
  <1>3. ASSUME NEW next \in Nat \ {0}, Advance(next) PROVE HostTypeOK'
    <2>1. next > Len(Script) \/ next \in 1 .. Len(Script)
      BY ItemType
    <2>2. item' \in 1 .. Len(Script)
      BY <1>3, <2>1 DEF Advance, HostTypeOK
    <2> QED
      BY <1>1, <1>3, <2>2, ItemType DEF Advance, HostTypeOK
  <1>4. CASE UNCHANGED <<item, outcome>> /\ waiting' = FALSE
             /\ (tries' = tries \/ (tries > 1 /\ tries' = tries - 1))
    <2>1. tries' \in 1 .. Retries + 1
      BY <1>4, UploadAssumption DEF HostTypeOK
    <2> QED
      BY <1>1, <1>4, <2>1 DEF HostTypeOK
  <1> QED
    BY <1>2, <1>3, <1>4

LEMMA HostTypeNext ==
    ASSUME HostTypeOK, [UploadNext]_allVars
    PROVE  HostTypeOK'
  <1>1. ASSUME UNCHANGED hostVars, rx' \in Seq(Packets), Len(rx') <= FifoDepth
        PROVE  HostTypeOK'
    BY <1>1 DEF HostTypeOK, Script
  <1>2. CASE DeviceReceive
    BY <1>1, <1>2, TakenPacket DEF DeviceReceive
  <1>3. CASE DeviceRuns
    BY <1>1, <1>3, EmptyFifo DEF DeviceRuns, CanReset, HostTypeOK
  <1>4. CASE BusSends \/ HostIgnores \/ AnswerLost \/ UNCHANGED allVars
    BY <1>1, <1>4 DEF BusSends, HostIgnores, AnswerLost, HostTypeOK
  <1>5. CASE PowerCycle \/ PowerLost
    BY <1>1, <1>5, EmptyFifo DEF PowerCycle, PowerLost, CanReset
  <1>6. ASSUME NEW arrives \in BOOLEAN, HostSends(arrives) PROVE HostTypeOK'
    <2>1. rx' \in Seq(Packets) /\ Len(rx') <= FifoDepth
      BY <1>6, ItemType, FifoType DEF HostSends, HostTypeOK
    <2> QED
      BY <1>6, <2>1 DEF HostSends, HostTypeOK, Script
  <1>7. CASE HostAccept
    <2>1. item + 1 \in Nat \ {0}
      BY ItemType DEF HostTypeOK
    <2>2. Fail \/ \E next \in Nat \ {0} : Advance(next)
      BY <1>7, <2>1 DEF HostAccept
    <2> QED
      BY <1>7, <2>2, HostMoves DEF HostAccept, Fail, Advance
  <1>8. CASE HostRejected
    BY <1>8, HostMoves DEF HostRejected, Fail
  <1>9. CASE GiveUpWaiting
    BY <1>9, HostMoves DEF GiveUpWaiting, Fail
  <1>10. CASE NextSession
    <2>1. PICK o \in Options : HostStartsAgain(o)
      BY <1>10 DEF NextSession
    <2>2. Script' = Scripts[o]
      BY <2>1 DEF HostStartsAgain, Script
    <2>3. 1 \in 1 .. Len(Scripts[o])
      BY ScriptType
    <2>4. item' \in 1 .. Len(Script') /\ tries' \in 1 .. Retries + 1
      BY <2>1, <2>2, <2>3, ItemType DEF HostStartsAgain
    <2>5. options' \in Options /\ waiting' \in BOOLEAN
      BY <2>1 DEF HostStartsAgain
    <2> QED
      BY <1>10, <2>4, <2>5 DEF NextSession, HostTypeOK
  <1> QED
    BY <1>2, <1>3, <1>4, <1>5, <1>6, <1>7, <1>8, <1>9, <1>10
       DEF UploadNext, HostStep, HostSend, FrameLost, HostTimeout, AnswerLate

LEMMA FaultsNext ==
    ASSUME FaultsOK, [UploadNext]_allVars
    PROVE  FaultsOK'
  <1>1. UNCHANGED faults \/ CountAnew \/ \E kind \in FaultKinds : Fault(kind)
    BY DEF UploadNext, HostStep, DeviceReceive, DeviceRuns, FaultOnlyIf, BusSends, HostSend,
           HostAccept, HostRejected, HostIgnores, HostTimeout, NextSession, PowerCycle,
           FrameLost, AnswerLost, AnswerLate, PowerLost, FaultKinds
  <1> QED
    BY <1>1, FaultsCounted

-----------------------------------------------------------------------------
(* On the variables of Bootloader a step is one of Bootloader's or one of  *)
(* the application's.                                                      *)

AppStep == app_request_bootloader_reset \/ \E pkt \in Packets : AppHandles(pkt)

LEMMA StepOfDevice ==
    ASSUME HostTypeOK, [UploadNext]_allVars
    PROVE  [Next]_vars \/ AppStep
  <1>1. CASE DeviceReceive
    BY <1>1, TakenPacket DEF DeviceReceive, Next, AppStep
  <1>2. CASE DeviceRuns
    BY <1>2 DEF DeviceRuns, Next, AppStep
  <1>3. CASE PowerCycle \/ PowerLost
    BY <1>3 DEF PowerCycle, PowerLost, Next
  <1>4. CASE BusSends \/ HostStep \/ FrameLost \/ AnswerLost \/ AnswerLate \/ UNCHANGED allVars
    <2>1. UNCHANGED vars
      BY <1>4 DEF BusSends, HostStep, HostSend, HostSends, HostAccept, HostRejected,
                  HostIgnores, HostTimeout, GiveUpWaiting, NextSession, FrameLost,
                  AnswerLost, AnswerLate
    <2> QED
      BY <2>1
  <1> QED
    BY <1>1, <1>2, <1>3, <1>4 DEF UploadNext

(* What an application may do to the state of the bootloader.              *)
LEMMA AppStepEffect ==
    ASSUME AppStep
    PROVE  /\ UNCHANGED <<flash, can_started, ramVars, step, verified>>
           /\ pc \in {"app", "asked"} /\ pc' \in {pc, "asked", "resetting"}
           /\ pc' = "app" => pc = "app"
           /\ bkp0r' \in {bkp0r, TRUE}
           /\ frame' \in Packets \cup {frame}
  BY DEF AppStep, app_request_bootloader_reset, AppHandles, app_can_poll,
         app_handle_bootloader_can_command, AppPing, AppReset, AppOther, ExampleReset, App

LEMMA AppStepType == ASSUME TypeOK, AppStep PROVE TypeOK'
  <1>1. frame' \in PacketType \cup {NoPacket}
    BY AppStepEffect, PacketAssumption DEF TypeOK
  <1>2. pc' \notin {"erase", "fast", "meta"} /\ bkp0r' \in BOOLEAN
        /\ pc' \in {"app", "asked", "resetting"}
    BY AppStepEffect DEF TypeOK
  <1> QED
    BY <1>1, <1>2, AppStepEffect DEF TypeOK, TypeOKFlash

LEMMA AppStepSafe == ASSUME SafetyInv, AppStep PROVE SafetyInv'
  <1>1. TypeOK' /\ UNCHANGED <<flash, verified>> /\ pc' # "meta"
    BY AppStepType, AppStepEffect DEF SafetyInv
  <1>2. pc' \in {"wait", "booting", "app"} => pc \in {"wait", "booting", "app"}
    BY AppStepEffect
  <1> QED
    BY <1>1, <1>2, QuietStep

LEMMA AppStepRefines == ASSUME SafetyInv, AppStep PROVE [Safe!Next]_(Safe!svars)
  <1>1. UNCHANGED <<flash, verified>> /\ pc \in {"app", "asked"}
    BY AppStepEffect
  <1>2. CASE pc = "app" /\ pc' = "app"
    <2>1. InstalledImage' = InstalledImage
      BY <1>1, StableFlash
    <2> QED
      BY <1>1, <1>2, <2>1 DEF Safe!svars, running
  <1>3. CASE pc = "app" /\ pc' # "app"
    BY <1>1, <1>3, StopStep DEF Safe!Next
  <1>4. CASE pc # "app"
    <2>1. pc' # "app"
      BY <1>4, AppStepEffect
    <2> QED
      BY <1>1, <1>4, <2>1, SilentStep
  <1> QED
    BY <1>2, <1>3, <1>4

-----------------------------------------------------------------------------
(* The invariant of the composed system.                                   *)

SystemInv == HostTypeOK /\ FaultsOK /\ SafetyInv

LEMMA SystemInit == UploadInit => SystemInv
  <1> SUFFICES ASSUME UploadInit PROVE SystemInv
    OBVIOUS
  <1>1. SafetyInv
    BY SafetyInit DEF UploadInit
  <1>2. FaultsOK
    BY UploadAssumption DEF UploadInit, FaultsOK, FaultSum, FaultKinds
  <1>3. HostTypeOK
    <2>1. PICK o \in Options : HostStarts(o)
      BY DEF UploadInit
    <2>2. Script = Scripts[o]
      BY <2>1 DEF HostStarts, Script
    <2>3. item \in 1 .. Len(Script) /\ tries \in 1 .. Retries + 1
      BY <2>1, <2>2, ScriptType, UploadAssumption DEF HostStarts
    <2>4. options \in Options /\ waiting \in BOOLEAN
      BY <2>1 DEF HostStarts
    <2> QED
      BY <2>3, <2>4, EmptyFifo DEF UploadInit, HostTypeOK
  <1> QED
    BY <1>1, <1>2, <1>3 DEF SystemInv

LEMMA SystemNext == SystemInv /\ [UploadNext]_allVars => SystemInv'
  BY HostTypeNext, FaultsNext, StepOfDevice, SafetyNext, AppStepSafe DEF SystemInv

LEMMA SystemInvariant == UploadSpec => []SystemInv
  BY SystemInit, SystemNext, PTL DEF UploadSpec

(* Every variable of the composed system keeps its type, for any script,   *)
(* any depth of the FIFO and any number of retries and faults: the script  *)
(* is never overrun, no attempt is made beyond the last, and the receive   *)
(* FIFO is never asked for a packet it does not hold                       *)
(* (can_uploader.py:160-178, 230-343, can_if.c:92-115).                    *)
THEOREM SystemTypeCorrect == UploadSpec => []UploadTypeOK
  <1>1. SystemInv => UploadTypeOK
    BY DEF SystemInv, HostTypeOK, FaultsOK, SafetyInv, UploadTypeOK
  <1> QED
    BY <1>1, SystemInvariant, PTL

(* Whatever the uploader, the bus, the applications and the power do, the  *)
(* image that runs is one whose CRC was confirmed since the metadata was   *)
(* last erased (bootloader.c:160-179, 441-485).                            *)
THEOREM SystemRunsOnlyVerified == UploadSpec => []RunsVerifiedImage
  <1>1. SystemInv => RunsVerifiedImage
    BY SafetyImplies DEF SystemInv
  <1> QED
    BY <1>1, SystemInvariant, PTL

(* The device of the composed system, applications included, implements    *)
(* SafeBoot (bootloader.c:207-225, 353-366, 441-491,                       *)
(* examples/app_bootloader_integration.c:44-92).                           *)
THEOREM SystemImplementsSafeBoot == UploadSpec => ImplementsSafeBoot
  <1>1. UploadInit => Safe!Init
    BY InitRefines DEF UploadInit
  <1>2. SystemInv /\ [UploadNext]_allVars => [Safe!Next]_(Safe!svars)
    BY StepOfDevice, StepRefines, AppStepRefines DEF SystemInv
  <1> QED
    BY <1>1, <1>2, SystemInvariant, PTL DEF UploadSpec, ImplementsSafeBoot, Safe!Spec
=============================================================================
