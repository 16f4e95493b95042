--------------------------- MODULE TransferProofs ---------------------------
(***************************************************************************)
(* Where uploader and device are in the transfer of the image: the device  *)
(* writes the frames in their order, each of them once, and the uploader   *)
(* is ahead of it by the answers that came late at most.  What it writes   *)
(* is therefore always a prefix of the image.                              *)
(***************************************************************************)
EXTENDS SessionProofs, FiniteSetTheorems

USE DEF Loop, Reply, vars, ramVars, bootVars, busVars, hostVars, allVars

-----------------------------------------------------------------------------
(* Counting.                                                               *)

(* A set of positions moved by d lies in another one.                      *)
LEMMA Shifted ==
    ASSUME NEW S \in SUBSET Nat, IsFiniteSet(S), NEW T \in SUBSET Nat, NEW d \in Nat,
           \A i \in T : i + d \in S
    PROVE  /\ IsFiniteSet(T)
           /\ Cardinality(T) \in Nat /\ Cardinality(S) \in Nat
           /\ Cardinality(T) <= Cardinality(S)
  <1> DEFINE f == [i \in T |-> i + d]
  <1>1. f \in Injection(T, S)
    BY DEF Injection, IsInjective
  <1>2. IsFiniteSet(T) /\ Cardinality(T) <= Cardinality(S)
    BY <1>1, FS_Injection
  <1> QED
    BY <1>2, FS_CardinalityType

(* The first position is not among those moved by one.                     *)
LEMMA ShiftedPastFirst ==
    ASSUME NEW S \in SUBSET Nat, IsFiniteSet(S), NEW T \in SUBSET (Nat \ {0}),
           \A i \in T : i + 1 \in S
    PROVE  /\ IsFiniteSet(T)
           /\ Cardinality(T) \in Nat /\ Cardinality(S) \in Nat
           /\ Cardinality(T) <= Cardinality(S)
           /\ 1 \in S => Cardinality(T) + 1 <= Cardinality(S)
  <1>1. \A i \in T : i + 1 \in S \ {1}
    OBVIOUS
  <1>2. /\ IsFiniteSet(S \ {1}) /\ Cardinality(S) \in Nat
        /\ 1 \in S => Cardinality(S \ {1}) = Cardinality(S) - 1
    BY FS_RemoveElement, FS_CardinalityType
  <1>3. /\ IsFiniteSet(T)
        /\ Cardinality(T) \in Nat
        /\ Cardinality(T) <= Cardinality(S \ {1})
    BY <1>1, <1>2, Shifted, 1 \in Nat
  <1>4. Cardinality(T) <= Cardinality(S)
    BY Shifted, 1 \in Nat
  <1> QED
    BY <1>2, <1>3, <1>4

(* One position more.                                                      *)
LEMMA OneMore ==
    ASSUME NEW S, IsFiniteSet(S), NEW x, NEW T, T \subseteq S \cup {x}
    PROVE  /\ IsFiniteSet(T)
           /\ Cardinality(T) \in Nat /\ Cardinality(S) \in Nat
           /\ Cardinality(T) <= Cardinality(S) + 1
           /\ T \subseteq S => Cardinality(T) <= Cardinality(S)
  <1>0. Cardinality(S) \in Nat
    BY FS_CardinalityType
  <1>1. /\ IsFiniteSet(S \cup {x})
        /\ Cardinality(S \cup {x}) <= Cardinality(S) + 1
    BY <1>0, FS_AddElement
  <1>2. /\ IsFiniteSet(T) /\ Cardinality(T) <= Cardinality(S \cup {x})
        /\ T \subseteq S => Cardinality(T) <= Cardinality(S)
    BY <1>1, FS_Subset
  <1>3. Cardinality(T) \in Nat /\ Cardinality(S \cup {x}) \in Nat
    BY <1>1, <1>2, FS_CardinalityType
  <1> QED
    BY <1>0, <1>1, <1>2, <1>3

LEMMA Later ==
    /\ \A k, s, t \in Nat : k <= s + 1 /\ s <= t => k <= t + 1 /\ t + 1 \in Nat
    /\ \A s, t \in Nat : s + 0 + 0 + 1 <= (s + 1) + t
  OBVIOUS

(* An answer that is read makes up for the frame it acknowledges.          *)
LEMMA Read ==
    ASSUME NEW t \in Nat, NEW a \in Nat, NEW b \in Nat
    PROVE  /\ b <= a => t + b <= t + a
           /\ b + 1 <= a => (t + 1) + b <= t + a /\ t + b <= t + a /\ a >= 1 /\ a # 0
           /\ 0 + 0 + 0 + 0 <= 0 + t
  OBVIOUS

LEMMA Sums ==
    ASSUME NEW t \in Nat, NEW c \in Nat, NEW a \in Nat, NEW x \in Nat, NEW s \in Nat,
           t + c + a + x <= s
    PROVE  /\ s = t + 0 => a = 0
           /\ a >= 1 => t + 1 <= s
  OBVIOUS

LEMMA SumsRead ==
    ASSUME NEW t \in Nat, NEW c \in Nat, NEW a \in Nat, NEW x \in Nat, NEW s \in Nat,
           t + c + a + x <= s, NEW u \in Nat, NEW b \in Nat, u + b <= t + a
    PROVE  u + c + b + 0 <= s
  OBVIOUS

LEMMA Division ==
    ASSUME NEW m \in Nat, 1 <= m, NEW a \in Nat
    PROVE  /\ a = m * (a \div m) + (a % m)
           /\ a % m \in 0 .. m - 1
           /\ a \div m \in Int
  OBVIOUS

LEMMA Remainder ==
    ASSUME NEW m \in Nat, 1 <= m, NEW a \in Nat, NEW q \in Int, NEW r \in Int,
           0 <= r, r < m, a = m * q + r
    PROVE  a % m = r
  OBVIOUS

(* The sequence number after that of frame c is the one of frame c + 1.    *)
LEMMA NextNumber ==
    ASSUME NEW m \in Nat, 1 <= m, NEW c \in Nat
    PROVE  ((c % m) + 1) % m = (c + 1) % m
  <1> DEFINE q == c \div m
             r == c % m
  <1>1. c = m * q + r /\ r \in 0 .. m - 1 /\ q \in Int
    BY Division
  <1> HIDE DEF q, r
  <1>2. CASE r + 1 < m
    <2>1. c + 1 = m * q + (r + 1) /\ r + 1 = m * 0 + (r + 1)
      BY <1>1
    <2>2. (c + 1) % m = r + 1 /\ (r + 1) % m = r + 1
      BY <1>1, <1>2, <2>1, Remainder
    <2> QED
      BY <2>2 DEF r
  <1>3. CASE r + 1 = m
    <2>1. c + 1 = m * (q + 1) + 0 /\ r + 1 = m * 1 + 0
      BY <1>1, <1>3
    <2>2. (c + 1) % m = 0 /\ (r + 1) % m = 0
      BY <1>1, <1>3, <2>1, Remainder
    <2> QED
      BY <2>2 DEF r
  <1> QED
    BY <1>1, <1>2, <1>3

LEMMA NoMultiple ==
    ASSUME NEW m \in Nat, 2 <= m, NEW d \in Int, NEW k \in Int, NEW c \in Int,
           k - c = m * d, c - 1 <= k, k < c + m
    PROVE  k = c
  OBVIOUS

(* Of the frames that may be on their way one has the expected number.     *)
LEMMA SameNumber ==
    ASSUME NEW m \in Nat, 2 <= m, NEW c \in Nat, NEW k \in Nat,
           c - 1 <= k, k < c + m, k % m = c % m
    PROVE  k = c
  <1> DEFINE p == k \div m
             q == c \div m
             r == c % m
  <1>1. k = m * p + r /\ c = m * q + r /\ p \in Int /\ q \in Int /\ r \in Int
    BY Division
  <1> HIDE DEF p, q, r
  <1>2. k - c = m * (p - q) /\ p - q \in Int
    BY <1>1
  <1> QED
    BY <1>2, NoMultiple

-----------------------------------------------------------------------------
(* The acknowledgements of data on their way.                              *)

LEMMA AcksFinite ==
    ASSUME BusTypeOK
    PROVE  /\ WireAcks \in SUBSET Nat /\ IsFiniteSet(WireAcks) /\ Cardinality(WireAcks) \in Nat
           /\ \A i \in WireAcks : i \in 1 .. Len(wire)
           /\ IsFiniteSet(MailboxAcks) /\ Cardinality(MailboxAcks) \in Nat
  <1>1. DOMAIN wire = 1 .. Len(wire) /\ Len(wire) \in Nat
    BY DEF BusTypeOK
  <1>2. WireAcks \subseteq 1 .. Len(wire)
    BY <1>1 DEF WireAcks
  <1>3. IsFiniteSet(1 .. Len(wire))
    BY <1>1, FS_Interval
  <1>4. IsFiniteSet(WireAcks)
    BY <1>2, <1>3, FS_Subset
  <1>5. IsFiniteSet(MailboxAcks)
    BY CanAssumption, FS_Subset DEF MailboxAcks, Pending
  <1> QED
    BY <1>2, <1>4, <1>5, FS_CardinalityType

LEMMA WireShift ==
    ASSUME BusTypeOK, UNCHANGED mailbox, NEW d \in Nat,
           DOMAIN wire' \subseteq Nat \ {0},
           \A i \in DOMAIN wire' : i + d \in DOMAIN wire /\ wire'[i] = wire[i + d]
    PROVE  Acks \in Nat /\ Acks' \in Nat /\ Acks' <= Acks
  <1>1. WireAcks' \in SUBSET Nat /\ \A i \in WireAcks' : i + d \in WireAcks
    BY DEF WireAcks
  <1>2. MailboxAcks' = MailboxAcks
    BY DEF MailboxAcks, Pending
  <1>3. Cardinality(WireAcks') \in Nat /\ Cardinality(WireAcks') <= Cardinality(WireAcks)
    BY <1>1, AcksFinite, Shifted
  <1> QED
    BY <1>2, <1>3, AcksFinite DEF Acks

(* Answers that are read, dropped or lost.                                 *)
LEMMA WireDrops ==
    ASSUME BusTypeOK, UNCHANGED mailbox,
           \/ wire # <<>> /\ wire' = Tail(wire)
           \/ \E k \in 0 .. Len(wire) : wire' = SubSeq(wire, k + 1, Len(wire))
           \/ UNCHANGED wire
    PROVE  Acks \in Nat /\ Acks' \in Nat /\ Acks' <= Acks
  <1>0. wire \in Seq(Responses)
    BY DEF BusTypeOK
  <1>1. CASE wire # <<>> /\ wire' = Tail(wire)
    <2>1. /\ DOMAIN wire' \subseteq Nat \ {0} /\ 1 \in Nat
          /\ \A i \in DOMAIN wire' : i + 1 \in DOMAIN wire /\ wire'[i] = wire[i + 1]
      BY <1>0, <1>1
    <2> QED
      BY <2>1, WireShift
  <1>2. ASSUME NEW k \in 0 .. Len(wire), wire' = SubSeq(wire, k + 1, Len(wire))
        PROVE  Acks \in Nat /\ Acks' \in Nat /\ Acks' <= Acks
    <2>1. /\ DOMAIN wire' \subseteq Nat \ {0} /\ k \in Nat
          /\ \A i \in DOMAIN wire' : i + k \in DOMAIN wire /\ wire'[i] = wire[i + k]
      BY <1>0, <1>2
    <2> QED
      BY <2>1, WireShift
  <1>3. CASE UNCHANGED wire
    <2>1. /\ DOMAIN wire' \subseteq Nat \ {0} /\ 0 \in Nat
          /\ \A i \in DOMAIN wire' : i + 0 \in DOMAIN wire /\ wire'[i] = wire[i + 0]
      BY <1>0, <1>3
    <2> QED
      BY <2>1, WireShift
  <1> QED
    BY <1>1, <1>2, <1>3

(* The host reads one.                                                     *)
LEMMA WireRead ==
    ASSUME BusTypeOK, UNCHANGED mailbox, wire # <<>>, wire' = Tail(wire),
           Head(wire) = Ack("DATA")
    PROVE  Acks \in Nat /\ Acks' \in Nat /\ Acks' + 1 <= Acks
  <1>0. wire \in Seq(Responses)
    BY DEF BusTypeOK
  <1>1. /\ DOMAIN wire' \subseteq Nat \ {0} /\ 1 \in DOMAIN wire /\ wire[1] = Head(wire)
        /\ \A i \in DOMAIN wire' : i + 1 \in DOMAIN wire /\ wire'[i] = wire[i + 1]
    BY <1>0
  <1>2. WireAcks' \in SUBSET (Nat \ {0}) /\ 1 \in WireAcks /\ \A i \in WireAcks' : i + 1 \in WireAcks
    BY <1>1 DEF WireAcks
  <1>3. MailboxAcks' = MailboxAcks
    BY DEF MailboxAcks, Pending
  <1>4. Cardinality(WireAcks') \in Nat /\ Cardinality(WireAcks') + 1 <= Cardinality(WireAcks)
    BY <1>2, AcksFinite, ShiftedPastFirst
  <1> QED
    BY <1>3, <1>4, AcksFinite DEF Acks

(* The bus takes one from its mailbox.                                     *)
LEMMA BusMoves ==
    ASSUME BusTypeOK, BusSends
    PROVE  Acks \in Nat /\ Acks' \in Nat /\ Acks' <= Acks
  <1>1. PICK k \in Pending : /\ mailbox' = [mailbox EXCEPT ![k] = <<>>]
                             /\ wire' = Append(wire, mailbox[k][1])
    <2>1. Min(Pending) \in Pending
      BY LowestNumber, CanAssumption DEF BusSends, SendNext, Pending
    <2> QED
      BY <2>1 DEF BusSends, SendNext, NextSent
  <1>2. \A m \in Mailboxes : mailbox'[m] = IF m = k THEN <<>> ELSE mailbox[m]
    BY <1>1 DEF BusTypeOK
  <1>3. /\ MailboxAcks' \subseteq MailboxAcks \ {k}
        /\ k \in MailboxAcks <=> mailbox[k][1] = Ack("DATA")
    BY <1>2 DEF MailboxAcks, Pending
  <1>4. WireAcks' \subseteq WireAcks \cup {Len(wire) + 1}
        /\ (mailbox[k][1] # Ack("DATA") => WireAcks' \subseteq WireAcks)
    <2>1. /\ DOMAIN wire' = DOMAIN wire \cup {Len(wire) + 1}
          /\ \A i \in DOMAIN wire : wire'[i] = wire[i]
          /\ wire'[Len(wire) + 1] = mailbox[k][1]
      BY <1>1 DEF BusTypeOK
    <2> QED
      BY <2>1 DEF WireAcks
  <1>5. /\ Cardinality(WireAcks') \in Nat
        /\ Cardinality(WireAcks') <= Cardinality(WireAcks) + 1
        /\ mailbox[k][1] # Ack("DATA") => Cardinality(WireAcks') <= Cardinality(WireAcks)
    BY <1>4, AcksFinite, OneMore
  <1>6. /\ IsFiniteSet(MailboxAcks \ {k})
        /\ Cardinality(MailboxAcks \ {k})
             = IF mailbox[k][1] = Ack("DATA") THEN Cardinality(MailboxAcks) - 1
               ELSE Cardinality(MailboxAcks)
    BY <1>3, AcksFinite, FS_RemoveElement
  <1>7. /\ Cardinality(MailboxAcks') \in Nat
        /\ Cardinality(MailboxAcks') <= Cardinality(MailboxAcks \ {k})
    BY <1>3, <1>6, FS_Subset, FS_CardinalityType
  <1> QED
    BY <1>5, <1>6, <1>7, AcksFinite DEF Acks

(* The device answers.                                                     *)
LEMMA DeviceAnswers ==
    ASSUME BusTypeOK, Transmit, UNCHANGED wire
    PROVE  /\ Acks \in Nat /\ Acks' \in Nat
           /\ Acks' <= Acks + 1
           /\ sent' # Ack("DATA") => Acks' <= Acks
  <1>1. WireAcks' = WireAcks
    BY DEF WireAcks
  <1>2. PICK k : /\ MailboxAcks' \subseteq MailboxAcks \cup {k}
                 /\ sent' # Ack("DATA") => MailboxAcks' \subseteq MailboxAcks
    <2>1. CASE UNCHANGED mailbox
      BY <2>1 DEF MailboxAcks, Pending
    <2>2. CASE mailbox' # mailbox
      <3> DEFINE free == {m \in Mailboxes : mailbox[m] = <<>>}
      <3>1. free # {} /\ mailbox' = [mailbox EXCEPT ![Min(free)] = <<sent'>>]
        BY <2>2 DEF Transmit, can_if_send_response
      <3>2. Min(free) \in free
        BY <3>1, LowestNumber, CanAssumption
      <3>3. PICK m \in Mailboxes : mailbox' = [mailbox EXCEPT ![m] = <<sent'>>]
        BY <3>1, <3>2
      <3>4. \A n \in Mailboxes : mailbox'[n] = IF n = m THEN <<sent'>> ELSE mailbox[n]
        BY <3>3 DEF BusTypeOK
      <3>5. <<sent'>>[1] = sent'
        OBVIOUS
      <3>6. /\ MailboxAcks' \subseteq MailboxAcks \cup {m}
            /\ sent' # Ack("DATA") => MailboxAcks' \subseteq MailboxAcks
        BY <3>4, <3>5 DEF MailboxAcks, Pending
      <3> QED
        BY <3>6
    <2> QED
      BY <2>1, <2>2
  <1>3. /\ Cardinality(MailboxAcks') \in Nat
        /\ Cardinality(MailboxAcks') <= Cardinality(MailboxAcks) + 1
        /\ sent' # Ack("DATA") => Cardinality(MailboxAcks') <= Cardinality(MailboxAcks)
    BY <1>2, AcksFinite, OneMore
  <1> QED
    BY <1>1, <1>3, AcksFinite DEF Acks

(* The CAN peripheral stops.                                               *)
LEMMA AnswersDropped ==
    ASSUME BusTypeOK, CanReset, UNCHANGED wire
    PROVE  Acks \in Nat /\ Acks' \in Nat /\ Acks' <= Acks
  <1>1. WireAcks' = WireAcks
    BY DEF WireAcks
  <1>2. MailboxAcks' = {}
    BY CanResetEffect DEF MailboxAcks
  <1> QED
    BY <1>1, <1>2, AcksFinite, FS_EmptySet DEF Acks

-----------------------------------------------------------------------------
(* Where the host is.                                                      *)

LEMMA HostPosition ==
    ASSUME HostTypeOK, item >= FirstData
    PROVE  /\ options \in Options /\ options.mode \in {"FAST", "RAW", "DATA"}
           /\ FirstData = DataFrom(options) /\ FirstData \in {11, 12} /\ item \in Nat
           /\ Frames \in Nat /\ Told \in 0 .. Frames /\ Acknowledged \in Nat
           /\ Top \in {Told, Told + 1} /\ Top <= Frames
           /\ Told < Frames => /\ item = FirstData + Told
                              /\ Script[item] = Frame(Told + 1)
                              /\ IsData(Script[item])
           /\ Told = Frames => /\ item >= FirstData + Frames
                              /\ Script[item].cmd \in {"CRC", "BOOT"}
  <1> DEFINE o == options
             N == FrameCount(o.mode)
  <1>1. o \in Options /\ item \in 1 .. Len(Scripts[o]) /\ FirstData = DataFrom(o)
    BY DEF HostTypeOK, Script, FirstData, DataFrom
  <1>2. N \in Nat /\ DataFrom(o) \in {11, 12} /\ o.mode \in {"FAST", "RAW", "DATA"}
    BY <1>1, ScriptShape DEF DataFrom
  <1>3. item \in Nat /\ Acknowledged \in Nat /\ Acknowledged = item - DataFrom(o)
    BY <1>1, <1>2 DEF Acknowledged
  <1>4. Frames = N /\ Told = IF Acknowledged < N THEN Acknowledged ELSE N
    BY DEF Frames, Told
  <1> HIDE DEF N
  <1>5. Told \in 0 .. Frames
    BY <1>2, <1>3, <1>4
  <1>6. Top \in {Told, Told + 1} /\ Top <= Frames
    BY <1>4, <1>5, <1>2 DEF Top
  <1>7. ASSUME Told < Frames
        PROVE  item = FirstData + Told /\ Script[item] = Frame(Told + 1) /\ IsData(Script[item])
    <2>1. Told = item - DataFrom(o) /\ Told + 1 \in 1 .. N /\ DataFrom(o) - 1 + (Told + 1) = item
      BY <1>7, <1>2, <1>3, <1>4, <1>5
    <2>2. Scripts[o][item] = DataFrame(o.mode, Told + 1)
      BY <1>1, <2>1, ScriptShape DEF N
    <2>3. Scripts[o][item].cmd = o.mode
      BY <1>2, <2>2 DEF DataFrame
    <2> QED
      BY <1>1, <1>2, <1>3, <2>1, <2>2, <2>3 DEF Script, Frame, IsData
  <1>8. ASSUME Told = Frames PROVE item >= FirstData + Frames /\ Script[item].cmd \in {"CRC", "BOOT"}
    <2>1. item >= DataFrom(o) + N
      BY <1>8, <1>2, <1>3, <1>4
    <2>2. Scripts[o][item].cmd \in {"CRC", "BOOT"}
      <3> DEFINE cmd == Scripts[o][item].cmd
      <3>1. /\ \/ item \in {1, 3} /\ cmd = "PING"
               \/ item = 2 /\ cmd = "RESET"
               \/ item \in 4 .. 9 /\ cmd = "INFO"
               \/ item = 10 /\ o.erase /\ cmd = "ERASE"
               \/ item = DataFrom(o) - 1 /\ cmd = "SET_ADDR"
               \/ item \in DataFrom(o) .. DataFrom(o) + N - 1 /\ cmd = o.mode
               \/ item = DataFrom(o) + N /\ o.crc /\ cmd = "CRC"
               \/ item = Len(Scripts[o]) /\ o.boot /\ cmd = "BOOT"
        BY <1>1, ScriptCommands DEF N
      <3> HIDE DEF cmd
      <3>2. cmd \in {"CRC", "BOOT"}
        BY <1>2, <1>3, <2>1, <3>1
      <3> QED
        BY <3>2 DEF cmd
    <2> QED
      BY <1>1, <1>4, <2>1, <2>2 DEF Script
  <1> QED
    BY <1>1, <1>2, <1>3, <1>4, <1>5, <1>6, <1>7, <1>8

(* What the flash holds is a number of whole frames.                       *)
LEMMA FramesWritten ==
    ASSUME NEW mode \in {"FAST", "RAW", "DATA"}, NEW n \in Nat, NEW addr,
           addr = APP_START_ADDR + FrameWords(mode) * n
    PROVE  /\ addr - APP_START_ADDR = FrameWords(mode) * n
           /\ (addr - APP_START_ADDR) \div FrameWords(mode) = n
  <1>1. APP_START_ADDR \in Nat
    BY LayoutAssumption
  <1>2. CASE mode = "DATA"
    BY <1>1, <1>2 DEF FrameWords
  <1>3. CASE mode # "DATA"
    BY <1>1, <1>3 DEF FrameWords
  <1> QED
    BY <1>2, <1>3

LEMMA RepeatsFinite ==
    ASSUME HostTypeOK
    PROVE  /\ rx \in Seq(Packets) /\ DOMAIN rx = 1 .. Len(rx) /\ Len(rx) \in Nat
           /\ Repeats \in SUBSET Nat /\ IsFiniteSet(Repeats) /\ Cardinality(Repeats) \in Nat
  <1>1. rx \in Seq(Packets) /\ DOMAIN rx = 1 .. Len(rx) /\ Len(rx) \in Nat
    BY DEF HostTypeOK
  <1>2. Repeats \subseteq 1 .. Len(rx)
    BY <1>1 DEF Repeats
  <1>3. IsFiniteSet(Repeats)
    <2>1. IsFiniteSet(1 .. Len(rx))
      BY <1>1, FS_Interval
    <2> QED
      BY <1>2, <2>1, FS_Subset
  <1> QED
    BY <1>1, <1>2, <1>3, FS_CardinalityType

(* The host is ahead of the flash by the late answers at most.             *)
LEMMA Ahead ==
    ASSUME HostTypeOK, FaultsOK, BusTypeOK, item >= FirstData, Positioned, Surplus
    PROVE  /\ Late \in Nat /\ Late <= faults["late"] /\ faults["late"] \in Nat
           /\ Committed \in Nat /\ Committed <= Top
           /\ Told <= Committed + Late
           /\ options.mode = "RAW" => Told <= Committed
  <1>1. Late \in Nat /\ Late <= faults["late"] /\ faults["late"] \in Nat
    BY DEF Late, FaultsOK, FaultKinds
  <1>2. Committed \in Nat /\ Committed <= Top /\ Told \in Nat
    BY HostPosition DEF Positioned
  <1>3. Told + Cardinality(Repeats) + Acks + (IF RepeatsNext THEN 1 ELSE 0) <= Committed + Late
    BY <1>1, <1>2, RepeatsFinite, AcksFinite DEF Surplus, Acks
  <1>4. Acks \in Nat
    BY AcksFinite DEF Acks
  <1>5. Told <= Committed + Late
    BY <1>1, <1>2, <1>3, <1>4, RepeatsFinite
  <1> QED
    BY <1>1, <1>2, <1>5 DEF Late

(* Frames that can be on their way together are different.                 *)
LEMMA Apart ==
    ASSUME NEW o \in Options, o.mode # "RAW",
           NEW j \in 1 .. FrameCount(o.mode), NEW k \in 1 .. FrameCount(o.mode),
           NEW late \in Nat, NEW low \in Nat, NEW top \in Nat, top <= low + late + 1,
           low <= j, low <= k, j <= top, k <= top,
           ToldApart(o, late), DataFrame(o.mode, j) = DataFrame(o.mode, k)
    PROVE  j = k
  <1>1. j \in Nat /\ k \in Nat
    BY FrameCountType, ScriptShape
  <1>2. k - j <= late + 1 /\ j - k <= late + 1
    BY <1>1
  <1>3. ~(j < k) /\ ~(k < j)
    BY <1>2 DEF ToldApart
  <1> QED
    BY <1>1, <1>3

-----------------------------------------------------------------------------
(* The device takes packets from its FIFO, and moves on.                   *)

RxShift(d) ==
    /\ rx' \in Seq(Packets)
    /\ Len(rx') + d = Len(rx)
    /\ \A i \in DOMAIN rx' : i + d \in DOMAIN rx /\ rx'[i] = rx[i + d]

HostStays ==
    /\ UNCHANGED <<options, item, tries, waiting, outcome>>
    /\ faults'["late"] = faults["late"]

LEMMA HostStaysEffect ==
    ASSUME HostStays
    PROVE  /\ Frames' = Frames /\ Told' = Told /\ Top' = Top /\ Late' = Late
           /\ FirstData' = FirstData /\ Script' = Script /\ Running' = Running
           /\ Sent' = Sent
           /\ \A k : Frame(k)' = Frame(k)
  BY DEF HostStays, Frames, Told, Top, Late, Acknowledged, FirstData, Script, Running, Sent, Frame

LEMMA ShiftedFifo ==
    ASSUME HostTypeOK, NEW d \in Nat, RxShift(d)
    PROVE  /\ DOMAIN rx' = 1 .. Len(rx') /\ Len(rx') \in Nat
           /\ DOMAIN rx = 1 .. Len(rx) /\ Len(rx) \in Nat
           /\ \A i \in DOMAIN rx' : i \in Nat /\ 1 <= i
           /\ InFifo' \subseteq InFifo
  BY DEF HostTypeOK, RxShift, InFifo

(* A packet that repeats a frame repeated it before.                       *)
LEMMA RepeatsKept ==
    ASSUME HostTypeOK, HostStays, NEW d \in Nat, RxShift(d),
           \A i \in DOMAIN rx' :
              /\ options.mode # "RAW" /\ IsData(rx'[i])
              /\ \/ Committed' >= 1 /\ rx'[i] = Frame(Committed)'
                 \/ pc' = "fast" /\ rx'[i] = frame'
              => i + d \in Repeats
    PROVE  /\ Cardinality(Repeats) \in Nat /\ Cardinality(Repeats') \in Nat
           /\ Cardinality(Repeats') <= Cardinality(Repeats)
           /\ d = 1 /\ 1 \in Repeats => Cardinality(Repeats') + 1 <= Cardinality(Repeats)
  <1>0. options' = options
    BY DEF HostStays
  <1>1. /\ DOMAIN rx' = 1 .. Len(rx') /\ Len(rx') \in Nat
        /\ DOMAIN rx = 1 .. Len(rx) /\ Len(rx) \in Nat
        /\ \A i \in DOMAIN rx' : i + d \in DOMAIN rx /\ rx'[i] = rx[i + d]
    BY ShiftedFifo DEF RxShift
  <1>2. Repeats' \in SUBSET (Nat \ {0}) /\ Repeats' \subseteq DOMAIN rx'
    BY <1>1 DEF Repeats
  <1>3. ASSUME NEW i \in Repeats' PROVE i + d \in Repeats
    <2>1. i \in DOMAIN rx' /\ options.mode # "RAW" /\ IsData(rx'[i])
      BY <1>0, <1>3 DEF Repeats
    <2>2. CASE \/ Committed' >= 1 /\ rx'[i] = Frame(Committed)'
               \/ pc' = "fast" /\ rx'[i] = frame'
      BY <2>1, <2>2
    <2>3. CASE \E j \in 1 .. i - 1 : rx'[j] = rx'[i]
      <3>1. PICK j \in 1 .. i - 1 : rx'[j] = rx'[i]
        BY <2>3
      <3>2. j \in DOMAIN rx' /\ j + d \in 1 .. (i + d) - 1
        BY <1>1, <2>1, <3>1
      <3>3. rx[j + d] = rx[i + d] /\ i + d \in DOMAIN rx /\ IsData(rx[i + d])
        BY <1>1, <2>1, <3>1, <3>2
      <3> QED
        BY <2>1, <3>2, <3>3 DEF Repeats
    <2> QED
      BY <1>3, <2>2, <2>3 DEF Repeats
  <1>4. Cardinality(Repeats') \in Nat /\ Cardinality(Repeats') <= Cardinality(Repeats)
    BY <1>2, <1>3, RepeatsFinite, Shifted
  <1>5. d = 1 /\ 1 \in Repeats => Cardinality(Repeats') + 1 <= Cardinality(Repeats)
    BY <1>2, <1>3, RepeatsFinite, ShiftedPastFirst
  <1> QED
    BY <1>4, <1>5, RepeatsFinite

(* The rest of the pipeline after the device has taken d packets.          *)
RestOfPipeline ==
    /\ SetAddrFirst'
    /\ Pipeline'
    /\ Cardinality(Repeats) \in Nat /\ Cardinality(Repeats') \in Nat
    /\ Cardinality(Repeats') <= Cardinality(Repeats)
    /\ RepeatsNext' => RepeatsNext

LEMMA DataStage == \A p : IsData(p) => Stage(p.cmd) = 5 /\ p.cmd # "SET_ADDR"
  BY DEF IsData, Stage

LEMMA FrameIsData ==
    ASSUME NEW o \in Options, NEW k
    PROVE  IsData(DataFrame(o.mode, k)) /\ DataFrame(o.mode, k).cmd = o.mode
  <1>1. o.mode \in {"FAST", "RAW", "DATA"}
    BY ScriptShape
  <1> QED
    BY <1>1 DEF DataFrame, IsData

(* No frame is written, and none is begun.                                 *)
LEMMA PipelineRests ==
    ASSUME HostTypeOK, item >= FirstData, Transfer, HostStays, NEW d \in Nat, RxShift(d),
           Committed' = Committed, Queued' \subseteq Queued,
           pc' = "fast" => pc = "fast" /\ frame' = frame
    PROVE  /\ RestOfPipeline
           /\ d = 1 /\ 1 \in Repeats => Cardinality(Repeats') + 1 <= Cardinality(Repeats)
  <1>1. /\ Frames' = Frames
        /\ Told' = Told /\ Top' = Top /\ Running' = Running
        /\ UNCHANGED <<options, waiting, tries>>
        /\ \A k : Frame(k)' = Frame(k)
    BY HostStaysEffect DEF HostStays
  <1>2. Window' = Window
    BY <1>1 DEF Window
  <1>3. /\ DOMAIN rx' = 1 .. Len(rx') /\ Len(rx') \in Nat
        /\ DOMAIN rx = 1 .. Len(rx) /\ Len(rx) \in Nat
        /\ Len(rx') + d = Len(rx) /\ InFifo' \subseteq InFifo
        /\ \A i \in DOMAIN rx' : i + d \in DOMAIN rx /\ rx'[i] = rx[i + d]
    BY ShiftedFifo DEF RxShift
  <1>4. SetAddrFirst'
    BY <1>3 DEF SetAddrFirst, Transfer
  <1>5. Pipeline'
    <2>1. CASE options.mode = "RAW"
      <3>1. RawFrames
        BY <2>1 DEF Transfer, Pipeline
      <3>2. \A i \in DOMAIN rx' : IsData(rx'[i]) => i = Len(rx') /\ pc' # "fast"
        <4>1. SUFFICES ASSUME NEW i \in DOMAIN rx', IsData(rx'[i])
                       PROVE  i = Len(rx') /\ pc' # "fast"
          OBVIOUS
        <4>2. i + d \in DOMAIN rx /\ IsData(rx[i + d])
          BY <1>3, <4>1
        <4>3. i + d = Len(rx) /\ pc # "fast"
          <5>1. rx[i + d] \in Queued
            BY <4>2 DEF Queued, InFifo
          <5> QED
            BY <3>1, <4>2, <5>1 DEF RawFrames
        <4> QED
          BY <1>3, <4>1, <4>3
      <3>3. RawFrames'
        BY <1>1, <3>1, <3>2 DEF RawFrames
      <3> QED
        BY <1>1, <2>1, <3>3 DEF Pipeline
    <2>2. CASE options.mode # "RAW"
      <3>1. FramesInWindow
        BY <2>2 DEF Transfer, Pipeline
      <3>2. \A p \in InFifo' : IsData(p) => \E k \in Window' : k <= Top' /\ p = Frame(k)'
        BY <1>1, <1>2, <1>3, <3>1 DEF FramesInWindow
      <3>3. \A i, j \in DOMAIN rx' : \A k, l \in Window' :
               i < j /\ rx'[i] = Frame(k)' /\ rx'[j] = Frame(l)' => k <= l
        <4>1. SUFFICES ASSUME NEW i \in DOMAIN rx', NEW j \in DOMAIN rx',
                              NEW k \in Window, NEW l \in Window,
                              i < j, rx'[i] = Frame(k), rx'[j] = Frame(l)
                       PROVE  k <= l
          BY <1>1, <1>2
        <4>2. /\ i + d \in DOMAIN rx /\ j + d \in DOMAIN rx /\ i + d < j + d
              /\ rx[i + d] = Frame(k) /\ rx[j + d] = Frame(l)
          BY <1>3, <4>1
        <4> QED
          BY <3>1, <4>2 DEF FramesInWindow
      <3>4. pc' = "fast" =>
              /\ Committed' + 1 <= Top'
              /\ frame' = Frame(Committed + 1)'
              /\ \A p \in InFifo' : Committed' >= 1 => p # Frame(Committed)'
        BY <1>1, <1>3, <3>1 DEF FramesInWindow, Frame
      <3>5. FramesInWindow'
        BY <3>2, <3>3, <3>4 DEF FramesInWindow
      <3> QED
        BY <1>1, <2>2, <3>5 DEF Pipeline
    <2> QED
      BY <2>1, <2>2
  <1>6. RepeatsNext' => RepeatsNext
    BY <1>1 DEF RepeatsNext, Frame
  <1>7. ASSUME NEW i \in DOMAIN rx', options.mode # "RAW", IsData(rx'[i]),
               \/ Committed' >= 1 /\ rx'[i] = Frame(Committed)'
               \/ pc' = "fast" /\ rx'[i] = frame'
        PROVE  i + d \in Repeats
    <2>1. i + d \in DOMAIN rx /\ rx'[i] = rx[i + d] /\ Frame(Committed)' = Frame(Committed)
      BY <1>1, <1>3, <1>7 DEF Frame
    <2> QED
      BY <1>7, <2>1 DEF Repeats
  <1> QED
    BY <1>4, <1>5, <1>6, <1>7, RepeatsKept DEF RestOfPipeline

(* What is behind the frame that is to be written next: no older frame and *)
(* no address, and a second copy of it only as a repetition.               *)
LEMMA BehindFrame ==
    ASSUME HostTypeOK, TypeOK, OrderInv, item >= FirstData, Transfer, HostStays,
           NEW d \in Nat, RxShift(d), Committed + 1 \in Window,
           \/ d = 0 /\ pc = "fast"
           \/ d = 1 /\ 1 \in DOMAIN rx /\ rx[1] = Frame(Committed + 1)
    PROVE  /\ \A p \in InFifo' : p.cmd # "SET_ADDR"
           /\ options.mode = "RAW" => \A i \in DOMAIN rx' : ~IsData(rx'[i])
           /\ options.mode # "RAW" =>
                 \A i \in DOMAIN rx' :
                    /\ Committed >= 1 => rx'[i] # Frame(Committed)
                    /\ IsData(rx'[i]) /\ rx'[i] = Frame(Committed + 1) => i + d \in Repeats
  <1>0. options \in Options /\ Committed + 1 \in Nat /\ Committed \in 0 .. Top
        /\ Top \in Nat /\ Top <= Frames /\ Top <= Told + 1 /\ Told \in Nat /\ Frames \in Nat
    BY HostPosition DEF Window, Transfer, Positioned
  <1>1. /\ DOMAIN rx' = 1 .. Len(rx') /\ Len(rx') \in Nat
        /\ DOMAIN rx = 1 .. Len(rx) /\ Len(rx) \in Nat
        /\ \A i \in DOMAIN rx' : i + d \in DOMAIN rx /\ rx'[i] = rx[i + d] /\ i \in Nat /\ 1 <= i
    BY ShiftedFifo DEF RxShift
  <1>2. CASE d = 0 /\ pc = "fast"
    <2>1. IsData(frame) /\ Busy
      BY <1>2 DEF TypeOK, FastPacket, RawPacket, IsData, Busy
    <2>2. \A i \in DOMAIN rx' : i \in DOMAIN rx /\ rx'[i] = rx[i] /\ rx[i] \in InFifo
      BY <1>1, <1>2 DEF InFifo
    <2>3. \A i \in DOMAIN rx' : rx'[i].cmd # "SET_ADDR"
      <3>1. \A p \in InFifo : 5 <= Stage(p.cmd)
        BY <2>1, DataStage DEF OrderInv
      <3> QED
        BY <2>2, <3>1 DEF Stage
    <2>4. options.mode = "RAW" => \A i \in DOMAIN rx' : ~IsData(rx'[i])
      BY <1>2, <2>2 DEF Transfer, Pipeline, RawFrames, Queued
    <2>5. ASSUME options.mode # "RAW", NEW i \in DOMAIN rx'
          PROVE  /\ Committed >= 1 => rx'[i] # Frame(Committed)
                 /\ IsData(rx'[i]) /\ rx'[i] = Frame(Committed + 1) => i + d \in Repeats
      <3>1. FramesInWindow
        BY <2>5 DEF Transfer, Pipeline
      <3>2. frame = Frame(Committed + 1) /\ (Committed >= 1 => rx'[i] # Frame(Committed))
        BY <1>2, <2>2, <2>5, <3>1 DEF FramesInWindow
      <3>3. i + d = i
        BY <1>1, <1>2, <2>5
      <3>4. ASSUME IsData(rx'[i]), rx'[i] = Frame(Committed + 1) PROVE i + d \in Repeats
        <4>1. i \in DOMAIN rx /\ IsData(rx[i]) /\ rx[i] = frame
          BY <2>2, <2>5, <3>2, <3>4
        <4>2. i \in Repeats
          BY <1>2, <2>5, <4>1 DEF Repeats
        <4> QED
          BY <3>3, <4>2, Zenon
      <3> QED
        BY <3>2, <3>4
    <2> QED
      BY <2>2, <2>3, <2>4, <2>5 DEF InFifo
  <1>3. CASE d = 1 /\ 1 \in DOMAIN rx /\ rx[1] = Frame(Committed + 1)
    <2>1. IsData(rx[1]) /\ rx[1] \in Queued
      BY <1>0, <1>3, FrameIsData DEF Frame, Queued, InFifo
    <2>2. \A i \in DOMAIN rx' : /\ i + 1 \in DOMAIN rx /\ rx'[i] = rx[i + 1] /\ 1 < i + 1
                                /\ 1 \in 1 .. (i + 1) - 1
      BY <1>1, <1>3
    <2>3. \A i \in DOMAIN rx' : rx'[i].cmd # "SET_ADDR"
      <3>1. \A i \in DOMAIN rx' : 5 <= Stage(rx[i + 1].cmd)
        BY <1>3, <2>1, <2>2, DataStage DEF OrderInv
      <3> QED
        BY <2>2, <3>1 DEF Stage
    <2>4. options.mode = "RAW" => \A i \in DOMAIN rx' : ~IsData(rx'[i])
      <3> SUFFICES ASSUME options.mode = "RAW", NEW i \in DOMAIN rx' PROVE FALSE
        OBVIOUS
      <3>1. \A j \in DOMAIN rx : IsData(rx[j]) => j = Len(rx)
        BY <2>1 DEF Transfer, Pipeline, RawFrames
      <3>2. ~(1 < Len(rx))
        BY <1>1, <1>3, <2>1, <3>1
      <3>3. i + 1 <= Len(rx) /\ 1 < i + 1 /\ i \in Nat
        BY <1>1, <2>2
      <3> QED
        BY <1>1, <3>2, <3>3
    <2>5. ASSUME options.mode # "RAW", NEW i \in DOMAIN rx'
          PROVE  /\ Committed >= 1 => rx'[i] # Frame(Committed)
                 /\ IsData(rx'[i]) /\ rx'[i] = Frame(Committed + 1) => i + d \in Repeats
      <3>1. FramesInWindow
        BY <2>5 DEF Transfer, Pipeline
      <3>2. ASSUME Committed >= 1, rx'[i] = Frame(Committed) PROVE FALSE
        <4>1. Committed \in Window
          BY <1>0, <3>2 DEF Window
        <4>2. Committed + 1 <= Committed
          BY <1>3, <2>2, <2>5, <3>1, <3>2, <4>1 DEF FramesInWindow
        <4> QED
          BY <1>0, <4>2
      <3>3. IsData(rx'[i]) /\ rx'[i] = Frame(Committed + 1) => i + 1 \in Repeats
        BY <1>3, <2>2, <2>5 DEF Repeats
      <3> QED
        BY <1>3, <3>2, <3>3
    <2> QED
      BY <2>3, <2>4, <2>5 DEF InFifo
  <1> QED
    BY <1>2, <1>3

(* The first word of a frame is written.                                   *)
LEMMA FrameBegun ==
    ASSUME HostTypeOK, TypeOK, OrderInv, item >= FirstData, Transfer, HostStays, RxShift(1),
           Committed + 1 \in Window, Committed + 1 <= Top,
           1 \in DOMAIN rx, rx[1] = Frame(Committed + 1), frame' = rx[1], pc' = "fast",
           Committed' = Committed, Queued' \subseteq Queued
    PROVE  RestOfPipeline
  <1>1. /\ Frames' = Frames
        /\ Told' = Told /\ Top' = Top /\ Running' = Running
        /\ UNCHANGED <<options, waiting, tries>>
        /\ \A k : Frame(k)' = Frame(k)
    BY HostStaysEffect DEF HostStays
  <1>2. /\ \A p \in InFifo' : p.cmd # "SET_ADDR"
        /\ options.mode = "RAW" => \A i \in DOMAIN rx' : ~IsData(rx'[i])
        /\ options.mode # "RAW" =>
              \A i \in DOMAIN rx' :
                 /\ Committed >= 1 => rx'[i] # Frame(Committed)
                 /\ IsData(rx'[i]) /\ rx'[i] = Frame(Committed + 1) => i + 1 \in Repeats
    BY BehindFrame, 1 \in Nat
  <1>3. Window' = Window
    BY <1>1 DEF Window
  <1>4. InFifo' \subseteq InFifo
        /\ \A i \in DOMAIN rx' : i \in Nat /\ i + 1 \in DOMAIN rx /\ rx'[i] = rx[i + 1]
    BY ShiftedFifo, 1 \in Nat DEF RxShift
  <1>5. Frame(Committed)' = Frame(Committed) /\ Frame(Committed + 1)' = Frame(Committed + 1)
    BY <1>1 DEF Frame
  <1>6. Pipeline'
    <2>1. CASE options.mode = "RAW"
      <3>1. RawFrames
        BY <2>1 DEF Transfer, Pipeline
      <3>2. RawFrames'
        BY <1>1, <1>2, <2>1, <3>1, <1>5 DEF RawFrames
      <3> QED
        BY <1>1, <2>1, <3>2 DEF Pipeline
    <2>2. CASE options.mode # "RAW"
      <3>1. FramesInWindow
        BY <2>2 DEF Transfer, Pipeline
      <3>2. \A p \in InFifo' : IsData(p) => \E k \in Window' : k <= Top' /\ p = Frame(k)'
        BY <1>1, <1>3, <1>4, <3>1 DEF FramesInWindow
      <3>3. \A i, j \in DOMAIN rx' : \A k, l \in Window' :
               i < j /\ rx'[i] = Frame(k)' /\ rx'[j] = Frame(l)' => k <= l
        <4>1. SUFFICES ASSUME NEW i \in DOMAIN rx', NEW j \in DOMAIN rx',
                              NEW k \in Window, NEW l \in Window,
                              i < j, rx'[i] = Frame(k), rx'[j] = Frame(l)
                       PROVE  k <= l
          BY <1>1, <1>3
        <4>2. /\ i + 1 \in DOMAIN rx /\ j + 1 \in DOMAIN rx /\ i + 1 < j + 1
              /\ rx[i + 1] = Frame(k) /\ rx[j + 1] = Frame(l)
          BY <1>4, <4>1
        <4> QED
          BY <3>1, <4>2 DEF FramesInWindow
      <3>4. /\ Committed' + 1 <= Top'
            /\ frame' = Frame(Committed + 1)'
            /\ \A p \in InFifo' : Committed' >= 1 => p # Frame(Committed)'
        BY <1>1, <1>2, <1>5, <2>2 DEF InFifo
      <3>5. FramesInWindow'
        BY <3>2, <3>3, <3>4 DEF FramesInWindow
      <3> QED
        BY <1>1, <2>2, <3>5 DEF Pipeline
    <2> QED
      BY <2>1, <2>2
  <1>7. RepeatsNext' => RepeatsNext
    BY <1>1 DEF RepeatsNext, Frame
  <1>8. \A i \in DOMAIN rx' :
           /\ options.mode # "RAW" /\ IsData(rx'[i])
           /\ \/ Committed' >= 1 /\ rx'[i] = Frame(Committed)'
              \/ pc' = "fast" /\ rx'[i] = frame'
           => i + 1 \in Repeats
    BY <1>2, <1>5
  <1>9. SetAddrFirst'
    BY <1>2 DEF SetAddrFirst
  <1> QED
    BY <1>6, <1>7, <1>8, <1>9, RepeatsKept, 1 \in Nat DEF RestOfPipeline

(* The frame the device has begun is the one after the last.               *)
LEMMA FrameUnderWay ==
    ASSUME HostTypeOK, TypeOK, item >= FirstData, Transfer, pc = "fast"
    PROVE  /\ frame = Frame(Committed + 1) /\ frame \in Queued /\ IsData(frame)
           /\ Committed + 1 \in Window /\ Committed + 1 <= Top
  <1>1. IsData(frame) /\ frame \in Queued
    BY DEF TypeOK, FastPacket, RawPacket, IsData, Busy, Queued
  <1>2. /\ Committed \in Nat /\ Committed <= Top
        /\ Told \in Nat /\ Frames \in Nat /\ Top \in {Told, Told + 1} /\ Top <= Frames
    BY HostPosition DEF Transfer, Positioned
  <1>3. frame = Frame(Committed + 1) /\ Committed + 1 <= Top
    <2>1. CASE options.mode = "RAW"
      <3>1. /\ frame = Frame(Committed + 1) /\ Committed = Told
            /\ Told < Frames /\ (Running => waiting)
        BY <1>1, <2>1 DEF Transfer, Pipeline, RawFrames
      <3> QED
        BY <1>2, <3>1 DEF Top
    <2>2. CASE options.mode # "RAW"
      BY <2>2 DEF Transfer, Pipeline, FramesInWindow
    <2> QED
      BY <2>1, <2>2
  <1> QED
    BY <1>1, <1>2, <1>3 DEF Window

(* A frame is written.                                                     *)
LEMMA FrameWritten ==
    ASSUME HostTypeOK, TypeOK, OrderInv, item >= FirstData, Transfer, HostStays,
           NEW d \in Nat, RxShift(d), Committed + 1 \in Window, Committed + 1 <= Top,
           \/ d = 0 /\ pc = "fast"
           \/ d = 1 /\ 1 \in DOMAIN rx /\ rx[1] = Frame(Committed + 1),
           Committed' = Committed + 1, ~Busy'
    PROVE  RestOfPipeline /\ Committed' \in 0 .. Top'
  <1>1. /\ Frames' = Frames
        /\ Told' = Told /\ Top' = Top /\ Running' = Running
        /\ UNCHANGED <<options, waiting, tries>>
        /\ \A k : Frame(k)' = Frame(k)
    BY HostStaysEffect DEF HostStays
  <1>2. /\ \A p \in InFifo' : p.cmd # "SET_ADDR"
        /\ options.mode = "RAW" => \A i \in DOMAIN rx' : ~IsData(rx'[i])
        /\ options.mode # "RAW" =>
              \A i \in DOMAIN rx' :
                 /\ Committed >= 1 => rx'[i] # Frame(Committed)
                 /\ IsData(rx'[i]) /\ rx'[i] = Frame(Committed + 1) => i + d \in Repeats
    BY BehindFrame
  <1>3. /\ Committed \in Nat /\ Committed \in 0 .. Top /\ Top \in Nat
        /\ Frames \in Nat /\ Told \in Nat
    BY HostPosition DEF Transfer, Positioned
  <1>4. /\ Window' = {k \in 1 .. Frames : Committed + 1 <= k /\ k <= Told + 1}
        /\ Window' \subseteq Window
    BY <1>1, <1>3 DEF Window
  <1>5. InFifo' \subseteq InFifo
        /\ \A i \in DOMAIN rx' : i \in Nat /\ i + d \in DOMAIN rx /\ rx'[i] = rx[i + d]
    BY ShiftedFifo DEF RxShift
  <1>6. Queued' = InFifo' /\ pc' # "fast"
    BY DEF Queued, Busy
  <1>7. Pipeline'
    <2>1. CASE options.mode = "RAW"
      <3>1. \A p \in Queued' : ~IsData(p)
        BY <1>2, <1>6, <2>1 DEF InFifo
      <3>2. RawFrames'
        BY <3>1 DEF RawFrames
      <3> QED
        BY <1>1, <2>1, <3>2 DEF Pipeline
    <2>2. CASE options.mode # "RAW"
      <3>1. FramesInWindow
        BY <2>2 DEF Transfer, Pipeline
      <3>2. ASSUME NEW i \in DOMAIN rx', IsData(rx'[i])
            PROVE  \E k \in Window' : k <= Top' /\ rx'[i] = Frame(k)'
        <4>1. PICK k \in Window : k <= Top /\ rx'[i] = Frame(k)
          BY <1>5, <3>1, <3>2 DEF FramesInWindow, InFifo
        <4>2. k # Committed
          BY <1>2, <1>3, <2>2, <4>1 DEF Window
        <4>3. k \in Window'
          BY <1>3, <1>4, <4>2 DEF Window
        <4> QED
          BY <1>1, <4>1, <4>3
      <3>3. \A p \in InFifo' : IsData(p) => \E k \in Window' : k <= Top' /\ p = Frame(k)'
        BY <3>2 DEF InFifo
      <3>4. \A i, j \in DOMAIN rx' : \A k, l \in Window' :
               i < j /\ rx'[i] = Frame(k)' /\ rx'[j] = Frame(l)' => k <= l
        <4>1. SUFFICES ASSUME NEW i \in DOMAIN rx', NEW j \in DOMAIN rx',
                              NEW k \in Window, NEW l \in Window,
                              i < j, rx'[i] = Frame(k), rx'[j] = Frame(l)
                       PROVE  k <= l
          BY <1>1, <1>4
        <4>2. /\ i + d \in DOMAIN rx /\ j + d \in DOMAIN rx /\ i + d < j + d
              /\ rx[i + d] = Frame(k) /\ rx[j + d] = Frame(l)
          BY <1>5, <4>1
        <4> QED
          BY <3>1, <4>2 DEF FramesInWindow
      <3>5. FramesInWindow'
        BY <1>6, <3>3, <3>4 DEF FramesInWindow
      <3> QED
        BY <1>1, <2>2, <3>5 DEF Pipeline
    <2> QED
      BY <2>1, <2>2
  <1>8. RepeatsNext' => RepeatsNext
    <2>1. Frame(Committed + 1) \in Queued
      BY FrameUnderWay DEF Queued, InFifo
    <2>2. Queued' \subseteq Queued
      BY <1>5, <1>6 DEF Queued
    <2>3. SUFFICES ASSUME RepeatsNext' PROVE Committed = Told + 1 \/ Frame(Told + 1) \in Queued
      BY <1>1 DEF RepeatsNext
    <2>4. CASE Committed' = Told' + 1
      <3>1. Committed + 1 = Told + 1
        BY <1>1, <2>4
      <3> QED
        BY <2>1, <3>1
    <2>5. CASE Frame(Told + 1)' \in Queued'
      BY <1>1, <2>2, <2>5 DEF Frame
    <2> QED
      BY <2>3, <2>4, <2>5 DEF RepeatsNext
  <1>9. \A i \in DOMAIN rx' :
           /\ options.mode # "RAW" /\ IsData(rx'[i])
           /\ \/ Committed' >= 1 /\ rx'[i] = Frame(Committed)'
              \/ pc' = "fast" /\ rx'[i] = frame'
           => i + d \in Repeats
    <2>1. Frame(Committed)' = Frame(Committed + 1)
      BY <1>1 DEF Frame
    <2> QED
      BY <1>2, <1>6, <2>1
  <1>10. SetAddrFirst'
    BY <1>2 DEF SetAddrFirst
  <1> QED
    BY <1>1, <1>3, <1>7, <1>8, <1>9, <1>10, RepeatsKept DEF RestOfPipeline

-----------------------------------------------------------------------------
(* The device in the transfer.                                             *)

(* SET_ADDR was answered, and nothing earlier is queued any more.          *)
LEMMA PastAddress ==
    ASSUME HostTypeOK, OrderInv, item >= FirstData
    PROVE  /\ Answered >= 4
           /\ \A p \in Queued : p.cmd # "ERASE"
           /\ \A p \in Queued : p.cmd = "SET_ADDR" => p.dlc = 5 /\ p.addr = APP_START_ADDR
           /\ pc # "erase"
  <1> DEFINE o == options
             N == FrameCount(o.mode)
  <1>1. /\ o \in Options /\ item \in 1 .. Len(Scripts[o]) /\ Script = Scripts[o]
        /\ FirstData = DataFrom(o) /\ DataFrom(o) \in {11, 12} /\ item \in Nat
        /\ N \in Nat /\ Len(Scripts[o]) \in Nat
    BY ScriptType, ScriptShape DEF HostTypeOK, Script, FirstData, DataFrom
  <1>2. Answered >= 4
    <2>1. \A i \in 1 .. Len(Scripts[o]) : i >= DataFrom(o) - 1 => Stage(Scripts[o][i].cmd) >= 4
      <3> SUFFICES ASSUME NEW i \in 1 .. Len(Scripts[o]), i >= DataFrom(o) - 1
                   PROVE  Stage(Scripts[o][i].cmd) >= 4
        OBVIOUS
      <3>1. Stage(Scripts[o][i].cmd) \in 1 .. 7
        BY StageType
      <3>2. /\ Stage(Scripts[o][i].cmd) = 1 <=> i \in 1 .. 3
            /\ Stage(Scripts[o][i].cmd) = 2 <=> i \in 4 .. 9
            /\ Stage(Scripts[o][i].cmd) = 3 <=> i = 10 /\ o.erase
        BY <1>1, ScriptStage
      <3>3. i \in Nat /\ i >= 10 /\ (o.erase => i >= 11)
        BY <1>1 DEF DataFrom
      <3> QED
        BY <3>1, <3>2, <3>3
    <2>2. item \in 1 .. Len(Scripts[o]) /\ item - 1 \in 1 .. Len(Scripts[o])
          /\ item >= DataFrom(o) - 1 /\ item - 1 >= DataFrom(o) - 1 /\ item # 1
      BY <1>1
    <2> QED
      BY <1>1, <2>1, <2>2 DEF Answered
  <1>3. ASSUME NEW p \in Queued PROVE Stage(p.cmd) >= 4 /\ p \in Sent
    <2>1. Answered <= Stage(p.cmd) /\ p \in Sent
      BY <1>3 DEF OrderInv
    <2>2. Stage(p.cmd) \in 1 .. 7 /\ Answered \in 1 .. 7
      BY StageType DEF Answered
    <2> QED
      BY <1>2, <2>1, <2>2
  <1>4. ASSUME NEW p \in Queued, p.cmd = "SET_ADDR"
        PROVE  p.dlc = 5 /\ p.addr = APP_START_ADDR
    <2>1. PICK j \in 1 .. item : p = Scripts[o][j]
      BY <1>1, <1>3, <1>4 DEF Sent
    <2>2. j \in 1 .. Len(Scripts[o])
      BY <1>1
    <2>3. Stage(Scripts[o][j].cmd) = 4
      BY <1>4, <2>1 DEF Stage
    <2>4. Stage(Scripts[o][j].cmd) = 4 <=> j = DataFrom(o) - 1
      BY <1>1, <2>2, ScriptStage
    <2>5. Scripts[o][DataFrom(o) - 1] = SetAddrPacketSent
      BY <1>1, ScriptShape
    <2>6. p = SetAddrPacketSent
      BY <2>1, <2>3, <2>4, <2>5
    <2> QED
      BY <2>6 DEF SetAddrPacketSent
  <1>5. \A p \in Queued : p.cmd # "ERASE"
    BY <1>3 DEF Stage
  <1>6. pc # "erase"
    BY <1>5 DEF OrderInv, Queued, Busy
  <1> QED
    BY <1>2, <1>4, <1>5, <1>6

(* The part of the position that a step which writes nothing leaves alone. *)
positionVars == <<current_write_addr, expected_seq, expected_fast_seq, last_legacy, last_fast>>

LEMMA SamePosition ==
    ASSUME Positioned, Remembered, HostStays, UNCHANGED positionVars
    PROVE  Positioned' /\ Remembered' /\ Committed' = Committed
  <1>1. options' = options /\ Top' = Top /\ \A k : Frame(k)' = Frame(k)
    BY HostStaysEffect DEF HostStays
  <1>2. Committed' = Committed
    BY <1>1 DEF positionVars, Committed, AppSize
  <1>3. Frame(Committed)' = Frame(Committed)
    BY <1>1, <1>2 DEF Frame
  <1>4. Positioned'
    BY <1>1, <1>2 DEF positionVars, Positioned
  <1>5. Remembered'
    BY <1>1, <1>2, <1>3 DEF positionVars, Remembered
  <1> QED
    BY <1>2, <1>4, <1>5

(* An acknowledgement is paid for by a frame that is written, or by a      *)
(* repetition that is taken from the FIFO.                                 *)
LEMMA Balance ==
    ASSUME HostTypeOK, FaultsOK, BusTypeOK, item >= FirstData, Transfer, HostStays,
           RestOfPipeline, Positioned', Remembered',
           Acks \in Nat, Acks' \in Nat,
           \/ Acks' <= Acks /\ Committed' = Committed
           \/ Acks' <= Acks + 1 /\ Committed' = Committed + 1
           \/ /\ Acks' <= Acks + 1 /\ Committed' = Committed
              /\ Cardinality(Repeats') + 1 <= Cardinality(Repeats)
    PROVE  Transfer'
  <1>1. Told' = Told /\ Late' = Late /\ Told \in Nat /\ Late \in Nat /\ Committed \in Nat
    BY HostStaysEffect, HostPosition, Ahead DEF Transfer
  <1>2. Told + Cardinality(Repeats) + Acks + (IF RepeatsNext THEN 1 ELSE 0) <= Committed + Late
    BY DEF Transfer, Surplus
  <1>3. Told' + Cardinality(Repeats') + Acks' + (IF RepeatsNext' THEN 1 ELSE 0)
          <= Committed' + Late'
    BY <1>1, <1>2 DEF RestOfPipeline
  <1>4. Surplus'
    BY <1>3 DEF Surplus
  <1> QED
    BY <1>4 DEF Transfer, RestOfPipeline

(* The device reads the packet that has waited longest.                    *)
LEMMA TakesPacket ==
    ASSUME HostTypeOK, TypeOK, OrderInv, DeviceReceive
    PROVE  /\ rx # <<>> /\ rx' = Tail(rx) /\ Head(rx) = rx[1] /\ 1 \in DOMAIN rx
           /\ Head(rx) \in Packets /\ Head(rx) \in InFifo
           /\ WaitReceive(Head(rx)) \/ bootloader_handle_packet(Head(rx)) \/ AppHandles(Head(rx))
           /\ RxShift(1) /\ HostStays
           /\ Transmit /\ UNCHANGED wire
           /\ frame' = Head(rx) /\ pc # "fast"
           /\ Queued' \subseteq Queued
  <1>1. /\ rx # <<>> /\ rx' = Tail(rx) /\ Transmit /\ UNCHANGED <<wire, hostVars, faults>>
        /\ WaitReceive(Head(rx)) \/ bootloader_handle_packet(Head(rx)) \/ AppHandles(Head(rx))
    BY DEF DeviceReceive
  <1>2. /\ 1 \in DOMAIN rx /\ Head(rx) = rx[1]
        /\ \A i \in DOMAIN rx' : i + 1 \in DOMAIN rx /\ rx'[i] = rx[i + 1]
    BY <1>1, FifoFront
  <1>3. rx' \in Seq(Packets) /\ Len(rx') + 1 = Len(rx) /\ Head(rx) \in Packets
    BY <1>1 DEF HostTypeOK
  <1>4. frame' = Head(rx) /\ ~Busy
    BY <1>1, <1>3, PacketAnswer
  <1>5. Head(rx) \in InFifo /\ InFifo' \subseteq InFifo
    BY <1>2 DEF InFifo
  <1>6. Queued' \subseteq Queued /\ pc # "fast"
    BY <1>4, <1>5 DEF Queued, Busy
  <1> QED
    BY <1>1, <1>2, <1>3, <1>4, <1>5, <1>6 DEF RxShift, HostStays

(* A data frame at the head of the FIFO is one of the transfer, and the    *)
(* one to be written next when it has the number of that.                  *)
LEMMA HeadFrame ==
    ASSUME HostTypeOK, item >= FirstData, Transfer, 1 \in DOMAIN rx, IsData(rx[1])
    PROVE  /\ rx[1].cmd = options.mode
           /\ \E k \in Window : k <= Top /\ rx[1] = Frame(k)
           /\ options.mode = "RAW" => rx[1] = Frame(Committed + 1) /\ Committed + 1 \in Window
                                     /\ Committed + 1 <= Top
  <1>0. options \in Options /\ Told \in Nat /\ Frames \in Nat /\ Committed \in Nat
    BY HostPosition DEF Transfer, Positioned
  <1>1. rx[1] \in InFifo /\ rx[1] \in Queued
    BY DEF InFifo, Queued
  <1>2. ASSUME options.mode = "RAW"
        PROVE  /\ rx[1] = Frame(Committed + 1)
               /\ Committed + 1 \in Window /\ Committed + 1 <= Top
    <2>1. /\ rx[1] = Frame(Committed + 1) /\ Committed = Told
          /\ Told < Frames /\ (Running => waiting)
      BY <1>1, <1>2 DEF Transfer, Pipeline, RawFrames
    <2>2. Top = Told + 1
      BY <1>0, <2>1 DEF Top
    <2> QED
      BY <1>0, <2>1, <2>2 DEF Window
  <1>3. \E k \in Window : k <= Top /\ rx[1] = Frame(k)
    <2>1. CASE options.mode = "RAW"
      BY <1>2, <2>1
    <2>2. CASE options.mode # "RAW"
      BY <1>1, <2>2 DEF Transfer, Pipeline, FramesInWindow
    <2> QED
      BY <2>1, <2>2
  <1>4. rx[1].cmd = options.mode
    BY <1>0, <1>3, FrameIsData DEF Frame
  <1> QED
    BY <1>2, <1>3, <1>4

LEMMA ExpectedFrame ==
    ASSUME HostTypeOK, FaultsOK, BusTypeOK, FramesToldApart, item >= FirstData, Transfer,
           1 \in DOMAIN rx, IsData(rx[1]),
           rx[1].cmd = "FAST" => rx[1].seq = expected_fast_seq,
           rx[1].cmd = "DATA" => rx[1].seq = expected_seq
    PROVE  rx[1] = Frame(Committed + 1) /\ Committed + 1 \in Window /\ Committed + 1 <= Top
  <1>1. /\ options \in Options /\ options.mode \in {"FAST", "RAW", "DATA"}
        /\ Told \in Nat /\ Frames \in Nat /\ Committed \in Nat
        /\ Told <= Committed + faults["late"] /\ faults["late"] \in Nat
    <2>1. /\ Late \in Nat /\ faults["late"] \in Nat /\ Committed \in Nat
          /\ Late <= faults["late"] /\ Told <= Committed + Late
      BY Ahead DEF Transfer
    <2>2. /\ options \in Options /\ options.mode \in {"FAST", "RAW", "DATA"}
          /\ Told \in Nat /\ Frames \in Nat
      BY HostPosition
    <2>3. Told <= Committed + faults["late"]
      BY ONLY <2>1, <2>2
    <2> QED
      BY <2>1, <2>2, <2>3
  <1>2. CASE options.mode = "RAW"
    BY <1>2, HeadFrame
  <1>3. CASE options.mode # "RAW"
    <2> DEFINE m == SeqMod(options.mode)
    <2>1. m \in Nat /\ 2 <= m /\ faults["late"] < m
      <3>1. m \in Nat \ {0, 1}
        BY SequenceAssumption DEF SeqMod
      <3>2. faults["late"] < m
        BY <1>1, <1>3 DEF FramesToldApart, ToldApart
      <3> QED
        BY <3>1, <3>2
    <2>2. PICK k \in Window : k <= Top /\ rx[1] = Frame(k)
      BY HeadFrame
    <2>3. k \in Nat /\ 1 <= k /\ Committed <= k /\ k <= Told + 1 /\ k - 1 \in Nat
      BY <1>1 DEF Window
    <2>4. (k - 1) % m = Committed % m
      <3>1. CASE options.mode = "FAST"
        <4>1. rx[1].cmd = "FAST" /\ rx[1].seq = (k - 1) % FastSeqMod
          BY <2>2, <3>1 DEF Frame, DataFrame
        <4> QED
          BY <3>1, <4>1 DEF Transfer, Positioned, SeqMod
      <3>2. CASE options.mode = "DATA"
        <4>1. rx[1].cmd = "DATA" /\ rx[1].seq = (k - 1) % LegacySeqMod
          BY <2>2, <3>2 DEF Frame, DataFrame
        <4> QED
          BY <3>2, <4>1 DEF Transfer, Positioned, SeqMod
      <3> QED
        BY <1>1, <1>3, <3>1, <3>2
    <2> HIDE DEF m
    <2>5. k - 1 = Committed
      <3>1. Committed - 1 <= k - 1 /\ k - 1 < Committed + m
        BY <1>1, <2>1, <2>3
      <3>2. k - 1 \in Nat /\ Committed \in Nat /\ m \in Nat /\ 2 <= m
        BY <1>1, <2>1, <2>3
      <3> QED
        BY ONLY <2>4, <3>1, <3>2, SameNumber
    <2>6. k = Committed + 1
      BY <2>3, <2>5, <1>1
    <2> QED
      BY <2>2, <2>6
  <1> QED
    BY <1>2, <1>3

(* A frame that is taken for a repetition of the last one repeats it.      *)
LEMMA RepeatedFrame ==
    ASSUME HostTypeOK, item >= FirstData, Transfer, 1 \in DOMAIN rx,
           \/ rx[1].cmd = "FAST" /\ IsDuplicateFrame(rx[1])
           \/ rx[1].cmd = "DATA" /\ IsDuplicateWord(rx[1])
    PROVE  1 \in Repeats
  <1>1. IsData(rx[1])
    BY DEF IsData
  <1>2. rx[1].cmd = options.mode
    BY <1>1, HeadFrame
  <1>3. PICK k \in Window : rx[1] = Frame(k)
    BY <1>1, HeadFrame
  <1>4. CASE options.mode = "FAST"
    <2>1. /\ Committed >= 1
          /\ rx[1].seq = Frame(Committed).seq
          /\ rx[1].word0 = Frame(Committed).word0
          /\ rx[1].word1 = Frame(Committed).word1
      BY <1>2, <1>4 DEF IsDuplicateFrame, Transfer, Remembered
    <2>2. rx[1] = Frame(Committed)
      BY <1>3, <1>4, <2>1 DEF Frame, DataFrame
    <2> QED
      BY <1>1, <1>4, <2>1, <2>2 DEF Repeats
  <1>5. CASE options.mode = "DATA"
    <2>1. /\ Committed >= 1
          /\ rx[1].seq = Frame(Committed).seq
          /\ rx[1].word = Frame(Committed).word
      BY <1>2, <1>5 DEF IsDuplicateWord, Transfer, Remembered
    <2>2. rx[1] = Frame(Committed)
      BY <1>3, <1>5, <2>1 DEF Frame, DataFrame
    <2> QED
      BY <1>1, <1>5, <2>1, <2>2 DEF Repeats
  <1> QED
    BY <1>2, <1>4, <1>5

(* What a packet can do to the position: nothing, set the address, repeat  *)
(* a frame, write one word, or begin a frame of two.                       *)
Rests    == UNCHANGED positionVars /\ pc' # "fast" /\ sent' # Ack("DATA")
Addresses(pkt) ==
    pkt.cmd = "SET_ADDR" /\ StartTransfer(pkt.addr) /\ UNCHANGED pc /\ sent' = Ack("SET_ADDR")
Repeating(pkt) ==
    /\ UNCHANGED positionVars /\ pc' # "fast"
    /\ \/ pkt.cmd = "FAST" /\ IsDuplicateFrame(pkt)
       \/ pkt.cmd = "DATA" /\ IsDuplicateWord(pkt)
Writing(pkt) ==
    pkt.cmd = "DATA" /\ pkt.seq = expected_seq /\ CommitWord(pkt)
Beginning(pkt) ==
    /\ IsData(pkt) /\ pkt.cmd # "DATA"
    /\ pkt.cmd = "FAST" => pkt.seq = expected_fast_seq
    /\ UNCHANGED positionVars /\ pc' = "fast" /\ sent' = NoResponse

LEMMA PacketCases ==
    ASSUME TypeOK, pc # "fast", NEW pkt \in Packets,
           WaitReceive(pkt) \/ bootloader_handle_packet(pkt) \/ AppHandles(pkt)
    PROVE  Rests \/ Addresses(pkt) \/ Repeating(pkt) \/ Writing(pkt) \/ Beginning(pkt)
  <1> USE DEF positionVars
  <1>0. \A e : Nack("DATA", e) # Ack("DATA")
    BY DEF Nack, Ack
  <1>1. CASE WaitReceive(pkt) \/ HandlePing(pkt) \/ HandleInfo(pkt) \/ HandleErase(pkt)
             \/ HandleCrc(pkt) \/ HandleBoot(pkt) \/ HandleReset(pkt) \/ HandleOther(pkt)
             \/ AppHandles(pkt)
    <2>1. sent' # Ack("DATA")
      <3>1. pkt.cmd \notin {"FAST", "RAW", "DATA"} => sent' # Ack("DATA")
        BY PacketAnswer DEF Answer, ResponseCmd, Ack, NoResponse
      <3>2. pkt.cmd \in {"FAST", "RAW", "DATA"} => sent' # Ack("DATA")
        BY <1>1 DEF WaitReceive, HandlePing, HandleInfo, HandleErase, HandleCrc, HandleBoot,
           HandleReset, HandleOther, AppHandles, app_can_poll, app_handle_bootloader_can_command,
           AppPing, AppReset, AppOther, ExampleReset, Ack, Nack, NoResponse
      <3> QED
        BY <3>1, <3>2
    <2>2. UNCHANGED positionVars /\ pc' # "fast"
      BY <1>1 DEF WaitReceive, HandlePing, HandleInfo, HandleErase, HandleCrc, HandleBoot,
         HandleReset, HandleOther, AppHandles, app_can_poll, app_handle_bootloader_can_command,
         AppPing, AppReset, AppOther, ExampleReset, App
    <2> QED
      BY <2>1, <2>2 DEF Rests
  <1>2. CASE HandleSetAddr(pkt)
    <2>1. \/ \E e : Reply(Nack("SET_ADDR", e))
          \/ Addresses(pkt)
      BY <1>2 DEF HandleSetAddr, Addresses
    <2>2. \A e : Nack("SET_ADDR", e) # Ack("DATA")
      BY DEF Nack, Ack
    <2> QED
      BY <2>1, <2>2 DEF Rests
  <1>3. CASE HandleData(pkt)
    <2>1. \/ Reply(IF IsDuplicateWord(pkt) THEN Ack("DATA") ELSE Nack("DATA", "SEQUENCE"))
          \/ \E e : Reply(Nack("DATA", e))
          \/ pkt.seq = expected_seq /\ CommitWord(pkt)
          \/ sent' = Nack("DATA", "FLASH_WRITE") /\ UNCHANGED <<ramVars, pc>>
      BY <1>3 DEF HandleData
    <2> QED
      BY <1>0, <1>3, <2>1 DEF HandleData, Rests, Repeating, Writing
  <1>4. CASE HandleFast(pkt)
    <2>1. \/ pkt.cmd = "FAST"
             /\ Reply(IF IsDuplicateFrame(pkt) THEN Ack("DATA") ELSE Nack("DATA", "SEQUENCE"))
          \/ \E e : Reply(Nack("DATA", e))
          \/ InSequence(pkt) /\ pc' = "fast" /\ sent' = NoResponse /\ UNCHANGED ramVars
          \/ sent' = Nack("DATA", "FLASH_WRITE") /\ UNCHANGED <<ramVars, pc>>
      BY <1>4 DEF HandleFast, InSequence
    <2>2. pkt.cmd \in {"FAST", "RAW"} /\ IsData(pkt)
      BY <1>4 DEF HandleFast, IsData
    <2> QED
      BY <1>0, <2>1, <2>2 DEF Rests, Repeating, Beginning, InSequence
  <1> QED
    BY <1>1, <1>2, <1>3, <1>4 DEF bootloader_handle_packet

(* The position after an address, and after a frame.                       *)
LEMMA StartPosition ==
    ASSUME HostTypeOK, item >= FirstData, Positioned, HostStays, Committed = 0,
           StartTransfer(APP_START_ADDR)
    PROVE  Positioned' /\ Remembered' /\ Committed' = Committed
  <1>1. /\ options' = options /\ Top' = Top
        /\ options.mode \in {"FAST", "RAW", "DATA"} /\ 0 \in 0 .. Top
    BY HostPosition, HostStaysEffect DEF HostStays
  <1>2. current_write_addr' = APP_START_ADDR + FrameWords(options.mode) * 0
    BY LayoutAssumption DEF StartTransfer, FrameWords
  <1>3. Committed' = 0
    BY <1>1, <1>2, FramesWritten, 0 \in Nat DEF Committed, AppSize
  <1>4. 0 % FastSeqMod = 0 /\ 0 % LegacySeqMod = 0
    BY SequenceAssumption
  <1>5. Positioned'
    BY <1>1, <1>2, <1>3, <1>4 DEF Positioned, StartTransfer
  <1>6. Remembered'
    BY DEF Remembered, StartTransfer, NoFast, NoLegacy
  <1> QED
    BY <1>3, <1>5, <1>6

LEMMA WordPosition ==
    ASSUME HostTypeOK, TypeOK, item >= FirstData, Positioned, HostStays,
           NEW pkt, pkt = Frame(Committed + 1), options.mode = "DATA", CommitWord(pkt)
    PROVE  Committed' = Committed + 1 /\ (Committed' \in 0 .. Top' => Positioned' /\ Remembered')
  <1>1. /\ options' = options /\ Committed \in Nat
        /\ \A k : Frame(k)' = Frame(k)
    BY HostPosition, HostStaysEffect DEF HostStays, Positioned
  <1>2. current_write_addr' = APP_START_ADDR + FrameWords(options.mode) * (Committed + 1)
    BY <1>1, LayoutAssumption DEF CommitWord, FrameWords, Positioned
  <1>3. Committed' = Committed + 1
    <2>1. (current_write_addr' - APP_START_ADDR) \div FrameWords(options.mode) = Committed + 1
      BY <1>1, <1>2, FramesWritten, Committed + 1 \in Nat
    <2> QED
      BY <1>1, <2>1 DEF Committed, AppSize
  <1>4. expected_seq' = Committed' % LegacySeqMod
    <2>1. expected_seq' = ((Committed % LegacySeqMod) + 1) % LegacySeqMod
      BY DEF CommitWord, Positioned
    <2>2. LegacySeqMod \in Nat /\ 1 <= LegacySeqMod
      BY SequenceAssumption
    <2>3. ((Committed % LegacySeqMod) + 1) % LegacySeqMod = (Committed + 1) % LegacySeqMod
      BY <1>1, <2>2, NextNumber
    <2> QED
      BY <1>3, <2>1, <2>3
  <1>5. Frame(Committed)' = pkt
    BY <1>1, <1>3 DEF Frame
  <1>6. last_legacy'.seq = pkt.seq /\ last_legacy'.word = pkt.word
    BY DEF CommitWord
  <1>7. Committed' \in 0 .. Top' => Positioned'
    BY <1>1, <1>2, <1>3, <1>4 DEF Positioned
  <1>8. Remembered'
    BY <1>1, <1>3, <1>5, <1>6 DEF Remembered
  <1> QED
    BY <1>3, <1>7, <1>8

LEMMA FramePosition ==
    ASSUME HostTypeOK, TypeOK, item >= FirstData, Positioned, HostStays,
           frame = Frame(Committed + 1), options.mode # "DATA", frame.cmd = options.mode,
           CommitFrame
    PROVE  Committed' = Committed + 1 /\ (Committed' \in 0 .. Top' => Positioned' /\ Remembered')
  <1>1. /\ options' = options /\ Committed \in Nat
        /\ \A k : Frame(k)' = Frame(k)
        /\ options.mode \in {"FAST", "RAW", "DATA"}
    BY HostPosition, HostStaysEffect DEF HostStays, Positioned
  <1>2. current_write_addr' = APP_START_ADDR + FrameWords(options.mode) * (Committed + 1)
    BY <1>1, LayoutAssumption DEF CommitFrame, FrameWords, Positioned
  <1>3. Committed' = Committed + 1
    <2>1. (current_write_addr' - APP_START_ADDR) \div FrameWords(options.mode) = Committed + 1
      BY <1>1, <1>2, FramesWritten, Committed + 1 \in Nat
    <2> QED
      BY <1>1, <2>1 DEF Committed, AppSize
  <1>4. options.mode = "FAST" => expected_fast_seq' = Committed' % FastSeqMod
    <2>1. options.mode = "FAST" =>
             expected_fast_seq' = ((Committed % FastSeqMod) + 1) % FastSeqMod
      BY DEF CommitFrame, RecordFrame, Positioned
    <2>2. FastSeqMod \in Nat /\ 1 <= FastSeqMod
      BY SequenceAssumption
    <2>3. ((Committed % FastSeqMod) + 1) % FastSeqMod = (Committed + 1) % FastSeqMod
      BY <1>1, <2>2, NextNumber
    <2> QED
      BY <1>3, <2>1, <2>3
  <1>5. Frame(Committed)' = frame
    BY <1>1, <1>3 DEF Frame
  <1>6. options.mode = "FAST" =>
           /\ last_fast'.seq = frame.seq
           /\ last_fast'.word0 = frame.word0
           /\ last_fast'.word1 = frame.word1
    BY DEF CommitFrame, RecordFrame
  <1>7. Committed' \in 0 .. Top' => Positioned'
    BY <1>1, <1>2, <1>3, <1>4 DEF Positioned
  <1>8. Remembered'
    BY <1>1, <1>3, <1>5, <1>6 DEF Remembered
  <1> QED
    BY <1>3, <1>7, <1>8

(* The device handles a packet.                                            *)
LEMMA TransferReceive ==
    ASSUME HostTypeOK, FaultsOK, TypeOK, BusTypeOK, OrderInv, FramesToldApart,
           item >= FirstData, Transfer, DeviceReceive
    PROVE  Transfer'
  <1> DEFINE pkt == Head(rx)
  <1>1. /\ pkt = rx[1] /\ 1 \in DOMAIN rx
        /\ pkt \in Packets /\ pkt \in InFifo
        /\ WaitReceive(pkt) \/ bootloader_handle_packet(pkt) \/ AppHandles(pkt)
        /\ RxShift(1) /\ HostStays
        /\ Transmit /\ UNCHANGED wire
        /\ frame' = pkt /\ pc # "fast"
        /\ Queued' \subseteq Queued
    BY TakesPacket
  <1>2. /\ Acks \in Nat /\ Acks' \in Nat
        /\ Acks' <= Acks + 1
        /\ sent' # Ack("DATA") => Acks' <= Acks
    BY <1>1, DeviceAnswers
  <1>3. Rests \/ Addresses(pkt) \/ Repeating(pkt) \/ Writing(pkt) \/ Beginning(pkt)
    BY <1>1, PacketCases
  <1> HIDE DEF pkt
  <1>4. Positioned /\ Remembered
    BY DEF Transfer
  <1>5. CASE Rests
    <2>1. Positioned' /\ Remembered' /\ Committed' = Committed
      BY <1>1, <1>4, <1>5, SamePosition DEF Rests
    <2>2. RestOfPipeline
      BY <1>1, <1>5, <2>1, PipelineRests, 1 \in Nat DEF Rests
    <2> QED
      BY <1>1, <1>2, <1>5, <2>1, <2>2, Balance DEF Rests
  <1>6. CASE Addresses(pkt)
    <2>1. StartTransfer(APP_START_ADDR) /\ pc' # "fast" /\ sent' # Ack("DATA")
      <3>1. pkt.addr = APP_START_ADDR
        BY <1>1, <1>6, PastAddress DEF Addresses, Queued
      <3> QED
        BY <1>1, <1>6, <3>1 DEF Addresses, Ack
    <2>2. Committed = 0
      BY <1>1, <1>6 DEF Transfer, SetAddrFirst, Addresses
    <2>3. Positioned' /\ Remembered' /\ Committed' = Committed
      BY <1>1, <1>4, <2>1, <2>2, StartPosition
    <2>4. RestOfPipeline
      BY <1>1, <2>1, <2>3, PipelineRests, 1 \in Nat
    <2> QED
      BY <1>1, <1>2, <2>1, <2>3, <2>4, Balance
  <1>7. CASE Repeating(pkt)
    <2>1. Positioned' /\ Remembered' /\ Committed' = Committed
      BY <1>1, <1>4, <1>7, SamePosition DEF Repeating
    <2>2. 1 \in Repeats
      BY <1>1, <1>7, RepeatedFrame DEF Repeating
    <2>3. RestOfPipeline /\ Cardinality(Repeats') + 1 <= Cardinality(Repeats)
      BY <1>1, <1>7, <2>1, <2>2, PipelineRests, 1 \in Nat DEF Repeating
    <2> QED
      BY <1>1, <1>2, <2>1, <2>3, Balance
  <1>8. CASE Writing(pkt)
    <2>1. IsData(pkt) /\ pkt.cmd = options.mode /\ options.mode = "DATA"
      BY <1>1, <1>8, HeadFrame DEF Writing, IsData
    <2>2. pkt = Frame(Committed + 1) /\ Committed + 1 \in Window /\ Committed + 1 <= Top
      BY <1>1, <1>8, <2>1, ExpectedFrame DEF Writing
    <2>3. Committed' = Committed + 1 /\ (Committed' \in 0 .. Top' => Positioned' /\ Remembered')
      BY <1>1, <1>4, <1>8, <2>1, <2>2, WordPosition DEF Writing
    <2>4. ~Busy'
      <3>1. pc' = pc /\ ~Busy
        <4>1. ~Busy
          BY <1>1, PacketAnswer
        <4> QED
          BY <1>8, <4>1 DEF Writing, CommitWord
      <3> QED
        BY <3>1 DEF Busy
    <2>5. RestOfPipeline /\ Committed' \in 0 .. Top'
      BY <1>1, <2>2, <2>3, <2>4, FrameWritten, 1 \in Nat
    <2> QED
      BY <1>1, <1>2, <2>3, <2>5, Balance
  <1>9. CASE Beginning(pkt)
    <2>1. pkt = Frame(Committed + 1) /\ Committed + 1 \in Window /\ Committed + 1 <= Top
      BY <1>1, <1>9, ExpectedFrame DEF Beginning
    <2>2. Positioned' /\ Remembered' /\ Committed' = Committed
      BY <1>1, <1>4, <1>9, SamePosition DEF Beginning
    <2>3. RestOfPipeline
      BY <1>1, <1>9, <2>1, <2>2, FrameBegun DEF Beginning
    <2>4. Acks' <= Acks
      BY <1>2, <1>9 DEF Beginning, NoResponse, Ack
    <2> QED
      BY <1>1, <1>2, <2>2, <2>3, <2>4, Balance
  <1> QED
    BY <1>3, <1>5, <1>6, <1>7, <1>8, <1>9

(* What else the device does while the update is in progress.              *)
LEMMA RunCases ==
    ASSUME TypeOK, pc # "erase", DeviceStep \/ app_request_bootloader_reset,
           runtime_app_state' = "UPDATE_IN_PROGRESS"
    PROVE  CommitFrame \/ Rests
  <1> USE DEF positionVars
  <1>1. \A c, e : Nack(c, e) # Ack("DATA")
    BY DEF Nack, Ack
  <1>2. Ack("CRC") # Ack("DATA") /\ NoResponse # Ack("DATA")
    BY DEF Ack, NoResponse
  <1>3. CASE BoardFails \/ Startup \/ WaitTimeout \/ bootloader_jump_to_app
             \/ app_request_bootloader_reset
    BY <1>2, <1>3 DEF BoardFails, Startup, WaitTimeout, bootloader_jump_to_app, StartApp,
       app_request_bootloader_reset, Rests
  <1>4. CASE EraseNextSector \/ EraseLastSector \/ EraseFails
    BY <1>4 DEF EraseNextSector, EraseLastSector, EraseFails
  <1>5. CASE FrameFails
    BY <1>1, <1>5 DEF FrameFails, Rests
  <1>6. CASE WriteNextMetadata \/ WriteLastMetadata \/ MetadataFails
    BY <1>1, <1>2, <1>6 DEF WriteNextMetadata, WriteLastMetadata, MetadataFails, Rests
  <1>7. CASE SystemReset
    BY <1>7 DEF SystemReset, Restart, RamReset
  <1> QED
    BY <1>3, <1>4, <1>5, <1>6, <1>7 DEF DeviceStep

LEMMA RunsBus ==
    ASSUME HostTypeOK, FaultsOK, BusTypeOK, DeviceRuns
    PROVE  /\ HostStays
           /\ (rx' = rx /\ RxShift(0)) \/ (rx' = <<>> /\ RxShift(Len(rx)) /\ Len(rx) \in Nat)
           /\ Acks \in Nat /\ Acks' \in Nat /\ Acks' <= Acks + 1
           /\ sent' # Ack("DATA") => Acks' <= Acks
           /\ rx' # rx => Leaves
           /\ DeviceStep \/ app_request_bootloader_reset
  <1>1. /\ UNCHANGED <<wire, hostVars>>
        /\ (Leaves /\ CanReset) \/ (Transmit /\ UNCHANGED rx)
        /\ DeviceStep \/ app_request_bootloader_reset
    BY DEF DeviceRuns
  <1>2. faults'["late"] = faults["late"]
    BY DEF DeviceRuns, FaultOnlyIf, Fault, FaultsOK, FaultKinds
  <1>3. HostStays
    BY <1>1, <1>2 DEF HostStays
  <1>4. Len(rx) \in Nat /\ \A i \in DOMAIN rx : i \in Nat /\ i + 0 = i
    BY DEF HostTypeOK
  <1>5. CASE Leaves /\ CanReset
    <2>1. rx' = <<>> /\ Acks \in Nat /\ Acks' \in Nat /\ Acks' <= Acks
      BY <1>1, <1>5, AnswersDropped DEF CanReset
    <2>2. RxShift(Len(rx))
      BY <1>4, <2>1 DEF RxShift
    <2> QED
      BY <1>1, <1>3, <1>4, <1>5, <2>1, <2>2
  <1>6. CASE Transmit /\ UNCHANGED rx
    <2>1. RxShift(0)
      BY <1>4, <1>6 DEF RxShift, HostTypeOK
    <2> QED
      BY <1>1, <1>3, <1>6, <2>1, DeviceAnswers
  <1> QED
    BY <1>1, <1>5, <1>6

LEMMA TransferRuns ==
    ASSUME HostTypeOK, FaultsOK, TypeOK, BusTypeOK, OrderInv,
           item >= FirstData, Transfer, DeviceRuns,
           runtime_app_state' = "UPDATE_IN_PROGRESS"
    PROVE  Transfer'
  <1>1. /\ HostStays
        /\ (rx' = rx /\ RxShift(0)) \/ (rx' = <<>> /\ RxShift(Len(rx)) /\ Len(rx) \in Nat)
        /\ Acks \in Nat /\ Acks' \in Nat /\ Acks' <= Acks + 1
        /\ sent' # Ack("DATA") => Acks' <= Acks
        /\ rx' # rx => Leaves
        /\ DeviceStep \/ app_request_bootloader_reset
    BY RunsBus
  <1>2. CommitFrame \/ Rests
    BY <1>1, PastAddress, RunCases
  <1>3. Positioned /\ Remembered
    BY DEF Transfer
  <1>4. CASE Rests
    <2>1. Positioned' /\ Remembered' /\ Committed' = Committed
      BY <1>1, <1>3, <1>4, SamePosition DEF Rests
    <2>2. Busy' => Busy /\ frame' = frame
      BY <1>1, RunAnswer DEF OrderInv
    <2>3. InFifo' \subseteq InFifo
      BY <1>1 DEF InFifo
    <2>4. Queued' \subseteq Queued
      BY <2>2, <2>3 DEF Queued
    <2>5. RestOfPipeline
      BY <1>1, <1>4, <2>1, <2>4, PipelineRests, 0 \in Nat DEF Rests
    <2> QED
      BY <1>1, <1>4, <2>1, <2>5, Balance DEF Rests
  <1>5. CASE CommitFrame
    <2>1. pc = "fast" /\ pc' = "loop" /\ rx' = rx /\ RxShift(0) /\ ~Busy'
      BY <1>1, <1>5 DEF CommitFrame, Leaves, Busy
    <2>2. /\ frame = Frame(Committed + 1) /\ IsData(frame)
          /\ Committed + 1 \in Window /\ Committed + 1 <= Top
      BY <2>1, FrameUnderWay
    <2>3. frame.cmd = options.mode /\ options.mode # "DATA"
      <3>1. frame.cmd \in {"FAST", "RAW"}
        BY <2>1 DEF TypeOK, FastPacket, RawPacket
      <3>2. options \in Options
        BY DEF HostTypeOK
      <3> QED
        BY <2>2, <3>1, <3>2, FrameIsData DEF Frame
    <2>4. Committed' = Committed + 1 /\ (Committed' \in 0 .. Top' => Positioned' /\ Remembered')
      BY <1>1, <1>3, <1>5, <2>2, <2>3, FramePosition
    <2>5. RestOfPipeline /\ Committed' \in 0 .. Top'
      BY <1>1, <2>1, <2>2, <2>4, FrameWritten, 0 \in Nat
    <2> QED
      BY <1>1, <2>4, <2>5, Balance
  <1> QED
    BY <1>2, <1>4, <1>5

-----------------------------------------------------------------------------
(* The host and the bus in the transfer.                                   *)

(* The host takes an answer or gives up on it: at most the window grows.   *)
LEMMA HostOnly ==
    ASSUME HostTypeOK, FaultsOK, BusTypeOK, FramesToldApart, item >= FirstData, Transfer,
           UNCHANGED <<vars, rx, options>>,
           Told' \in {Told, Told + 1}, Top <= Top', Top' \in Nat,
           options.mode = "RAW" =>
              \/ \A p \in Queued : ~IsData(p)
              \/ Told' = Told /\ (Running' => waiting'),
           options.mode # "RAW" =>
              Told' = Told \/ Told + 1 <= Committed + faults["late"]
    PROVE  /\ Positioned' /\ Remembered' /\ SetAddrFirst' /\ Pipeline'
           /\ Repeats' = Repeats /\ Committed' = Committed
           /\ Frames' = Frames /\ Queued' = Queued
           /\ \A k : Frame(k)' = Frame(k)
  <1>1. /\ Committed' = Committed /\ Frames' = Frames
        /\ Queued' = Queued /\ InFifo' = InFifo
        /\ options' = options /\ pc' = pc /\ frame' = frame /\ rx' = rx
        /\ \A k : Frame(k)' = Frame(k)
    BY DEF Committed, AppSize, Frames, Queued, InFifo, Busy, Frame
  <1>2. Frame(Committed)' = Frame(Committed) /\ Frame(Committed + 1)' = Frame(Committed + 1)
    BY <1>1 DEF Frame
  <1>3. Positioned' /\ Remembered'
    <2>1. Committed \in 0 .. Top'
      BY HostPosition DEF Transfer, Positioned
    <2> QED
      BY <1>1, <1>2, <2>1 DEF Transfer, Positioned, Remembered
  <1>4. SetAddrFirst'
    BY <1>1 DEF Transfer, SetAddrFirst
  <1>5. Repeats' = Repeats
    BY <1>1, <1>2 DEF Repeats
  <1>6. CASE options.mode = "RAW"
    <2>1. RawFrames
      BY <1>6 DEF Transfer, Pipeline
    <2>2. RawFrames'
      BY <1>1, <1>2, <1>6, <2>1 DEF RawFrames
    <2> QED
      BY <1>1, <1>3, <1>4, <1>5, <1>6, <2>2 DEF Pipeline
  <1>7. CASE options.mode # "RAW"
    <2>1. FramesInWindow
      BY <1>7 DEF Transfer, Pipeline
    <2>2. /\ options \in Options /\ Committed \in Nat /\ Told \in Nat /\ Frames \in Nat
          /\ Top \in Nat /\ Top <= Told + 1 /\ faults["late"] \in Nat
          /\ \A k \in Nat : k <= Top => k <= Top'
          /\ Told' + 1 <= Committed + faults["late"] + 1
      <3>1. /\ Committed \in Nat /\ Told <= Committed + Late
            /\ Late \in Nat /\ Late <= faults["late"] /\ faults["late"] \in Nat
        BY Ahead DEF Transfer
      <3>2. /\ options \in Options /\ Told \in Nat /\ Frames \in Nat
            /\ Top \in Nat /\ Top <= Told + 1
        BY HostPosition
      <3>3. Told' = Told \/ (Told' = Told + 1 /\ Told + 1 <= Committed + faults["late"])
        BY <1>7
      <3>4. Told' + 1 <= Committed + faults["late"] + 1
        <4>1. Told + 1 <= Committed + faults["late"] + 1
          BY ONLY <3>1, <3>2
        <4>2. Committed + faults["late"] + 1 = (Committed + faults["late"]) + 1
          OBVIOUS
        <4> QED
          BY ONLY <3>1, <3>2, <3>3, <4>1
      <3>5. \A k \in Nat : k <= Top => k <= Top'
        BY <3>2
      <3> QED
        BY <3>1, <3>2, <3>4, <3>5
    <2>3. Window \subseteq Window'
      BY <1>1, <2>2 DEF Window
    <2>4. ASSUME NEW p, NEW k \in Window, p = Frame(k), NEW l \in Window', p = Frame(l)
          PROVE  l = k
      <3>1. /\ k \in 1 .. FrameCount(options.mode) /\ l \in 1 .. FrameCount(options.mode)
            /\ Committed <= k /\ Committed <= l /\ k <= Told' + 1 /\ l <= Told' + 1
            /\ Told' + 1 \in Nat
        <4>1. Told' \in Nat /\ k <= Told + 1 /\ Committed <= k /\ k \in 1 .. Frames
          BY <2>2, <2>4 DEF Window
        <4>2. l \in 1 .. Frames /\ Committed <= l /\ l <= Told' + 1
          BY <1>1, <2>4 DEF Window
        <4>3. Told <= Told' /\ k \in Nat /\ l \in Nat
          BY ONLY <2>2, <4>1, <4>2, Told' \in {Told, Told + 1}
        <4>4. k <= Told' + 1 /\ Told' + 1 \in Nat
          BY <2>2, <4>1, <4>3, Later
        <4> QED
          BY <4>1, <4>2, <4>4 DEF Frames
      <3>2. DataFrame(options.mode, l) = DataFrame(options.mode, k)
        BY <2>4 DEF Frame
      <3> QED
        BY <1>7, <2>2, <3>1, <3>2, Apart DEF FramesToldApart
    <2>5. \A p \in InFifo' : IsData(p) => \E k \in Window' : k <= Top' /\ p = Frame(k)'
      <3>1. \A k \in Window : k \in Nat
        BY <2>2 DEF Window
      <3> QED
        BY <1>1, <2>1, <2>2, <2>3, <3>1 DEF FramesInWindow
    <2>6. \A i, j \in DOMAIN rx' : \A k, l \in Window' :
             i < j /\ rx'[i] = Frame(k)' /\ rx'[j] = Frame(l)' => k <= l
      <3>1. SUFFICES ASSUME NEW i \in DOMAIN rx, NEW j \in DOMAIN rx,
                            NEW k \in Window', NEW l \in Window',
                            i < j, rx[i] = Frame(k), rx[j] = Frame(l)
                     PROVE  k <= l
        BY <1>1
      <3>2. rx[i] \in InFifo /\ rx[j] \in InFifo /\ IsData(rx[i]) /\ IsData(rx[j])
        BY <2>2, <3>1, FrameIsData DEF InFifo, Frame
      <3>3. PICK k0 \in Window : rx[i] = Frame(k0)
        BY <2>1, <3>2 DEF FramesInWindow
      <3>4. PICK l0 \in Window : rx[j] = Frame(l0)
        BY <2>1, <3>2 DEF FramesInWindow
      <3>5. k = k0 /\ l = l0
        BY <2>4, <3>1, <3>3, <3>4
      <3>6. k0 <= l0
        BY <2>1, <3>1, <3>3, <3>4 DEF FramesInWindow
      <3> QED
        BY <3>5, <3>6
    <2>7. pc' = "fast" =>
            /\ Committed' + 1 <= Top'
            /\ frame' = Frame(Committed + 1)'
            /\ \A p \in InFifo' : Committed' >= 1 => p # Frame(Committed)'
      BY <1>1, <1>2, <2>1, <2>2 DEF FramesInWindow
    <2>8. FramesInWindow'
      BY <2>5, <2>6, <2>7 DEF FramesInWindow
    <2> QED
      BY <1>1, <1>3, <1>4, <1>5, <1>7, <2>8 DEF Pipeline
  <1> QED
    BY <1>6, <1>7

(* Answers move, get lost, or are of no interest.                          *)
LEMMA TransferWire ==
    ASSUME HostTypeOK, FaultsOK, BusTypeOK, item >= FirstData, Transfer,
           BusSends \/ AnswerLost \/ HostIgnores \/ UNCHANGED allVars
    PROVE  Transfer'
  <1>1. HostStays /\ UNCHANGED <<vars, rx>>
    BY DEF BusSends, AnswerLost, HostIgnores, Fault, FaultsOK, FaultKinds, HostStays
  <1>2. Acks \in Nat /\ Acks' \in Nat /\ Acks' <= Acks
    <2>1. CASE BusSends
      BY <2>1, BusMoves
    <2>2. CASE AnswerLost \/ HostIgnores \/ UNCHANGED allVars
      BY <2>2, WireDrops DEF AnswerLost, HostIgnores
    <2> QED
      BY <2>1, <2>2
  <1>3. RxShift(0)
    BY <1>1 DEF RxShift, HostTypeOK
  <1>4. Positioned' /\ Remembered' /\ Committed' = Committed
    BY <1>1, SamePosition DEF Transfer, positionVars
  <1>5. Queued' = Queued
    BY <1>1 DEF Queued, InFifo, Busy
  <1>6. RestOfPipeline
    BY <1>1, <1>3, <1>4, <1>5, PipelineRests, 0 \in Nat
  <1> QED
    BY <1>1, <1>2, <1>4, <1>6, Balance

LEMMA NotTwice ==
    ASSUME HostTypeOK, OrderInv, item >= FirstData, Told < Frames, options.mode = "RAW"
    PROVE  ~Retryable(Script[item]) /\ tries = Retries + 1
  <1>1. Script[item] = Frame(Told + 1) /\ options \in Options
    BY HostPosition
  <1>2. Script[item].cmd = "RAW"
    BY <1>1, FrameIsData DEF Frame
  <1>3. ~Retryable(Script[item])
    BY <1>2 DEF Retryable
  <1> QED
    BY <1>3, UploadAssumption DEF OrderInv, HostTypeOK

(* The host gives up: a repetition of what was written, or is queued, is   *)
(* paid for by the answer that is late.                                    *)
LEMMA TransferGivesUp ==
    ASSUME HostTypeOK, FaultsOK, BusTypeOK, OrderInv, FramesToldApart,
           item >= FirstData, Transfer,
           HostRejected \/ HostTimeout \/ AnswerLate
    PROVE  Transfer'
  <1>1. /\ Running /\ waiting /\ ~waiting'
        /\ UNCHANGED <<vars, rx, mailbox, options, item>>
        /\ \/ UNCHANGED wire
           \/ HostRejected /\ wire # <<>> /\ wire' = Tail(wire)
        /\ \/ ~Running'
           \/ /\ HostTimeout \/ AnswerLate
              /\ Retryable(Script[item])
              /\ tries' = tries - 1 /\ UNCHANGED outcome
    BY DEF HostRejected, HostTimeout, AnswerLate, GiveUpWaiting, Fail, Running
  <1>2. /\ Told \in Nat /\ Frames \in Nat /\ options.mode \in {"FAST", "RAW", "DATA"}
        /\ Committed \in Nat /\ Late \in Nat /\ tries \in Nat /\ tries <= Retries + 1
    BY HostPosition, Ahead, UploadAssumption DEF Transfer, HostTypeOK
  <1>3. Told' = Told /\ Top' = Top /\ Frames' = Frames
    <2>1. Told' = Told /\ Frames' = Frames
      BY <1>1 DEF Told, Acknowledged, FirstData, Frames
    <2>2. Top = IF Told = Frames THEN Told ELSE Told + 1
      BY <1>1 DEF Top
    <2>3. ~(Running' /\ ~waiting' /\ tries' = Retries + 1)
      BY <1>1, <1>2, UploadAssumption
    <2> QED
      BY <2>1, <2>2, <2>3 DEF Top
  <1>4. Acks \in Nat /\ Acks' \in Nat /\ Acks' <= Acks
    BY <1>1, WireDrops
  <1>5. options.mode = "RAW" =>
           (\A p \in Queued : ~IsData(p)) \/ (Told' = Told /\ (Running' => waiting'))
    <2> SUFFICES ASSUME options.mode = "RAW", NEW p \in Queued, IsData(p) PROVE ~Running'
      BY <1>3
    <2>1. Told < Frames
      BY DEF Transfer, Pipeline, RawFrames
    <2> QED
      BY <1>1, <2>1, NotTwice
  <1>6. /\ Positioned' /\ Remembered' /\ SetAddrFirst' /\ Pipeline'
        /\ Repeats' = Repeats /\ Committed' = Committed /\ Queued' = Queued
        /\ \A k : Frame(k)' = Frame(k)
    <2>1. Top <= Top' /\ Top' \in Nat
      BY <1>2, <1>3, HostPosition
    <2>2. Told' \in {Told, Told + 1}
      BY <1>3
    <2> QED
      BY <1>1, <1>3, <1>5, <2>1, <2>2, HostOnly
  <1>7. Told + Cardinality(Repeats) + Acks + (IF RepeatsNext THEN 1 ELSE 0) <= Committed + Late
    BY DEF Transfer, Surplus
  <1>8. ~RepeatsNext
    BY <1>1 DEF RepeatsNext
  <1>9. Late' \in Nat /\ Late <= Late'
    <2>1. UNCHANGED faults \/ Fault("late")
      BY DEF HostRejected, HostTimeout, AnswerLate
    <2>2. faults'["late"] \in Nat /\ faults["late"] <= faults'["late"]
      BY <2>1 DEF Fault, FaultsOK, FaultKinds
    <2> QED
      BY <1>1, <2>2 DEF Late
  <1>10. CASE ~RepeatsNext'
    <2>1. Surplus'
      BY <1>2, <1>3, <1>4, <1>6, <1>7, <1>8, <1>9, <1>10, RepeatsFinite DEF Surplus
    <2> QED
      BY <1>6, <2>1 DEF Transfer
  <1>11. CASE RepeatsNext'
    <2>1. /\ HostTimeout \/ AnswerLate
          /\ options.mode # "RAW"
      <3>1. Running' /\ Told < Frames
        BY <1>3, <1>11 DEF RepeatsNext
      <3> QED
        BY <1>1, <3>1, NotTwice
    <2>2. CASE AnswerLate
      <3>1. Late' = Late + 1
        BY <1>1, <2>1, <2>2 DEF AnswerLate, Fault, FaultsOK, FaultKinds, Late
      <3>2. Surplus'
        BY <1>2, <1>3, <1>4, <1>6, <1>7, <1>8, <1>11, <3>1, RepeatsFinite DEF Surplus
      <3> QED
        BY <1>6, <3>2 DEF Transfer
    <2>3. CASE HostTimeout
      <3>1. rx = <<>> /\ ~Busy /\ Queued = {} /\ Coming = {} /\ Pending = {} /\ wire = <<>>
        BY <2>3, QuietStart DEF HostTimeout, Answering
      <3>2. Repeats = {} /\ WireAcks = {} /\ MailboxAcks = {}
        BY <3>1 DEF Repeats, WireAcks, MailboxAcks
      <3>3. Cardinality(Repeats) = 0 /\ Acks = 0
        BY <3>2, FS_EmptySet DEF Acks
      <3>4. Committed = Told + 1
        BY <1>1, <1>3, <1>6, <1>11, <3>1 DEF RepeatsNext, Frame
      <3>5. Acks' = 0
        BY <1>4, <3>3
      <3>6. Cardinality(Repeats') = 0
        BY <1>6, <3>3, Zenon
      <3>7. Told + 0 + 0 + 1 <= Committed + Late'
        BY <1>2, <1>9, <3>4, Later
      <3>8. Surplus'
        BY <1>3, <1>6, <1>11, <3>5, <3>6, <3>7 DEF Surplus
      <3> QED
        BY <1>6, <3>8 DEF Transfer
    <2> QED
      BY <2>1, <2>2, <2>3
  <1> QED
    BY <1>10, <1>11

(* The packet that is sent is put into the FIFO: the pipeline takes it.    *)
LEMMA PipelineAdds ==
    ASSUME HostTypeOK, FaultsOK, TypeOK, BusTypeOK, OrderInv, FramesToldApart,
           item >= FirstData, Transfer,
           Running, ~waiting, waiting', UNCHANGED <<vars, options, item, tries, outcome>>,
           rx' = FifoAdd(Script[item]),
           Told' = Told, Top <= Top', Top' \in Nat, Told < Frames => Top' = Told + 1
    PROVE  /\ Positioned' /\ Remembered' /\ SetAddrFirst' /\ Pipeline'
           /\ Committed' = Committed
           /\ Cardinality(Repeats') \in Nat
           /\ Cardinality(Repeats') <= Cardinality(Repeats) + 1
           /\ ~RepeatsNext => Cardinality(Repeats') <= Cardinality(Repeats)
  <1> DEFINE pkt == Script[item]
             n   == Len(rx')
  <1>1. /\ options' = options /\ pc' = pc /\ frame' = frame
        /\ Committed' = Committed /\ Frames' = Frames
        /\ \A k : Frame(k)' = Frame(k)
    BY DEF Committed, AppSize, Frames, Frame
  <1>2. Frame(Committed)' = Frame(Committed) /\ Frame(Committed + 1)' = Frame(Committed + 1)
    BY <1>1 DEF Frame
  <1>3. /\ DOMAIN rx' = 1 .. n /\ n \in Nat
        /\ n \in DOMAIN rx' /\ rx'[n] = pkt
        /\ \A i \in DOMAIN rx' : i # n => i \in DOMAIN rx /\ rx'[i] = rx[i]
    BY ItemType, FifoAdded
  <1>4. /\ options \in Options /\ options.mode \in {"FAST", "RAW", "DATA"}
        /\ Told \in Nat /\ Frames \in Nat /\ Committed \in Nat
        /\ Top \in Nat /\ Committed <= Top /\ Top <= Told + 1 /\ faults["late"] \in Nat
        /\ Told + 1 <= Committed + faults["late"] + 1
    <2>1. /\ Committed \in Nat /\ Committed <= Top /\ Told <= Committed + Late
          /\ Late \in Nat /\ Late <= faults["late"] /\ faults["late"] \in Nat
      BY Ahead DEF Transfer
    <2>2. /\ options \in Options /\ options.mode \in {"FAST", "RAW", "DATA"}
          /\ Told \in Nat /\ Frames \in Nat /\ Top \in Nat /\ Top <= Told + 1
      BY HostPosition
    <2>3. Told + 1 <= Committed + faults["late"] + 1
      BY ONLY <2>1, <2>2
    <2> QED
      BY <2>1, <2>2, <2>3
  <1>5. /\ IsData(pkt) => Told < Frames /\ pkt = Frame(Told + 1)
        /\ pkt.cmd # "SET_ADDR"
    <2>1. CASE Told < Frames
      BY <2>1, HostPosition DEF IsData
    <2>2. CASE Told = Frames
      BY <2>2, HostPosition DEF IsData
    <2> QED
      BY <2>1, <2>2, HostPosition
  <1>6. ASSUME Told < Frames
        PROVE  Top = IF tries = Retries + 1 THEN Told ELSE Told + 1
    BY <1>4, <1>6 DEF Top
  <1> HIDE DEF pkt, n
  <1>7. Positioned' /\ Remembered'
    <2>1. Committed \in 0 .. Top'
      BY <1>4 DEF Transfer, Positioned
    <2> QED
      BY <1>1, <1>2, <2>1 DEF Transfer, Positioned, Remembered
  <1>8. \A p \in InFifo' : p = pkt \/ p \in InFifo
    BY <1>3 DEF InFifo
  <1>9. SetAddrFirst'
    BY <1>1, <1>5, <1>8 DEF Transfer, SetAddrFirst
  <1>10. ASSUME options.mode # "RAW", NEW p, NEW k \in Window, p = Frame(k), NEW l \in Window, p = Frame(l)
         PROVE  l = k
    <2>1. /\ k \in 1 .. FrameCount(options.mode) /\ l \in 1 .. FrameCount(options.mode)
          /\ Committed <= k /\ Committed <= l /\ k <= Told + 1 /\ l <= Told + 1
          /\ Told + 1 \in Nat
      BY <1>4, <1>10 DEF Window, Frames
    <2>2. DataFrame(options.mode, l) = DataFrame(options.mode, k)
      BY <1>10 DEF Frame
    <2> QED
      BY <1>4, <1>10, <2>1, <2>2, Apart DEF FramesToldApart
  <1>11. Told < Frames => Told + 1 \in Window
    BY <1>4 DEF Window
  (* When the frame is sent for the first time nothing like it is queued.  *)
  <1>12. ASSUME options.mode # "RAW", Told < Frames,
                \/ Committed >= 1 /\ Frame(Told + 1) = Frame(Committed)
                \/ pc = "fast" /\ Frame(Told + 1) = frame
                \/ Frame(Told + 1) \in InFifo
         PROVE  RepeatsNext
    <2>1. FramesInWindow
      BY <1>12 DEF Transfer, Pipeline
    <2>2. Committed >= 1 => Committed \in Window
      BY <1>4, <1>12 DEF Window
    <2>3. \/ Committed = Told + 1
          \/ Frame(Told + 1) \in Queued
      <3>1. CASE Committed >= 1 /\ Frame(Told + 1) = Frame(Committed)
        BY <1>10, <1>11, <1>12, <2>2, <3>1
      <3>2. CASE pc = "fast" /\ Frame(Told + 1) = frame
        BY <3>2 DEF Queued, Busy
      <3>3. CASE Frame(Told + 1) \in InFifo
        BY <3>3 DEF Queued
      <3> QED
        BY <1>12, <3>1, <3>2, <3>3
    <2>4. tries <= Retries
      <3> SUFFICES ASSUME tries = Retries + 1 PROVE FALSE
        BY UploadAssumption DEF HostTypeOK
      <3>1. Top = Told
        BY <1>6, <1>12
      <3>2. CASE Committed >= 1 /\ Frame(Told + 1) = Frame(Committed)
        <4>1. Committed = Told + 1
          BY <1>10, <1>11, <1>12, <2>2, <3>2
        <4> QED
          BY <1>4, <3>1, <4>1
      <3>3. CASE pc = "fast" /\ Frame(Told + 1) = frame
        <4>1. frame = Frame(Committed + 1) /\ Committed + 1 <= Told
          BY <2>1, <3>1, <3>3 DEF FramesInWindow
        <4>2. Committed + 1 \in Window
          BY <1>4, <1>12, <4>1 DEF Window
        <4>3. Committed + 1 = Told + 1
          BY <1>10, <1>11, <1>12, <3>3, <4>1, <4>2
        <4> QED
          BY <1>4, <4>1, <4>3
      <3>4. CASE Frame(Told + 1) \in InFifo
        <4>1. IsData(Frame(Told + 1))
          BY <1>4, FrameIsData DEF Frame
        <4>2. PICK k \in Window : k <= Top /\ Frame(Told + 1) = Frame(k)
          BY <2>1, <3>4, <4>1 DEF FramesInWindow
        <4>3. k = Told + 1
          BY <1>10, <1>11, <1>12, <4>2
        <4> QED
          BY <1>4, <3>1, <4>2, <4>3
      <3> QED
        BY <1>12, <3>2, <3>3, <3>4
    <2> QED
      BY <1>12, <2>3, <2>4 DEF RepeatsNext
  <1>13. Pipeline'
    <2>1. CASE options.mode = "RAW"
      <3>1. RawFrames
        BY <2>1 DEF Transfer, Pipeline
      <3>2. \A p \in Queued : ~IsData(p)
        BY <3>1 DEF RawFrames
      <3>3. Queued' \subseteq Queued \cup {pkt}
        BY <1>1, <1>8 DEF Queued, Busy
      <3>4. CASE ~IsData(pkt)
        <4>1. RawFrames'
          BY <3>2, <3>3, <3>4 DEF RawFrames
        <4> QED
          BY <1>1, <2>1, <4>1 DEF Pipeline
      <3>5. CASE IsData(pkt)
        <4>1. Committed = Told
          <5>1. tries = Retries + 1
            BY <1>5, <2>1, <3>5, NotTwice
          <5>2. Top = Told
            BY <1>5, <1>6, <3>5, <5>1
          <5>3. Told <= Committed
            BY <2>1, Ahead DEF Transfer
          <5> QED
            BY <1>4, <5>2, <5>3
        <4>2. \A i \in DOMAIN rx' : IsData(rx'[i]) => i = n
          <5>1. \A i \in DOMAIN rx : rx[i] \in Queued
            BY DEF Queued, InFifo
          <5> QED
            BY <1>3, <3>2, <5>1
        <4>3. ~IsData(frame) \/ pc # "fast"
          BY <3>2 DEF Queued, Busy
        <4>4. pc # "fast"
          BY <4>3 DEF TypeOK, FastPacket, RawPacket, IsData
        <4>5. RawFrames'
          BY <1>1, <1>2, <1>5, <3>2, <3>3, <3>5, <4>1, <4>2, <4>4 DEF RawFrames, n
        <4> QED
          BY <1>1, <2>1, <4>5 DEF Pipeline
      <3> QED
        BY <3>4, <3>5
    <2>2. CASE options.mode # "RAW"
      <3>1. FramesInWindow
        BY <2>2 DEF Transfer, Pipeline
      <3>2. Window' = Window
        BY <1>1 DEF Window
      <3>3. \A p \in InFifo' : IsData(p) => \E k \in Window' : k <= Top' /\ p = Frame(k)'
        <4>1. SUFFICES ASSUME NEW p \in InFifo', IsData(p)
                       PROVE  \E k \in Window : k <= Top' /\ p = Frame(k)
          BY <1>1, <3>2
        <4>2. CASE p = pkt
          BY <1>4, <1>5, <1>11, <4>1, <4>2
        <4>3. CASE p \in InFifo
          <5>1. PICK k \in Window : k <= Top /\ p = Frame(k)
            BY <3>1, <4>1, <4>3 DEF FramesInWindow
          <5>2. k \in Nat
            BY <1>4 DEF Window
          <5>3. k <= Top'
            BY <1>4, <5>1, <5>2
          <5> QED
            BY <5>1, <5>3
        <4> QED
          BY <1>8, <4>2, <4>3
      <3>4. \A i, j \in DOMAIN rx' : \A k, l \in Window' :
               i < j /\ rx'[i] = Frame(k)' /\ rx'[j] = Frame(l)' => k <= l
        <4>1. SUFFICES ASSUME NEW i \in DOMAIN rx', NEW j \in DOMAIN rx',
                              NEW k \in Window, NEW l \in Window,
                              i < j, rx'[i] = Frame(k), rx'[j] = Frame(l)
                       PROVE  k <= l
          BY <1>1, <3>2
        <4>2. i # n
          BY <1>3, <4>1
        <4>3. CASE j # n
          BY <1>3, <3>1, <4>1, <4>2, <4>3 DEF FramesInWindow
        <4>4. CASE j = n
          <5>1. IsData(pkt)
            BY <1>3, <1>4, <4>1, <4>4, FrameIsData DEF Frame
          <5>2. l = Told + 1
            BY <1>3, <1>5, <1>10, <1>11, <2>2, <4>1, <4>4, <5>1
          <5> QED
            BY <1>4, <4>1, <5>2 DEF Window
        <4> QED
          BY <4>3, <4>4
      <3>5. pc' = "fast" =>
              /\ Committed' + 1 <= Top'
              /\ frame' = Frame(Committed + 1)'
              /\ \A p \in InFifo' : Committed' >= 1 => p # Frame(Committed)'
        <4>1. SUFFICES ASSUME pc = "fast"
                       PROVE  /\ Committed + 1 <= Top' /\ frame = Frame(Committed + 1)
                              /\ \A p \in InFifo' : Committed >= 1 => p # Frame(Committed)
          BY <1>1, <1>2
        <4>2. /\ Committed + 1 <= Top /\ frame = Frame(Committed + 1)
              /\ \A p \in InFifo : Committed >= 1 => p # Frame(Committed)
          BY <3>1, <4>1 DEF FramesInWindow
        <4>3. Committed + 1 <= Top'
          BY <1>4, <4>2
        <4>4. ASSUME Committed >= 1, pkt = Frame(Committed) PROVE FALSE
          <5>1. IsData(pkt)
            BY <1>4, <4>4, FrameIsData DEF Frame
          <5>2. Committed \in Window
            BY <1>4, <1>5, <4>4, <5>1 DEF Window
          <5>3. Committed = Told + 1
            BY <1>5, <1>10, <1>11, <2>2, <4>4, <5>1, <5>2
          <5> QED
            BY <1>4, <4>2, <5>3
        <4> QED
          BY <1>8, <4>2, <4>3, <4>4
      <3>6. FramesInWindow'
        BY <3>3, <3>4, <3>5 DEF FramesInWindow
      <3> QED
        BY <1>1, <2>2, <3>6 DEF Pipeline
    <2> QED
      BY <2>1, <2>2
  <1>14. ASSUME NEW i \in Repeats', i # n PROVE i \in Repeats
    <2>1. /\ i \in DOMAIN rx' /\ options.mode # "RAW" /\ IsData(rx'[i])
          /\ \/ Committed >= 1 /\ rx'[i] = Frame(Committed)
             \/ pc = "fast" /\ rx'[i] = frame
             \/ \E j \in 1 .. i - 1 : rx'[j] = rx'[i]
      BY <1>1, <1>2, <1>14 DEF Repeats
    <2>2. i \in DOMAIN rx /\ rx'[i] = rx[i]
      BY <1>3, <1>14, <2>1
    <2>3. \A j \in 1 .. i - 1 : rx'[j] = rx[j]
      <3> SUFFICES ASSUME NEW j \in 1 .. i - 1 PROVE rx'[j] = rx[j]
        OBVIOUS
      <3>1. j \in DOMAIN rx' /\ j # n
        BY <1>3, <2>1
      <3> QED
        BY <1>3, <3>1
    <2> QED
      BY <2>1, <2>2, <2>3 DEF Repeats
  <1>15. n \in Repeats' => RepeatsNext
    <2> SUFFICES ASSUME n \in Repeats' PROVE RepeatsNext
      OBVIOUS
    <2>1. /\ options.mode # "RAW" /\ IsData(pkt)
          /\ \/ Committed >= 1 /\ pkt = Frame(Committed)
             \/ pc = "fast" /\ pkt = frame
             \/ \E j \in 1 .. n - 1 : rx'[j] = pkt
      BY <1>1, <1>2, <1>3 DEF Repeats
    <2>2. (\E j \in 1 .. n - 1 : rx'[j] = pkt) => pkt \in InFifo
      <3> SUFFICES ASSUME NEW j \in 1 .. n - 1, rx'[j] = pkt PROVE pkt \in InFifo
        OBVIOUS
      <3>1. j \in DOMAIN rx' /\ j # n
        BY <1>3
      <3> QED
        BY <1>3, <3>1 DEF InFifo
    <2> QED
      BY <1>5, <1>12, <2>1, <2>2
  <1>16. /\ Repeats' \subseteq Repeats \cup {n}
         /\ ~RepeatsNext => Repeats' \subseteq Repeats
    BY <1>14, <1>15
  <1> QED
    BY <1>1, <1>7, <1>9, <1>13, <1>16, RepeatsFinite, OneMore

(* The host sends the next packet, or sends it again.                      *)
LEMMA TransferSends ==
    ASSUME HostTypeOK, FaultsOK, TypeOK, BusTypeOK, OrderInv, FramesToldApart,
           item >= FirstData, Transfer,
           NEW arrives \in BOOLEAN, HostSends(arrives), faults'["late"] = faults["late"]
    PROVE  Transfer'
  <1>1. /\ Running /\ ~waiting /\ waiting'
        /\ UNCHANGED <<vars, mailbox, options, item, tries, outcome>>
        /\ \E k \in 0 .. Len(wire) : wire' = SubSeq(wire, k + 1, Len(wire))
        /\ rx' = FifoAdd(Script[item]) \/ rx' = rx
    BY DEF HostSends
  <1>2. /\ Told \in Nat /\ Frames \in Nat /\ Top \in Nat /\ Top <= Frames /\ Told <= Frames
        /\ Top \in {Told, Told + 1}
        /\ Committed \in Nat /\ Late \in Nat
    BY HostPosition, Ahead DEF Transfer
  <1>3. /\ Told' = Told /\ Frames' = Frames /\ Late' = Late
        /\ Top' = IF Told = Frames THEN Told ELSE Told + 1
    <2>1. Told' = Told /\ Frames' = Frames /\ Late' = Late
      BY <1>1 DEF Told, Acknowledged, FirstData, Frames, Late
    <2> QED
      BY <1>1, <2>1 DEF Top
  <1>4. Top <= Top' /\ Top' \in Nat /\ (Told < Frames => Top' = Told + 1)
    BY <1>2, <1>3
  <1>5. Acks \in Nat /\ Acks' \in Nat /\ Acks' <= Acks
    BY <1>1, WireDrops
  <1>6. /\ Positioned' /\ Remembered' /\ SetAddrFirst' /\ Pipeline'
        /\ Committed' = Committed
        /\ Cardinality(Repeats') \in Nat
        /\ Cardinality(Repeats') <= Cardinality(Repeats) + 1
        /\ ~RepeatsNext => Cardinality(Repeats') <= Cardinality(Repeats)
    <2>1. CASE rx' = FifoAdd(Script[item])
      BY <1>1, <1>3, <1>4, <2>1, PipelineAdds
    <2>2. CASE rx' = rx
      <3>1. Told' \in {Told, Told + 1} /\ (Running' => waiting')
        BY <1>1, <1>3
      <3>2. /\ Positioned' /\ Remembered' /\ SetAddrFirst' /\ Pipeline'
            /\ Committed' = Committed /\ Repeats' = Repeats
        BY <1>1, <1>3, <1>4, <2>2, <3>1, HostOnly
      <3>3. Cardinality(Repeats') = Cardinality(Repeats)
        BY <3>2, Zenon
      <3> QED
        BY <3>2, <3>3, RepeatsFinite
    <2> QED
      BY <1>1, <2>1, <2>2
  <1>7. Told + Cardinality(Repeats) + Acks + (IF RepeatsNext THEN 1 ELSE 0) <= Committed + Late
    BY DEF Transfer, Surplus
  <1>8. ~RepeatsNext'
    BY <1>1 DEF RepeatsNext
  <1>9. Surplus'
    BY <1>2, <1>3, <1>5, <1>6, <1>7, <1>8, RepeatsFinite DEF Surplus
  <1> QED
    BY <1>6, <1>9 DEF Transfer

(* The host takes an answer.                                               *)
LEMMA DataAnswer ==
    ASSUME NEW r \in Responses, r.type = "ACK", NEW c \in {"DATA", "SET_ADDR"}, r.cmd = c
    PROVE  r = Ack(c)
  BY DEF Responses, Ack, AppPingReply, AppResetReply

LEMMA Advanced ==
    ASSUME HostTypeOK, HostAccept, item >= LastInfo
    PROVE  /\ waiting' = FALSE /\ UNCHANGED options
           /\ \/ Running' /\ item' = item + 1 /\ tries' = Retries + 1
              \/ ~Running' /\ item' = item
  <1>1. Script[item].cmd = "PING" => FALSE
    BY ScriptLength DEF LastInfo
  <1>2. Fail \/ Advance(item + 1)
    BY <1>1 DEF HostAccept, LastInfo
  <1> QED
    BY <1>2 DEF HostAccept, Fail, Advance, Running

LEMMA TransferAccepts ==
    ASSUME HostTypeOK, FaultsOK, BusTypeOK, OrderInv, FramesToldApart,
           item >= FirstData, Transfer, HostAccept
    PROVE  Transfer'
  <1>1. /\ Running /\ waiting /\ ~waiting'
        /\ UNCHANGED <<vars, rx, mailbox, options, faults>>
        /\ wire # <<>> /\ wire' = Tail(wire)
        /\ \/ Running' /\ item' = item + 1 /\ tries' = Retries + 1
           \/ ~Running' /\ item' = item
    <2>1. item >= LastInfo
      BY HostPosition DEF LastInfo
    <2> QED
      BY <2>1, Advanced DEF HostAccept
  <1>2. /\ Told \in Nat /\ Frames \in Nat /\ Told <= Frames
        /\ options.mode \in {"FAST", "RAW", "DATA"} /\ item \in Nat
        /\ FirstData \in {11, 12} /\ Acknowledged \in Nat
        /\ Committed \in Nat /\ Late \in Nat /\ Late <= faults["late"] /\ faults["late"] \in Nat
        /\ Cardinality(Repeats) \in Nat
        /\ options.mode = "RAW" => Late = 0
    BY HostPosition, Ahead, RepeatsFinite DEF Transfer, Late
  <1>3. /\ Frames' = Frames /\ Late' = Late /\ FirstData' = FirstData
        /\ Acknowledged' = item' - FirstData /\ Acknowledged = item - FirstData
    BY <1>1 DEF Frames, Late, FirstData, Acknowledged
  <1>4. Acks \in Nat /\ Acks' \in Nat /\ Acks' <= Acks
    BY <1>1, WireDrops
  <1>5. Told + Cardinality(Repeats) + Acks + (IF RepeatsNext THEN 1 ELSE 0) <= Committed + Late
    BY DEF Transfer, Surplus
  <1>6. ~RepeatsNext'
    BY <1>1, UploadAssumption DEF RepeatsNext
  <1>7. /\ Told' \in {Told, Told + 1} /\ Told' <= Frames
        /\ Top' = Top /\ Top \in Nat
        /\ Told' + Acks' <= Told + Acks
        /\ Told' = Told \/ Acks >= 1
    <2>1. CASE Told = Frames
      <3>1. Acknowledged >= Frames /\ Acknowledged' >= Frames
        BY <1>1, <1>2, <1>3, <2>1 DEF Told
      <3>2. Told' = Told
        BY <1>2, <1>3, <2>1, <3>1 DEF Told
      <3>3. Top = Told /\ Top' = Told
        BY <1>3, <2>1, <3>2 DEF Top
      <3>4. Told' + Acks' <= Told + Acks
        BY <1>2, <1>4, <3>2, Read
      <3> QED
        BY <1>2, <3>2, <3>3, <3>4
    <2>2. CASE Told < Frames
      <3>1. Told = Acknowledged /\ Top = Told + 1
        <4>1. Told = Acknowledged /\ Told # Frames
          BY <1>2, <2>2 DEF Told
        <4> QED
          BY <1>1, <4>1 DEF Top
      <3>2. Head(wire) = Ack("DATA")
        <4>1. /\ Head(wire) \in Responses /\ Head(wire).type = "ACK"
              /\ Head(wire).cmd = ResponseCmd(Script[item])
          BY AcceptedAnswer
        <4>2. ResponseCmd(Script[item]) = "DATA"
          BY <2>2, HostPosition DEF ResponseCmd, IsData
        <4> QED
          BY <4>1, <4>2, DataAnswer
      <3>3. Acks' + 1 <= Acks
        BY <1>1, <3>2, WireRead
      <3>4. CASE Running' /\ item' = item + 1 /\ tries' = Retries + 1
        <4>1. Acknowledged' = Told + 1
          BY <1>2, <1>3, <3>1, <3>4
        <4>2. Told' = Told + 1
          BY <1>2, <1>3, <2>2, <4>1 DEF Told
        <4>3. Top' = Told + 1
          BY <1>1, <1>3, <3>4, <4>2 DEF Top
        <4>4. Told' + Acks' <= Told + Acks /\ Acks >= 1
          BY <1>2, <1>4, <3>3, <4>2, Read
        <4>5. Told + 1 <= Frames /\ Told + 1 \in Nat
          BY <1>2, <2>2
        <4> QED
          BY <3>1, <4>2, <4>3, <4>4, <4>5
      <3>5. CASE ~Running' /\ item' = item
        <4>1. Told' = Told
          BY <1>3, <3>5 DEF Told
        <4>2. Top' = Told + 1
          BY <1>2, <1>3, <2>2, <3>5, <4>1 DEF Top
        <4>3. Told' + Acks' <= Told + Acks
          BY <1>2, <1>4, <3>3, <4>1, Read
        <4>4. Told + 1 \in Nat
          BY <1>2
        <4> QED
          BY <1>2, <3>1, <4>1, <4>2, <4>3, <4>4
      <3> QED
        BY <1>1, <3>4, <3>5
    <2> QED
      BY <1>2, <2>1, <2>2
  (* A raw frame that is queued is not written, and was not acknowledged.  *)
  <1>8. ASSUME options.mode = "RAW", NEW p \in Queued, IsData(p) PROVE FALSE
    <2>1. Told < Frames /\ Committed = Told
      BY <1>8 DEF Transfer, Pipeline, RawFrames
    <2>2. Head(wire) = Ack("DATA")
      <3>1. /\ Head(wire) \in Responses /\ Head(wire).type = "ACK"
            /\ Head(wire).cmd = ResponseCmd(Script[item])
        BY AcceptedAnswer
      <3>2. ResponseCmd(Script[item]) = "DATA"
        BY <2>1, HostPosition DEF ResponseCmd, IsData
      <3> QED
        BY <3>1, <3>2, DataAnswer
    <2>3. Acks' + 1 <= Acks
      BY <1>1, <2>2, WireRead
    <2>4. Late = 0
      BY <1>2, <1>8
    <2>5. /\ Acks = 0
      <3>1. (IF RepeatsNext THEN 1 ELSE 0) \in Nat
        OBVIOUS
      <3>2. Committed + Late = Told + 0 /\ Told + 0 \in Nat
        BY <1>2, <2>1, <2>4
      <3> QED
        BY <1>2, <1>4, <1>5, <3>1, <3>2, Sums
    <2> QED
      BY <1>4, <2>3, <2>5, Read
  <1>9. options.mode # "RAW" => Told' = Told \/ Told + 1 <= Committed + faults["late"]
    <2>1. Acks >= 1 => Told + 1 <= Committed + Late
      <3>1. (IF RepeatsNext THEN 1 ELSE 0) \in Nat /\ Committed + Late \in Nat
        BY <1>2
      <3> QED
        BY <1>2, <1>4, <1>5, <3>1, Sums
    <2>2. Committed + Late <= Committed + faults["late"]
      BY <1>2
    <2>3. Acks >= 1 => Told + 1 <= Committed + faults["late"]
      BY <1>2, <2>1, <2>2
    <2> QED
      BY <1>7, <2>3
  <1>10. Top <= Top'
    BY <1>7
  <1>11. /\ Positioned' /\ Remembered' /\ SetAddrFirst' /\ Pipeline'
         /\ Repeats' = Repeats /\ Committed' = Committed
    BY <1>1, <1>7, <1>8, <1>9, <1>10, HostOnly
  <1>12. Cardinality(Repeats') = Cardinality(Repeats)
    BY <1>11, Zenon
  <1>13. Told' + Cardinality(Repeats) + Acks' + 0 <= Committed + Late
    <2>1. (IF RepeatsNext THEN 1 ELSE 0) \in Nat /\ Committed + Late \in Nat /\ Told' \in Nat
      BY <1>2, <1>7
    <2> QED
      BY <1>2, <1>4, <1>5, <1>7, <2>1, SumsRead
  <1>14. Surplus'
    BY <1>3, <1>6, <1>11, <1>12, <1>13 DEF Surplus
  <1> QED
    BY <1>11, <1>14 DEF Transfer

(* The host takes the acknowledgement of the address.                      *)
LEMMA AddressTaken ==
    ASSUME HostTypeOK, BusTypeOK, OrderInv, FreshInv, item = FirstData - 1, HostAccept
    PROVE  Fresh
  <1>1. /\ options \in Options /\ Script = Scripts[options] /\ FirstData = DataFrom(options)
    BY DEF HostTypeOK, Script, FirstData, DataFrom
  <1>2. Script[item].cmd = "SET_ADDR"
    BY <1>1, ScriptShape DEF SetAddrPacketSent
  <1>3. /\ Head(wire) \in Responses /\ Head(wire).type = "ACK" /\ Head(wire) \in Coming
        /\ Head(wire).cmd = ResponseCmd(Script[item])
    BY AcceptedAnswer
  <1>4. Head(wire) = Ack("SET_ADDR")
    BY <1>2, <1>3, DataAnswer DEF ResponseCmd
  <1> QED
    BY <1>3, <1>4 DEF FreshInv

(* The transfer starts with nothing written, remembered, or on its way.    *)
LEMMA TransferStarts ==
    ASSUME HostTypeOK, FaultsOK, TypeOK, BusTypeOK, OrderInv, FreshInv,
           item = FirstData - 1, HostAccept, item' >= FirstData'
    PROVE  Transfer'
  <1> DEFINE o == options
  <1>1. /\ o \in Options /\ item \in 1 .. Len(Scripts[o]) /\ Script = Scripts[o]
        /\ FirstData = DataFrom(o) /\ DataFrom(o) \in {11, 12} /\ item \in Nat
        /\ o.mode \in {"FAST", "RAW", "DATA"} /\ FrameCount(o.mode) \in Nat
    BY ScriptType, ScriptShape DEF HostTypeOK, Script, FirstData, DataFrom
  <1>2. /\ UNCHANGED <<vars, rx, mailbox, options, faults>>
        /\ wire # <<>> /\ wire' = Tail(wire) /\ ~waiting'
        /\ Running' /\ item' = item + 1 /\ tries' = Retries + 1
        /\ FirstData' = FirstData
    <2>1. item >= LastInfo
      BY <1>1 DEF LastInfo
    <2>2. /\ ~waiting' /\ UNCHANGED options
          /\ \/ Running' /\ item' = item + 1 /\ tries' = Retries + 1
             \/ ~Running' /\ item' = item
      BY <2>1, Advanced
    <2>3. FirstData' = FirstData
      BY <2>2 DEF FirstData
    <2> QED
      BY <1>1, <2>2, <2>3 DEF HostAccept
  <1>3. Script[item].cmd = "SET_ADDR"
    BY <1>1, ScriptShape DEF SetAddrPacketSent
  <1>4. Fresh
    BY AddressTaken
  <1>5. \A p \in Sent : Stage(p.cmd) <= 4
    <2> SUFFICES ASSUME NEW j \in 1 .. item PROVE Stage(Scripts[o][j].cmd) <= 4
      BY <1>1 DEF Sent
    <2>1. j \in 1 .. Len(Scripts[o]) /\ j <= item
      BY <1>1
    <2>2. Stage(Scripts[o][j].cmd) <= Stage(Scripts[o][item].cmd)
      BY <1>1, <2>1, ScriptInOrder
    <2> QED
      BY <1>1, <1>3, <2>2 DEF Stage
  <1>6. /\ \A p \in Queued : ~IsData(p)
        /\ \A r \in Coming : r # Ack("DATA")
    <2>1. \A p \in Sent : ~IsData(p)
      BY <1>5, DataStage
    <2>2. \A p \in Sent : ResponseCmd(p) # "DATA"
      BY <2>1 DEF ResponseCmd, IsData
    <2>3. Ack("DATA").cmd = "DATA"
      BY DEF Ack
    <2> QED
      BY <2>1, <2>2, <2>3 DEF OrderInv
  <1>7. pc # "fast"
    BY <1>6 DEF TypeOK, FastPacket, RawPacket, IsData, Queued, Busy
  <1>8. /\ Queued' = Queued /\ InFifo' = InFifo /\ Coming' \subseteq Coming
        /\ DOMAIN rx' = DOMAIN rx /\ \A i \in DOMAIN rx : rx'[i] \in Queued
    BY <1>2, WireEffect DEF Queued, InFifo, Busy
  <1>9. /\ Frames' = Frames /\ Frames \in Nat /\ Told' = 0
        /\ Top' \in Nat /\ Late' \in Nat
    <2>1. Frames' = Frames /\ Frames \in Nat /\ Acknowledged' = 0
      BY <1>1, <1>2 DEF Frames, Acknowledged
    <2>2. Told' = 0
      BY <2>1 DEF Told
    <2>3. Top' \in Nat
      BY <2>2 DEF Top
    <2>4. Late' \in Nat
      BY <1>2 DEF Late, FaultsOK, FaultKinds
    <2> QED
      BY <2>1, <2>2, <2>3, <2>4
  <1>10. Committed' = 0
    <2>1. current_write_addr' = APP_START_ADDR + FrameWords(o.mode) * 0
      BY <1>2, <1>4, LayoutAssumption DEF Fresh, FrameWords
    <2>2. (current_write_addr' - APP_START_ADDR) \div FrameWords(o.mode) = 0
      BY <1>1, <2>1, FramesWritten, 0 \in Nat
    <2> QED
      BY <1>2, <2>2 DEF Committed, AppSize
  <1>11. Positioned'
    <2>1. 0 % FastSeqMod = 0 /\ 0 % LegacySeqMod = 0
      BY SequenceAssumption
    <2>2. current_write_addr' = APP_START_ADDR + FrameWords(o.mode) * 0
      BY <1>2, <1>4, LayoutAssumption DEF Fresh, FrameWords
    <2> QED
      BY <1>2, <1>4, <1>9, <1>10, <2>1, <2>2 DEF Positioned, Fresh
  <1>12. Remembered' /\ SetAddrFirst'
    BY <1>2, <1>4, <1>10 DEF Remembered, Fresh, SetAddrFirst
  <1>13. Pipeline'
    <2>1. RawFrames'
      BY <1>6, <1>8 DEF RawFrames
    <2>2. FramesInWindow'
      <3>1. \A p \in InFifo' : ~IsData(p)
        BY <1>6, <1>8 DEF Queued
      <3>2. \A i \in DOMAIN rx' : \A k : rx'[i] # Frame(k)'
        <4>1. \A i \in DOMAIN rx' : ~IsData(rx'[i])
          BY <1>6, <1>8
        <4>2. \A k : IsData(Frame(k)')
          BY <1>1, <1>2, FrameIsData DEF Frame
        <4> QED
          BY <4>1, <4>2
      <3> QED
        BY <1>2, <1>7, <3>1, <3>2 DEF FramesInWindow
    <2> QED
      BY <2>1, <2>2 DEF Pipeline
  <1>14. Repeats' = {} /\ WireAcks' = {} /\ MailboxAcks' = {}
    <2>1. Repeats' = {}
      BY <1>6, <1>8 DEF Repeats
    <2>2. \A r \in Coming' : r # Ack("DATA")
      BY <1>6, <1>8
    <2> QED
      BY <2>1, <2>2 DEF WireAcks, MailboxAcks, Coming
  <1>15. Cardinality(Repeats') = 0 /\ Acks' = 0
    BY <1>14, FS_EmptySet DEF Acks
  <1>16. ~RepeatsNext'
    BY <1>2, UploadAssumption DEF RepeatsNext
  <1>17. 0 + 0 + 0 + 0 <= 0 + Late'
    BY <1>9, Read
  <1>18. Surplus'
    BY <1>9, <1>10, <1>15, <1>16, <1>17 DEF Surplus
  <1> QED
    BY <1>11, <1>12, <1>13, <1>18 DEF Transfer

-----------------------------------------------------------------------------
(* While the address is on its way.                                        *)

LEMMA UpToAddress ==
    ASSUME HostTypeOK, NEW p \in Sent
    PROVE  /\ item = FirstData - 1 => Stage(p.cmd) <= 4
           /\ item < FirstData - 1 => p.cmd # "SET_ADDR"
           /\ p.cmd = "SET_ADDR" => p.addr = APP_START_ADDR
  <1> DEFINE o == options
  <1>1. /\ o \in Options /\ item \in 1 .. Len(Scripts[o]) /\ Script = Scripts[o]
        /\ FirstData = DataFrom(o) /\ DataFrom(o) \in {11, 12} /\ item \in Nat
        /\ Len(Scripts[o]) \in Nat
    BY ScriptType DEF HostTypeOK, Script, FirstData, DataFrom
  <1>2. PICK j \in 1 .. item : p = Scripts[o][j]
    BY <1>1 DEF Sent
  <1>3. j \in 1 .. Len(Scripts[o]) /\ j <= item
    BY <1>1
  <1>4. Stage(p.cmd) = 4 <=> j = DataFrom(o) - 1
    BY <1>1, <1>2, <1>3, ScriptStage
  <1>5. p.cmd = "SET_ADDR" => Stage(p.cmd) = 4
    BY DEF Stage
  <1>6. item = FirstData - 1 => Stage(p.cmd) <= 4
    <2> SUFFICES ASSUME item = FirstData - 1 PROVE Stage(p.cmd) <= 4
      OBVIOUS
    <2>1. Stage(p.cmd) <= Stage(Scripts[o][item].cmd)
      BY <1>1, <1>2, <1>3, ScriptInOrder
    <2>2. Stage(Scripts[o][item].cmd) = 4
      BY <1>1, ScriptStage
    <2> QED
      BY <2>1, <2>2
  <1>7. p.cmd = "SET_ADDR" => p.addr = APP_START_ADDR
    BY <1>1, <1>2, <1>4, <1>5, ScriptShape DEF SetAddrPacketSent
  <1> QED
    BY <1>1, <1>3, <1>4, <1>5, <1>6, <1>7

(* The device acknowledges an address after it has started from it.        *)
LEMMA AddressAcknowledged ==
    ASSUME TypeOK, NEW pkt \in Packets, sent' = Ack("SET_ADDR"),
           WaitReceive(pkt) \/ bootloader_handle_packet(pkt) \/ AppHandles(pkt)
    PROVE  pkt.cmd = "SET_ADDR" /\ StartTransfer(pkt.addr)
  <1>1. Ack("SET_ADDR").cmd = "SET_ADDR" /\ Ack("SET_ADDR").type = "ACK"
        /\ Ack("SET_ADDR") # NoResponse
    BY DEF Ack, NoResponse
  <1>2. pkt.cmd = "SET_ADDR"
    BY <1>1, PacketAnswer DEF Answer, ResponseCmd
  <1>3. \A c, e : Nack(c, e) # Ack("SET_ADDR")
    BY DEF Nack, Ack
  <1>4. ~WaitReceive(pkt)
    BY <1>1, <1>2 DEF WaitReceive
  <1>5. ~AppHandles(pkt)
    BY <1>1, <1>2, <1>3 DEF AppHandles, app_can_poll, app_handle_bootloader_can_command, AppPing,
       AppReset, AppOther, ExampleReset
  <1>6. HandleSetAddr(pkt)
    BY <1>2, <1>4, <1>5 DEF bootloader_handle_packet, HandlePing, HandleInfo, HandleErase,
       HandleData, HandleFast, HandleCrc, HandleBoot, HandleReset, HandleOther
  <1> QED
    BY <1>2, <1>3, <1>6 DEF HandleSetAddr

LEMMA StillFresh ==
    ASSUME Fresh, UNCHANGED positionVars
    PROVE  Fresh'
  BY DEF Fresh, positionVars

LEMMA FreshStart == StartTransfer(APP_START_ADDR) => Fresh'
  BY DEF StartTransfer, Fresh, NoFast, NoLegacy

LEMMA FreshReceive ==
    ASSUME HostTypeOK, TypeOK, BusTypeOK, OrderInv, FreshInv, DeviceReceive,
           item = FirstData - 1, Ack("SET_ADDR") \in Coming'
    PROVE  Fresh'
  <1> DEFINE pkt == Head(rx)
  <1>1. /\ pkt \in Packets /\ pkt \in InFifo /\ pkt \in Queued
        /\ WaitReceive(pkt) \/ bootloader_handle_packet(pkt) \/ AppHandles(pkt)
        /\ Transmit /\ UNCHANGED wire /\ pc # "fast"
    BY TakesPacket DEF Queued
  <1> HIDE DEF pkt
  <1>2. sent' # NoResponse => sent' \in Responses
    BY <1>1, PacketAnswer DEF Answer
  <1>3. Ack("SET_ADDR") \in Coming \/ sent' = Ack("SET_ADDR")
    BY <1>1, <1>2, TransmitEffect
  <1>4. pkt \in Sent
    BY <1>1 DEF OrderInv
  <1>5. pkt.cmd = "SET_ADDR" => pkt.addr = APP_START_ADDR
    BY <1>4, UpToAddress
  <1>6. CASE sent' = Ack("SET_ADDR")
    BY <1>1, <1>5, <1>6, AddressAcknowledged, FreshStart
  <1>7. CASE Ack("SET_ADDR") \in Coming
    <2>1. Fresh
      BY <1>7 DEF FreshInv
    <2>2. pkt.cmd = "SET_ADDR"
      <3>1. Stage(Ack("SET_ADDR").cmd) <= Stage(pkt.cmd) /\ Stage(pkt.cmd) <= 4
        BY <1>1, <1>4, <1>7, UpToAddress DEF OrderInv
      <3>2. Stage(Ack("SET_ADDR").cmd) = 4
        BY DEF Ack, Stage
      <3>3. Stage(pkt.cmd) = 4
        BY <3>1, <3>2, StageType
      <3> QED
        BY <3>3 DEF Stage
    <2>3. Rests \/ Addresses(pkt)
      BY <1>1, <2>2, PacketCases DEF Repeating, Writing, Beginning, IsData
    <2> QED
      BY <1>5, <2>1, <2>2, <2>3, StillFresh, FreshStart DEF Rests, Addresses
  <1> QED
    BY <1>3, <1>6, <1>7

LEMMA FreshRuns ==
    ASSUME HostTypeOK, TypeOK, BusTypeOK, OrderInv, FreshInv, DeviceRuns,
           item = FirstData - 1, Ack("SET_ADDR") \in Coming'
    PROVE  Fresh'
  <1>1. /\ DeviceStep \/ app_request_bootloader_reset
        /\ UNCHANGED wire
        /\ CanReset \/ Transmit
    BY DEF DeviceRuns
  <1>2. sent' # NoResponse => Busy /\ sent' \in Responses /\ sent'.cmd = ResponseCmd(frame)
    BY <1>1, RunAnswer DEF OrderInv, Answer
  <1>3. Ack("SET_ADDR") \in Coming \/ sent' = Ack("SET_ADDR")
    BY <1>1, <1>2, TransmitEffect, CanResetEffect
  <1>4. Busy => frame.cmd \in {"ERASE", "FAST", "RAW", "CRC"} /\ frame \in Queued
    BY DEF Busy, OrderInv, TypeOK, FastPacket, RawPacket, CrcPacket, Queued
  <1>5. sent' # Ack("SET_ADDR")
    BY <1>2, <1>4 DEF Ack, NoResponse, ResponseCmd
  <1>6. Ack("SET_ADDR") \in Coming /\ Fresh
    BY <1>3, <1>5 DEF FreshInv
  <1>7. ~Busy
    <2> SUFFICES ASSUME Busy PROVE FALSE
      OBVIOUS
    <2>1. Stage(Ack("SET_ADDR").cmd) <= Stage(frame.cmd) /\ frame \in Sent
      BY <1>4, <1>6 DEF OrderInv
    <2>2. Stage(Ack("SET_ADDR").cmd) = 4 /\ Stage(frame.cmd) <= 4 /\ Stage(frame.cmd) \in 1 .. 7
      BY <2>1, UpToAddress, StageType DEF Ack, Stage
    <2>3. Stage(frame.cmd) = 4
      BY <2>1, <2>2
    <2> QED
      BY <1>4, <2>3 DEF Stage
  <1>8. \/ UNCHANGED positionVars
        \/ RamReset
    BY <1>1, <1>7 DEF Busy, positionVars, DeviceStep, BoardFails, Startup, WaitTimeout,
       EraseNextSector, EraseLastSector, EraseFails, CommitFrame, FrameFails, WriteNextMetadata,
       WriteLastMetadata, MetadataFails, bootloader_jump_to_app, SystemReset, Restart,
       app_request_bootloader_reset
  <1> QED
    BY <1>6, <1>8, StillFresh DEF RamReset, Fresh, NoFast, NoLegacy

LEMMA FreshNext ==
    ASSUME HostTypeOK, TypeOK, BusTypeOK, OrderInv, FreshInv,
           [UploadNext]_allVars, NextSession => ~Answering
    PROVE  FreshInv'
  <1> SUFFICES ASSUME item' = FirstData' - 1, Ack("SET_ADDR") \in Coming'
               PROVE  Fresh'
    BY DEF FreshInv
  <1>1. FirstData' \in {11, 12} /\ FirstData \in {11, 12} /\ item \in Nat
    BY ScriptLength DEF FirstData
  <1>2. CASE NextSession
    <2>1. item' = 1
      BY <1>2 DEF NextSession, HostStartsAgain
    <2>2. FirstData' - 1 \in {10, 11}
      BY <1>1
    <2> QED
      BY <2>1, <2>2
  <1>3. CASE HostAccept
    <2>1. /\ Coming' \subseteq Coming /\ UNCHANGED <<vars, options>>
          /\ item' >= item /\ item' \in Nat
      BY <1>3, AcceptedAnswer, ScriptLength
    <2>2. FirstData' = FirstData
      BY <2>1 DEF FirstData
    <2>3. item = FirstData - 1
      <3> SUFFICES ASSUME item < FirstData - 1 PROVE FALSE
        BY <1>1, <2>1, <2>2
      <3>1. PICK p \in Sent : Ack("SET_ADDR").cmd = ResponseCmd(p)
        BY <2>1 DEF OrderInv
      <3>2. p.cmd = "SET_ADDR"
        BY <3>1 DEF ResponseCmd, Ack
      <3> QED
        BY <3>2, UpToAddress
    <2> QED
      BY <2>1, <2>3, StillFresh DEF FreshInv, positionVars
  <1>4. CASE DeviceReceive
    <2>1. item = FirstData - 1
      BY <1>4 DEF DeviceReceive, FirstData
    <2> QED
      BY <1>4, <2>1, FreshReceive
  <1>5. CASE DeviceRuns
    <2>1. item = FirstData - 1
      BY <1>5 DEF DeviceRuns, FirstData
    <2> QED
      BY <1>5, <2>1, FreshRuns
  <1>6. CASE PowerCycle \/ PowerLost
    <2>1. RamReset
      BY <1>6 DEF PowerCycle, PowerLost, PowerLoss, Restart
    <2> QED
      BY <2>1 DEF RamReset, Fresh, NoFast, NoLegacy
  <1>7. ASSUME UNCHANGED <<vars, options, item>>, Coming' \subseteq Coming
        PROVE  Fresh'
    BY <1>7, StillFresh DEF FreshInv, FirstData, positionVars
  <1>8. CASE BusSends \/ AnswerLost \/ HostIgnores \/ UNCHANGED allVars
    BY <1>7, <1>8, OrderWire DEF BusSends, AnswerLost, HostIgnores
  <1>9. CASE \E arrives \in BOOLEAN : HostSends(arrives)
    BY <1>7, <1>9, OrderSends DEF HostSends
  <1>10. CASE HostRejected \/ GiveUpWaiting
    BY <1>7, <1>10, OrderGivesUp DEF HostRejected, GiveUpWaiting, Fail
  <1> QED
    BY <1>2, <1>3, <1>4, <1>5, <1>6, <1>8, <1>9, <1>10, StepCases

-----------------------------------------------------------------------------
(* Every step.                                                             *)

(* The transfer is in progress on the device as long as the host is in it. *)
LEMMA ProgressReceive ==
    ASSUME TypeOK, HostTypeOK, OrderInv, DeviceReceive, runtime_app_state' = "UPDATE_IN_PROGRESS"
    PROVE  runtime_app_state = "UPDATE_IN_PROGRESS"
  <1> DEFINE pkt == Head(rx)
  <1>1. WaitReceive(pkt) \/ bootloader_handle_packet(pkt) \/ AppHandles(pkt)
    BY DEF DeviceReceive
  <1> HIDE DEF pkt
  <1> QED
    BY <1>1 DEF WaitReceive, bootloader_handle_packet, HandlePing, HandleInfo, HandleErase,
       HandleSetAddr, HandleData, CommitWord, HandleFast, HandleCrc, HandleBoot, HandleReset,
       HandleOther, AppHandles, app_can_poll, app_handle_bootloader_can_command, AppPing,
       AppReset, AppOther, ExampleReset

LEMMA ProgressRuns ==
    ASSUME TypeOK, pc # "erase", DeviceStep \/ app_request_bootloader_reset,
           runtime_app_state' = "UPDATE_IN_PROGRESS"
    PROVE  runtime_app_state = "UPDATE_IN_PROGRESS"
  BY DEF DeviceStep, BoardFails, Startup, WaitTimeout, EraseNextSector, EraseLastSector,
     EraseFails, CommitFrame, FrameFails, WriteNextMetadata, WriteLastMetadata, MetadataFails,
     bootloader_jump_to_app, SystemReset, Restart, RamReset, app_request_bootloader_reset

LEMMA StepsOn ==
    ASSUME HostTypeOK, HostAccept, item' >= FirstData', item < FirstData
    PROVE  item = FirstData - 1
  <1>1. item \in Nat /\ FirstData \in {11, 12} /\ FirstData' = FirstData
        /\ item' \in {item, item + 1, 2, 4}
    BY ScriptLength DEF HostAccept, Advance, Fail, FirstData
  <1> QED
    BY <1>1

LEMMA TransferNext ==
    ASSUME HostTypeOK, FaultsOK, TypeOK, BusTypeOK, OrderInv, FramesToldApart,
           FreshInv, TransferInv, [UploadNext]_allVars
    PROVE  TransferInv'
  <1> SUFFICES ASSUME item' >= FirstData', runtime_app_state' = "UPDATE_IN_PROGRESS"
               PROVE  Transfer'
    BY DEF TransferInv, InTransfer
  <1>1. FirstData \in {11, 12} /\ FirstData' \in {11, 12}
    BY DEF FirstData
  <1>2. CASE NextSession
    <2>1. item' = 1
      BY <1>2 DEF NextSession, HostStartsAgain
    <2> QED
      BY <1>1, <2>1
  <1>3. CASE HostAccept
    <2>1. CASE item >= FirstData
      BY <1>3, <2>1, TransferAccepts DEF TransferInv, InTransfer, HostAccept
    <2>2. CASE item < FirstData
      BY <1>3, <2>2, StepsOn, TransferStarts
    <2> QED
      BY <1>1, <2>1, <2>2, ScriptLength
  <1>4. CASE DeviceReceive
    <2>1. item >= FirstData
      BY <1>4 DEF DeviceReceive, FirstData
    <2> QED
      BY <1>4, <2>1, ProgressReceive, TransferReceive DEF TransferInv, InTransfer
  <1>5. CASE DeviceRuns
    <2>1. item >= FirstData /\ (DeviceStep \/ app_request_bootloader_reset)
      BY <1>5 DEF DeviceRuns, FirstData
    <2> QED
      BY <1>5, <2>1, PastAddress, ProgressRuns, TransferRuns DEF TransferInv, InTransfer
  <1>6. CASE PowerCycle \/ PowerLost
    BY <1>6 DEF PowerCycle, PowerLost, PowerLoss, Restart, RamReset
  <1>7. ASSUME UNCHANGED <<vars, options, item>>
        PROVE  item >= FirstData /\ Transfer
    BY <1>7 DEF FirstData, TransferInv, InTransfer
  <1>8. CASE BusSends \/ AnswerLost \/ HostIgnores \/ UNCHANGED allVars
    BY <1>7, <1>8, TransferWire DEF BusSends, AnswerLost, HostIgnores
  <1>9. CASE HostSend \/ FrameLost
    <2>1. PICK arrives \in BOOLEAN : HostSends(arrives)
      BY <1>9 DEF HostSend, FrameLost
    <2>2. faults'["late"] = faults["late"]
      BY <1>9 DEF HostSend, FrameLost, Fault, FaultsOK, FaultKinds
    <2>3. item >= FirstData /\ Transfer
      BY <1>7, <2>1 DEF HostSends
    <2> QED
      BY <2>1, <2>2, <2>3, TransferSends
  <1>10. CASE HostRejected \/ HostTimeout \/ AnswerLate
    <2>1. item >= FirstData /\ Transfer
      BY <1>7, <1>10 DEF HostRejected, HostTimeout, AnswerLate, GiveUpWaiting, Fail
    <2> QED
      BY <1>10, <2>1, TransferGivesUp
  <1> QED
    BY <1>2, <1>3, <1>4, <1>5, <1>6, <1>8, <1>9, <1>10 DEF UploadNext, HostStep

LEMMA FlowInit == UploadInit => FlowInv
  <1> SUFFICES ASSUME UploadInit PROVE FreshInv /\ TransferInv
    BY DEF FlowInv
  <1>1. item = 1 /\ FirstData \in {11, 12}
    BY DEF UploadInit, HostStarts, FirstData
  <1> QED
    BY <1>1 DEF FreshInv, TransferInv, InTransfer

LEMMA FlowNext ==
    ASSUME FramesToldApart, SystemInv, SessionInv, FlowInv,
           [UploadNext /\ StartsQuietly]_allVars
    PROVE  FlowInv'
  <1>1. [UploadNext]_allVars /\ (NextSession => ~Answering)
    BY NothingLeft DEF SystemInv, SessionInv
  <1>2. HostTypeOK /\ FaultsOK /\ TypeOK
    BY DEF SystemInv, SafetyInv
  <1>3. BusTypeOK /\ OrderInv /\ FreshInv /\ TransferInv
    BY DEF SessionInv, FlowInv
  <1>4. FreshInv'
    BY <1>1, <1>2, <1>3, FreshNext
  <1>5. TransferInv'
    BY <1>1, <1>2, <1>3, TransferNext
  <1> QED
    BY <1>4, <1>5 DEF FlowInv

(* While the device is in the transfer its write address, its expected     *)
(* numbers, the frame it remembers and the frames in the FIFO fit the      *)
(* frame the uploader is at, and every answer that makes the uploader go   *)
(* on is paid for by a written frame or a late answer.  It holds as long   *)
(* as sequence numbers and words tell frames apart: for any number of lost *)
(* frames and answers, power losses and runs, and for late answers up to   *)
(* fourteen in one run with CMD_FAST_DATA, 65534 with CMD_DATA             *)
(* (can_uploader.py:136-178, 310-334, bootloader.c:102-130, 363-440).      *)
THEOREM FlowInvariant ==
    QuietUploadSpec /\ []FramesToldApart => []FlowInv
  <1>1. UploadInit => FlowInv
    BY FlowInit
  <1>2. SystemInv /\ SessionInv /\ FlowInv /\ FramesToldApart
        /\ [UploadNext /\ StartsQuietly]_allVars
          => FlowInv'
    BY FlowNext
  <1> QED
    BY <1>1, <1>2, QuietIsUpload, SessionInvariant, PTL DEF QuietUploadSpec

LEMMA AheadOfFlow ==
    ASSUME SystemInv, SessionInv, FlowInv
    PROVE  AheadByFaults /\ (faults["late"] = 0 => AcknowledgedIsCommitted)
  <1> SUFFICES ASSUME InData, runtime_app_state = "UPDATE_IN_PROGRESS"
               PROVE  Acknowledged <= Committed + Late /\ Committed \in Nat
    BY DEF AheadByFaults, AcknowledgedIsCommitted, Late
  <1>1. HostTypeOK /\ FaultsOK /\ BusTypeOK
    BY DEF SystemInv, SessionInv
  <1>2. /\ options.mode \in {"FAST", "RAW", "DATA"} /\ Frames \in Nat
        /\ FirstData \in {11, 12} /\ Frames = FrameCount(options.mode)
    BY <1>1, ScriptShape DEF HostTypeOK, Frames, FirstData
  <1>3. item \in Nat /\ item >= FirstData /\ Acknowledged \in 0 .. Frames
    BY <1>2 DEF InData, Acknowledged
  <1>4. Told = Acknowledged
    BY <1>2, <1>3 DEF Told
  <1>5. Transfer
    BY <1>3 DEF FlowInv, TransferInv, InTransfer
  <1> QED
    BY <1>1, <1>3, <1>4, <1>5, Ahead DEF Transfer

(* The uploader is never further ahead of the flash than the answers that  *)
(* came late allow, for any image, any number of retries and any loss of   *)
(* frames and answers; a raw upload is never ahead                         *)
(* (can_uploader.py:136-178).                                              *)
THEOREM AheadOnlyByFaults ==
    QuietUploadSpec /\ []FramesToldApart => []AheadByFaults
  BY AheadOfFlow, FlowInvariant, QuietIsUpload, SessionInvariant, PTL

-----------------------------------------------------------------------------
(* What the transfer leaves in the flash.                                  *)

(* The words below the write address.                                      *)
WordsStay == \A a \in AppAddress : a < current_write_addr => flash'[a] = flash[a]

LEMMA PositionInRegion ==
    ASSUME TypeOK
    PROVE  /\ TypeOKFlash
           /\ current_write_addr \in Nat /\ APP_START_ADDR \in Nat
           /\ AppSize \in Nat /\ current_write_addr = APP_START_ADDR + AppSize
           /\ \A i \in 1 .. AppSize : /\ APP_START_ADDR + i - 1 \in AppAddress
                                     /\ APP_START_ADDR + i - 1 < current_write_addr
  BY LayoutAssumption DEF TypeOK, AppSize, AppAddress, APP_FLASH_END_ADDR

(* Writing one word.                                                       *)
LEMMA WordWritten ==
    ASSUME TypeOKFlash, NEW addr \in Nat, current_write_addr <= addr, current_write_addr \in Nat,
           NEW w \in Cell, NEW ok \in BOOLEAN, flash_if_write_word(addr, w, ok)
    PROVE  /\ WordsStay
           /\ current_write_addr < addr /\ current_write_addr \in AppAddress
                => flash'[current_write_addr] = flash[current_write_addr]
           /\ ok => flash'[addr] = w
  <1>1. /\ \A a \in Address : a # addr \/ a \notin AppAddress => flash'[a] = flash[a]
        /\ ok => flash'[addr] = w
    BY WriteWordEffect
  <1>2. \A a \in AppAddress : a \in Address /\ a \in Nat
    BY Layout
  <1> QED
    BY <1>1, <1>2 DEF WordsStay

LEMMA FrameWordsType ==
    ASSUME NEW pkt \in Packets
    PROVE  /\ pkt.cmd = "DATA" => pkt.word \in Cell
           /\ pkt.cmd \in {"FAST", "RAW"} => pkt.word0 \in Cell /\ pkt.word1 \in Cell
  <1>1. pkt \in PacketType
    BY PacketAssumption
  <1> QED
    BY <1>1, PacketFields DEF DataPacket, FastPacket, RawPacket

(* What a packet does to the flash.                                        *)
LEMMA PacketFlash ==
    ASSUME TypeOK, NEW pkt \in Packets,
           WaitReceive(pkt) \/ bootloader_handle_packet(pkt) \/ AppHandles(pkt)
    PROVE  /\ WordsStay
           /\ pkt.cmd = "DATA" /\ CommitWord(pkt) => flash'[current_write_addr] = pkt.word
           /\ pc # "fast" /\ pc' = "fast" => flash'[current_write_addr] = pkt.word0
  <1>1. TypeOKFlash /\ current_write_addr \in Nat
    BY PositionInRegion
  <1>2. current_write_addr' = current_write_addr + 1 => current_write_addr' # current_write_addr
    BY <1>1
  <1>0. \A w \in Cell : \A ok \in BOOLEAN : flash_if_write_word(current_write_addr, w, ok) =>
            WordsStay /\ (ok => flash'[current_write_addr] = w)
    <2> SUFFICES ASSUME NEW w \in Cell, NEW ok \in BOOLEAN,
                        flash_if_write_word(current_write_addr, w, ok)
                 PROVE  WordsStay /\ (ok => flash'[current_write_addr] = w)
      OBVIOUS
    <2>1. current_write_addr <= current_write_addr
      BY <1>1
    <2> QED
      BY <1>1, <2>1, WordWritten
  <1>3. CASE HandleData(pkt)
    <2>1. pkt.word \in Cell
      BY <1>3, FrameWordsType DEF HandleData
    <2>2. pc' = pc
      BY <1>3 DEF HandleData, CommitWord
    <2>3. CASE flash_if_write_word(current_write_addr, pkt.word, TRUE) /\ CommitWord(pkt)
      BY <1>0, <2>1, <2>2, <2>3
    <2>4. CASE flash_if_write_word(current_write_addr, pkt.word, FALSE) /\ UNCHANGED ramVars
      <3>1. WordsStay
        BY <1>0, <2>1, <2>4
      <3> QED
        BY <1>2, <2>2, <2>4, <3>1 DEF CommitWord
    <2>5. CASE UNCHANGED <<flash, ramVars>>
      BY <1>2, <2>2, <2>5 DEF CommitWord, WordsStay
    <2> QED
      BY <1>3, <2>3, <2>4, <2>5 DEF HandleData
  <1>4. CASE HandleFast(pkt)
    <2>1. pkt.word0 \in Cell /\ pkt.cmd # "DATA"
      BY <1>4, FrameWordsType DEF HandleFast
    <2>2. CASE flash_if_write_word(current_write_addr, pkt.word0, TRUE)
      BY <1>0, <2>1, <2>2
    <2>3. CASE flash_if_write_word(current_write_addr, pkt.word0, FALSE) /\ UNCHANGED pc
      BY <1>0, <2>1, <2>3
    <2>4. CASE UNCHANGED <<flash, pc>>
      BY <2>1, <2>4 DEF WordsStay
    <2> QED
      BY <1>4, <2>2, <2>3, <2>4 DEF HandleFast
  <1>5. CASE ~HandleData(pkt) /\ ~HandleFast(pkt)
    <2>1. UNCHANGED flash /\ pc' # "fast"
      BY <1>5 DEF WaitReceive, bootloader_handle_packet, HandlePing, HandleInfo, HandleErase,
         HandleSetAddr, HandleCrc, HandleBoot, HandleReset, HandleOther, AppHandles,
         app_can_poll, app_handle_bootloader_can_command, AppPing, AppReset, AppOther,
         ExampleReset, App
    <2>2. pkt.cmd # "DATA" \/ current_write_addr' = current_write_addr
      BY <1>5 DEF WaitReceive, bootloader_handle_packet, HandlePing, HandleInfo, HandleErase,
         HandleSetAddr, HandleCrc, HandleBoot, HandleReset, HandleOther, AppHandles,
         app_can_poll, app_handle_bootloader_can_command, AppPing, AppReset, AppOther,
         ExampleReset, App
    <2> QED
      BY <1>2, <2>1, <2>2 DEF WordsStay, CommitWord
  <1> QED
    BY <1>3, <1>4, <1>5

(* What the device does to it without a packet.                            *)
LEMMA RunFlash ==
    ASSUME TypeOK, pc # "erase", runtime_app_state' = "UPDATE_IN_PROGRESS",
           DeviceStep \/ app_request_bootloader_reset
    PROVE  /\ WordsStay
           /\ pc' # "fast"
           /\ CommitFrame => /\ flash'[current_write_addr] = flash[current_write_addr]
                             /\ flash'[current_write_addr + 1] = frame.word1
  <1>1. /\ TypeOKFlash /\ current_write_addr \in Nat /\ current_write_addr + 1 \in Nat
        /\ current_write_addr <= current_write_addr + 1
        /\ current_write_addr < current_write_addr + 1
    BY PositionInRegion
  <1>2. CASE CommitFrame \/ FrameFails
    <2>1. /\ frame.word1 \in Cell
          /\ current_write_addr \in AppAddress
      BY <1>1, <1>2, RoomFor DEF CommitFrame, FrameFails, TypeOK, FastPacket, RawPacket
    <2>2. PICK ok \in BOOLEAN : /\ flash_if_write_word(current_write_addr + 1, frame.word1, ok)
                                /\ ~ok => pc' = "loop" /\ ~CommitFrame
      <3>1. CommitFrame => flash_if_write_word(current_write_addr + 1, frame.word1, TRUE)
        BY DEF CommitFrame
      <3>2. FrameFails /\ ~CommitFrame =>
               flash_if_write_word(current_write_addr + 1, frame.word1, FALSE) /\ pc' = "loop"
        BY DEF FrameFails
      <3> QED
        BY <1>2, <3>1, <3>2
    <2>3. /\ WordsStay
          /\ flash'[current_write_addr] = flash[current_write_addr]
          /\ ok => flash'[current_write_addr + 1] = frame.word1
      BY <1>1, <2>1, <2>2, WordWritten
    <2>4. pc' # "fast"
      BY <1>2 DEF CommitFrame, FrameFails
    <2> QED
      BY <2>2, <2>3, <2>4
  <1>3. CASE WriteNextMetadata \/ WriteLastMetadata \/ MetadataFails
    <2>1. /\ step \in 0 .. 3 /\ AppSize \in 0 .. AppWords /\ frame.crc \in Word
          /\ pc = "meta" /\ pc' # "fast"
      BY <1>3, PositionType DEF WriteNextMetadata, WriteLastMetadata, MetadataFails, TypeOK,
         AppSize, CrcPacket
    <2>2. PICK ok \in BOOLEAN : WriteMetadataWord(step, AppSize, frame.crc, ok)
      BY <1>3 DEF WriteNextMetadata, WriteLastMetadata, MetadataFails
    <2>3. \A a \in Address : a # APP_META_ADDR + step => flash'[a] = flash[a]
      BY <1>1, <2>1, <2>2, ProgramMetadataWord
    <2>4. \A a \in AppAddress : a \in Address /\ a # APP_META_ADDR + step
      BY <2>1, Layout, LayoutAssumption DEF AppAddress, APP_META_ADDR, APP_FLASH_END_ADDR
    <2>5. WordsStay
      BY <2>3, <2>4 DEF WordsStay
    <2> QED
      BY <2>1, <2>5 DEF CommitFrame
  <1>4. CASE BoardFails \/ Startup \/ WaitTimeout \/ bootloader_jump_to_app \/ SystemReset
             \/ app_request_bootloader_reset
    <2>1. UNCHANGED flash /\ pc # "fast" /\ pc' # "fast"
      BY <1>4 DEF BoardFails, Startup, WaitTimeout, bootloader_jump_to_app, StartApp, SystemReset,
         Restart, app_request_bootloader_reset
    <2> QED
      BY <2>1 DEF WordsStay, CommitFrame
  <1>5. CASE EraseNextSector \/ EraseLastSector \/ EraseFails
    BY <1>5 DEF EraseNextSector, EraseLastSector, EraseFails
  <1> QED
    BY <1>2, <1>3, <1>4, <1>5 DEF DeviceStep

(* The image grows by the words that are written at its end.               *)
LEMMA ContentGrows ==
    ASSUME TypeOK, Content, WordsStay, NEW n \in Nat,
           current_write_addr' = current_write_addr + n,
           AppSize + n <= Len(Firmware),
           \A i \in 1 .. n : flash'[current_write_addr + i - 1] = Firmware[AppSize + i]
    PROVE  Content'
  <1>1. /\ current_write_addr \in Nat /\ APP_START_ADDR \in Nat
        /\ AppSize \in Nat /\ current_write_addr = APP_START_ADDR + AppSize
        /\ \A i \in 1 .. AppSize : /\ APP_START_ADDR + i - 1 \in AppAddress
                                  /\ APP_START_ADDR + i - 1 < current_write_addr
    BY PositionInRegion
  <1>2. AppSize' = AppSize + n
    BY <1>1 DEF AppSize
  <1>3. ASSUME NEW i \in 1 .. AppSize + n
        PROVE  flash'[APP_START_ADDR + i - 1] = Firmware[i]
    <2>1. CASE i <= AppSize
      <3>1. i \in 1 .. AppSize
        BY <1>1, <2>1
      <3>2. flash'[APP_START_ADDR + i - 1] = flash[APP_START_ADDR + i - 1]
        BY <1>1, <3>1 DEF WordsStay
      <3> QED
        BY <3>1, <3>2 DEF Content
    <2>2. CASE ~(i <= AppSize)
      <3> DEFINE k == i - AppSize
      <3>1. k \in 1 .. n /\ AppSize + k = i
            /\ current_write_addr + k - 1 = APP_START_ADDR + i - 1
        BY <1>1, <2>2
      <3> HIDE DEF k
      <3>2. flash'[current_write_addr + k - 1] = Firmware[AppSize + k]
        BY <3>1
      <3> QED
        BY <3>1, <3>2
    <2> QED
      BY <2>1, <2>2
  <1> QED
    BY <1>2, <1>3 DEF Content

LEMMA ContentStays ==
    ASSUME TypeOK, Content, WordsStay, UNCHANGED current_write_addr
    PROVE  Content'
  <1>1. current_write_addr' = current_write_addr + 0 /\ AppSize + 0 <= Len(Firmware)
    BY PositionInRegion DEF Content
  <1> QED
    BY <1>1, ContentGrows, 0 \in Nat

LEMMA ContentStarts ==
    ASSUME current_write_addr' = APP_START_ADDR
    PROVE  Content'
  <1>1. AppSize' = 0 /\ Len(Firmware) \in Nat
    BY FirmwareLength, LayoutAssumption DEF AppSize
  <1> QED
    BY <1>1 DEF Content

(* The words of a frame are those of the image behind the frames before it.*)
LEMMA FrameContent ==
    ASSUME HostTypeOK, item >= FirstData, Positioned, Committed + 1 <= Top
    PROVE  /\ AppSize + FrameWords(options.mode) <= Len(Firmware)
           /\ options.mode = "DATA" => /\ FrameWords(options.mode) = 1
                                       /\ Frame(Committed + 1).word = Firmware[AppSize + 1]
           /\ options.mode # "DATA" => /\ FrameWords(options.mode) = 2
                                       /\ Frame(Committed + 1).word0 = Firmware[AppSize + 1]
                                       /\ Frame(Committed + 1).word1 = Firmware[AppSize + 2]
  <1>1. /\ options.mode \in {"FAST", "RAW", "DATA"}
        /\ Committed \in Nat /\ Frames \in Nat /\ Top \in Nat /\ Top <= Frames
        /\ Len(Firmware) \in Nat
    BY HostPosition, FirmwareLength DEF Positioned
  <1>2. AppSize = FrameWords(options.mode) * Committed
    BY <1>1, FramesWritten DEF Positioned, AppSize
  <1>3. Frames = Len(Firmware) \div FrameWords(options.mode)
    BY DEF Frames, FrameCount
  <1>4. Committed + 1 <= Frames
    BY <1>1
  <1>5. CASE options.mode = "DATA"
    <2>1. FrameWords(options.mode) = 1 /\ AppSize = Committed
      BY <1>1, <1>2, <1>5 DEF FrameWords
    <2>2. Frame(Committed + 1).word = Firmware[Committed + 1]
      BY <1>5 DEF Frame, DataFrame
    <2> QED
      BY <1>1, <1>3, <1>4, <1>5, <2>1, <2>2
  <1>6. CASE options.mode # "DATA"
    <2>1. FrameWords(options.mode) = 2 /\ AppSize = 2 * Committed
      BY <1>2, <1>6 DEF FrameWords
    <2>2. /\ Frame(Committed + 1).word0 = Firmware[2 * (Committed + 1) - 1]
          /\ Frame(Committed + 1).word1 = Firmware[2 * (Committed + 1)]
      BY <1>1, <1>6 DEF Frame, DataFrame
    <2>3. 2 * (Committed + 1) - 1 = AppSize + 1 /\ 2 * (Committed + 1) = AppSize + 2
      BY <1>1, <2>1
    <2>4. Frames = Len(Firmware) \div 2
      BY <1>3, <2>1
    <2>5. 2 * Frames <= Len(Firmware)
      BY <1>1, <2>4
    <2> QED
      BY <1>1, <1>4, <1>6, <2>1, <2>2, <2>3, <2>5
  <1> QED
    BY <1>5, <1>6

(* Before the transfer no frame is queued, and none is begun.              *)
LEMMA NoFrameYet ==
    ASSUME HostTypeOK, TypeOK, OrderInv, item < FirstData
    PROVE  (\A p \in Queued : ~IsData(p)) /\ pc # "fast"
  <1>1. ASSUME NEW p \in Queued PROVE ~IsData(p)
    <2> DEFINE o == options
    <2>1. /\ o \in Options /\ item \in 1 .. Len(Scripts[o]) /\ Script = Scripts[o]
          /\ FirstData = DataFrom(o) /\ DataFrom(o) \in {11, 12} /\ item \in Nat
          /\ Len(Scripts[o]) \in Nat /\ FrameCount(o.mode) \in Nat
      BY ScriptType, ScriptShape DEF HostTypeOK, Script, FirstData, DataFrom
    <2>2. PICK j \in 1 .. item : p = Scripts[o][j]
      BY <1>1, <2>1 DEF OrderInv, Sent
    <2>3. j \in 1 .. Len(Scripts[o]) /\ j < DataFrom(o)
      BY <2>1
    <2>4. Stage(Scripts[o][j].cmd) # 5
      <3>1. Stage(Scripts[o][j].cmd) = 5
              <=> j \in DataFrom(o) .. DataFrom(o) + FrameCount(o.mode) - 1
        BY <2>1, <2>3, ScriptStage
      <3> QED
        BY <2>1, <2>3, <3>1
    <2> QED
      BY <2>2, <2>4, DataStage
  <1>2. pc = "fast" => frame \in Queued /\ IsData(frame)
    BY DEF Queued, Busy, TypeOK, FastPacket, RawPacket, IsData
  <1> QED
    BY <1>1, <1>2

(* A prefix of the image stays one.                                        *)
Begun == pc = "fast" => flash[current_write_addr] = frame.word0

LEMMA PrefixReceive ==
    ASSUME HostTypeOK, FaultsOK, TypeOK, BusTypeOK, OrderInv, FramesToldApart,
           item >= FirstData => Transfer,
           Content, DeviceReceive
    PROVE  Content' /\ Begun'
  <1> DEFINE pkt == Head(rx)
  <1>1. /\ pkt = rx[1] /\ 1 \in DOMAIN rx
        /\ pkt \in Packets /\ pkt \in Queued
        /\ WaitReceive(pkt) \/ bootloader_handle_packet(pkt) \/ AppHandles(pkt)
        /\ HostStays
        /\ frame' = pkt /\ pc # "fast"
    BY TakesPacket DEF Queued
  <1>2. Rests \/ Addresses(pkt) \/ Repeating(pkt) \/ Writing(pkt) \/ Beginning(pkt)
    BY <1>1, PacketCases
  <1>3. /\ WordsStay
        /\ pkt.cmd = "DATA" /\ CommitWord(pkt) => flash'[current_write_addr] = pkt.word
        /\ pc' = "fast" => flash'[current_write_addr] = pkt.word0
    BY <1>1, PacketFlash
  <1> HIDE DEF pkt
  <1>4. CASE Rests \/ Repeating(pkt)
    <2>1. UNCHANGED current_write_addr /\ pc' # "fast"
      BY <1>4 DEF Rests, Repeating, positionVars
    <2> QED
      BY <1>3, <2>1, ContentStays DEF Begun
  <1>5. CASE Addresses(pkt)
    <2>1. pkt.addr = APP_START_ADDR
      BY <1>1, <1>5, UpToAddress DEF Addresses, OrderInv
    <2>2. current_write_addr' = APP_START_ADDR /\ pc' # "fast"
      BY <1>1, <1>5, <2>1 DEF Addresses, StartTransfer
    <2> QED
      BY <2>2, ContentStarts DEF Begun
  <1>6. ASSUME IsData(pkt) PROVE item >= FirstData /\ Transfer
    <2>1. ~(item < FirstData)
      BY <1>1, <1>6, NoFrameYet
    <2>2. item \in Nat /\ FirstData \in Nat
      BY ScriptLength DEF FirstData
    <2> QED
      BY <2>1, <2>2
  <1>7. CASE Writing(pkt)
    <2>1. item >= FirstData /\ Transfer /\ Positioned
      BY <1>6, <1>7 DEF Writing, IsData, Transfer
    <2>2. IsData(pkt) /\ pkt.cmd = options.mode /\ options.mode = "DATA"
      BY <1>1, <1>7, <2>1, HeadFrame DEF Writing, IsData
    <2>3. pkt = Frame(Committed + 1) /\ Committed + 1 <= Top
      BY <1>1, <1>7, <2>1, <2>2, ExpectedFrame DEF Writing
    <2>4. AppSize + 1 <= Len(Firmware) /\ pkt.word = Firmware[AppSize + 1]
      BY <2>1, <2>2, <2>3, FrameContent
    <2>5. current_write_addr' = current_write_addr + 1 /\ flash'[current_write_addr] = pkt.word
      BY <1>3, <1>7 DEF Writing, CommitWord
    <2>6. \A i \in 1 .. 1 : flash'[current_write_addr + i - 1] = Firmware[AppSize + i]
      BY <2>4, <2>5, PositionInRegion
    <2>7. Content'
      BY <1>3, <2>4, <2>5, <2>6, ContentGrows, 1 \in Nat
    <2>8. pc' # "fast"
      BY <1>1, <1>7 DEF Writing, CommitWord
    <2> QED
      BY <2>7, <2>8 DEF Begun
  <1>8. CASE Beginning(pkt)
    <2>1. UNCHANGED current_write_addr /\ flash'[current_write_addr] = pkt.word0
      BY <1>3, <1>8 DEF Beginning, positionVars
    <2> QED
      BY <1>1, <1>3, <2>1, ContentStays DEF Begun
  <1> QED
    BY <1>2, <1>4, <1>5, <1>7, <1>8

LEMMA PrefixRuns ==
    ASSUME HostTypeOK, TypeOK, OrderInv, item >= FirstData => Transfer,
           Content, Begun, DeviceRuns, pc # "erase", runtime_app_state' = "UPDATE_IN_PROGRESS"
    PROVE  Content' /\ Begun'
  <1>1. /\ DeviceStep \/ app_request_bootloader_reset
    BY DEF DeviceRuns
  <1>2. /\ WordsStay
        /\ pc' # "fast"
        /\ CommitFrame => /\ flash'[current_write_addr] = flash[current_write_addr]
                          /\ flash'[current_write_addr + 1] = frame.word1
    BY <1>1, RunFlash
  <1>3. CommitFrame \/ Rests
    BY <1>1, RunCases
  <1>4. CASE Rests
    <2>1. UNCHANGED current_write_addr
      BY <1>4 DEF Rests, positionVars
    <2> QED
      BY <1>2, <2>1, ContentStays DEF Begun
  <1>5. CASE CommitFrame
    <2>1. pc = "fast" /\ current_write_addr' = current_write_addr + 2
      BY <1>5 DEF CommitFrame
    <2>2. item >= FirstData /\ Transfer /\ Positioned
      <3>1. ~(item < FirstData) /\ item \in Nat /\ FirstData \in Nat
        BY <2>1, NoFrameYet, ScriptLength DEF FirstData
      <3> QED
        BY <3>1 DEF Transfer
    <2>3. frame = Frame(Committed + 1) /\ IsData(frame) /\ Committed + 1 <= Top
      BY <2>1, <2>2, FrameUnderWay
    <2>4. options.mode # "DATA"
      <3>1. frame.cmd \in {"FAST", "RAW"} /\ options \in Options
        BY <2>1 DEF TypeOK, FastPacket, RawPacket, HostTypeOK
      <3> QED
        BY <2>3, <3>1, FrameIsData DEF Frame
    <2>5. /\ AppSize + 2 <= Len(Firmware)
          /\ frame.word0 = Firmware[AppSize + 1] /\ frame.word1 = Firmware[AppSize + 2]
      BY <2>2, <2>3, <2>4, FrameContent
    <2>6. /\ flash'[current_write_addr] = frame.word0
          /\ flash'[current_write_addr + 1] = frame.word1
      BY <1>2, <1>5, <2>1 DEF Begun
    <2>7. \A i \in 1 .. 2 : flash'[current_write_addr + i - 1] = Firmware[AppSize + i]
      <3>1. \A i \in 1 .. 2 : i = 1 \/ i = 2
        OBVIOUS
      <3>2. current_write_addr + 1 - 1 = current_write_addr
            /\ current_write_addr + 2 - 1 = current_write_addr + 1
        BY PositionInRegion
      <3> QED
        BY <2>5, <2>6, <3>1, <3>2
    <2>8. Content'
      BY <1>2, <2>1, <2>5, <2>7, ContentGrows, 2 \in Nat
    <2> QED
      BY <1>2, <2>8 DEF Begun
  <1> QED
    BY <1>3, <1>4, <1>5

LEMMA PrefixNext ==
    ASSUME HostTypeOK, FaultsOK, TypeOK, BusTypeOK, OrderInv, FramesToldApart,
           FreshInv, TransferInv, PrefixInv, [UploadNext]_allVars
    PROVE  PrefixInv'
  <1> SUFFICES ASSUME runtime_app_state' = "UPDATE_IN_PROGRESS", pc' # "erase",
                      ~EraseMayFail \/ item' >= FirstData'
               PROVE  Content' /\ Begun'
    BY DEF PrefixInv, Begun
  <1>1. /\ FirstData \in {11, 12} /\ FirstData' \in {11, 12} /\ item \in Nat
        /\ EraseMayFail \in BOOLEAN
    BY ScriptLength, FaultAssumption DEF FirstData
  <1>2. ASSUME UNCHANGED vars, ~EraseMayFail \/ item >= FirstData
        PROVE  Content' /\ Begun'
    <2>1. Content /\ Begun
      BY <1>2 DEF PrefixInv, Begun
    <2>2. Content'
      BY <1>2, <2>1 DEF Content, AppSize
    <2> QED
      BY <1>2, <2>1, <2>2 DEF Begun
  <1>3. ASSUME UNCHANGED <<vars, options, item>> PROVE Content' /\ Begun'
    BY <1>2, <1>3 DEF FirstData
  <1>4. CASE NextSession
    <2>1. item' = 1 /\ UNCHANGED vars
      BY <1>4 DEF NextSession, HostStartsAgain
    <2> QED
      BY <1>1, <1>2, <2>1
  <1>5. CASE HostAccept
    <2>1. UNCHANGED <<vars, options>>
      BY <1>5 DEF HostAccept, Advance, Fail
    <2>2. CASE ~EraseMayFail \/ item >= FirstData
      BY <1>2, <2>1, <2>2
    <2>3. CASE item' >= FirstData' /\ item < FirstData
      <3>1. item = FirstData - 1
        BY <1>5, <2>3, StepsOn
      <3>2. Fresh
        BY <1>5, <3>1, AddressTaken
      <3>3. current_write_addr' = APP_START_ADDR /\ pc' # "fast"
        BY <2>1, <2>3, <3>2, NoFrameYet DEF Fresh
      <3> QED
        BY <3>3, ContentStarts DEF Begun
    <2> QED
      BY <1>1, <2>2, <2>3
  <1>6. CASE DeviceReceive
    <2>1. UNCHANGED <<options, item>> /\ runtime_app_state = "UPDATE_IN_PROGRESS"
      BY <1>6, ProgressReceive DEF DeviceReceive
    <2>2. pc # "erase"
      BY <1>6, PacketAnswer, TakesPacket DEF Busy
    <2>3. Content /\ (item >= FirstData => Transfer)
      BY <2>1, <2>2 DEF PrefixInv, TransferInv, InTransfer, FirstData
    <2> QED
      BY <1>6, <2>3, PrefixReceive
  <1>7. CASE DeviceRuns
    <2>1. UNCHANGED <<options, item>> /\ (DeviceStep \/ app_request_bootloader_reset)
      BY <1>7 DEF DeviceRuns
    <2>2. CASE pc # "erase"
      <3>1. runtime_app_state = "UPDATE_IN_PROGRESS"
        BY <2>1, <2>2, ProgressRuns
      <3>2. Content /\ Begun /\ (item >= FirstData => Transfer)
        BY <2>1, <2>2, <3>1 DEF PrefixInv, TransferInv, InTransfer, FirstData, Begun
      <3> QED
        BY <1>7, <2>2, <3>2, PrefixRuns
    <2>3. CASE pc = "erase"
      <3>1. EraseLastSector \/ EraseFails
        BY <2>1, <2>3 DEF DeviceStep, BoardFails, Startup, WaitTimeout, EraseNextSector,
           CommitFrame, FrameFails, WriteNextMetadata, WriteLastMetadata, MetadataFails,
           bootloader_jump_to_app, SystemReset, app_request_bootloader_reset
      <3>2. ~EraseFails
        <4>1. EraseFails => EraseMayFail
          BY DEF EraseFails, EraseSector
        <4>2. ~(item >= FirstData)
          BY <2>3, PastAddress
        <4> QED
          BY <2>1, <4>1, <4>2 DEF FirstData
      <3>3. current_write_addr' = APP_START_ADDR /\ pc' # "fast"
        BY <3>1, <3>2 DEF EraseLastSector, StartTransfer
      <3> QED
        BY <3>3, ContentStarts DEF Begun
    <2> QED
      BY <2>2, <2>3
  <1>8. CASE PowerCycle \/ PowerLost
    BY <1>8 DEF PowerCycle, PowerLost, PowerLoss, Restart, RamReset
  <1>9. CASE \/ BusSends \/ AnswerLost \/ HostIgnores \/ UNCHANGED allVars
             \/ HostRejected \/ GiveUpWaiting
             \/ \E arrives \in BOOLEAN : HostSends(arrives)
    BY <1>3, <1>9 DEF BusSends, AnswerLost, HostIgnores, HostRejected, GiveUpWaiting, Fail,
       HostSends
  <1> QED
    BY <1>4, <1>5, <1>6, <1>7, <1>8, <1>9, StepCases

(* What is written is a prefix of the image, however frames are repeated   *)
(* and whichever of their words fail to be programmed: an erase may fail   *)
(* as well once the transfer has begun (bootloader.c:102-130, 363-440).    *)
THEOREM PrefixInvariant ==
    QuietUploadSpec /\ []FramesToldApart => []PrefixInv
  <1>1. UploadInit => PrefixInv
    BY DEF UploadInit, Init, RamInit, PrefixInv
  <1>2. SystemInv /\ SessionInv /\ FlowInv /\ PrefixInv /\ FramesToldApart
        /\ [UploadNext /\ StartsQuietly]_allVars
          => PrefixInv'
    <2> SUFFICES ASSUME SystemInv, SessionInv, FlowInv, PrefixInv, FramesToldApart,
                        [UploadNext /\ StartsQuietly]_allVars
                 PROVE  PrefixInv'
      OBVIOUS
    <2>1. [UploadNext]_allVars
      OBVIOUS
    <2> QED
      BY <2>1, PrefixNext DEF SystemInv, SafetyInv, SessionInv, FlowInv
  <1> QED
    BY <1>1, <1>2, QuietIsUpload, SessionInvariant, FlowInvariant, PTL DEF QuietUploadSpec

LEMMA PrefixInProgress ==
    ASSUME ~EraseMayFail, SystemInv, PrefixInv
    PROVE  InProgressIsPrefix
  <1> SUFFICES ASSUME runtime_app_state = "UPDATE_IN_PROGRESS", pc # "erase"
               PROVE  Image(AppSize) = SubSeq(Firmware, 1, AppSize)
    BY DEF InProgressIsPrefix
  <1>1. Content /\ AppSize \in Nat
    BY PositionInRegion DEF PrefixInv, SystemInv, SafetyInv
  <1>2. Image(AppSize) = [i \in 1 .. AppSize |-> Firmware[i]]
    BY <1>1 DEF Content, Image
  <1>3. SubSeq(Firmware, 1, AppSize) = [i \in 1 .. AppSize |-> Firmware[i]]
    BY <1>1, FirmwareLength DEF Content
  <1> QED
    BY <1>2, <1>3

(* Below the write address lies a prefix of the image as long as the       *)
(* device reports an update in progress, from the erase on, unless erasing *)
(* fails (bootloader.c:102-116).                                           *)
THEOREM InProgressMeansPrefix ==
    ASSUME ~EraseMayFail
    PROVE  QuietUploadSpec /\ []FramesToldApart => []InProgressIsPrefix
  BY PrefixInProgress, PrefixInvariant, QuietIsUpload, PTL

-----------------------------------------------------------------------------
(* Until an answer is late every run of the uploader starts quietly.       *)

(* Sequence numbers tell a frame from the next whatever the two hold.      *)
LEMMA PromptFramesApart ==
    ASSUME HostTypeOK, NeverLate
    PROVE  FramesToldApart
  <1> SUFFICES ASSUME options.mode # "RAW"
               PROVE  /\ 0 < SeqMod(options.mode)
                      /\ \A j, k \in 1 .. FrameCount(options.mode) :
                            j < k /\ k - j <= 1 =>
                                DataFrame(options.mode, j) # DataFrame(options.mode, k)
    BY DEF NeverLate, FramesToldApart, ToldApart
  <1>1. /\ options.mode \in {"FAST", "DATA"} /\ FrameCount(options.mode) \in Nat
        /\ SeqMod(options.mode) \in Nat /\ 2 <= SeqMod(options.mode)
    BY ScriptShape, FrameCountType, SequenceAssumption DEF HostTypeOK, SeqMod
  <1>2. ASSUME NEW j \in 1 .. FrameCount(options.mode), NEW k \in 1 .. FrameCount(options.mode),
               k = j + 1, DataFrame(options.mode, j) = DataFrame(options.mode, k)
        PROVE  FALSE
    <2>1. j - 1 \in Nat /\ k - 1 \in Nat /\ k - 1 = (j - 1) + 1
      BY <1>1, <1>2
    <2>2. (j - 1) % SeqMod(options.mode) = (k - 1) % SeqMod(options.mode)
      <3>1. DataFrame(options.mode, j).seq = DataFrame(options.mode, k).seq
        BY <1>2
      <3>2. CASE options.mode = "FAST"
        BY <3>1, <3>2 DEF DataFrame, SeqMod
      <3>3. CASE options.mode = "DATA"
        BY <3>1, <3>3 DEF DataFrame, SeqMod
      <3> QED
        BY <1>1, <3>2, <3>3
    <2>3. (j - 1) = (k - 1)
      <3>1. (k - 1) - 1 <= j - 1 /\ j - 1 < (k - 1) + SeqMod(options.mode)
        BY <1>1, <2>1
      <3> QED
        BY ONLY <1>1, <2>1, <2>2, <3>1, SameNumber
    <2> QED
      BY <2>1, <2>3
  <1> QED
    BY <1>1, <1>2

LEMMA PromptTransfer ==
    UploadSpec => [](NeverLate => FlowInv /\ PrefixInv)
  <1> DEFINE Prompt == NeverLate => SessionInv
             Kept   == NeverLate => FlowInv /\ PrefixInv
  <1>1. UploadInit => Kept
    BY FlowInit DEF UploadInit, Init, RamInit, PrefixInv
  <1>2. SystemInv /\ SystemInv' /\ Prompt /\ Kept /\ [UploadNext]_allVars => Kept'
    <2> SUFFICES ASSUME SystemInv, SystemInv', Prompt, Kept, [UploadNext]_allVars,
                        NeverLate'
                 PROVE  (FlowInv /\ PrefixInv)'
      OBVIOUS
    <2>1. /\ NeverLate /\ SessionInv
          /\ [UploadNext /\ StartsQuietly]_allVars
      BY PromptNext
    <2>2. FlowInv /\ PrefixInv
      BY <2>1
    <2>3. FramesToldApart
      BY <2>1, PromptFramesApart DEF SystemInv
    <2>4. FlowInv'
      BY <2>1, <2>2, <2>3, FlowNext
    <2>5. PrefixInv'
      BY <2>1, <2>2, <2>3, PrefixNext DEF SystemInv, SafetyInv, SessionInv, FlowInv
    <2> QED
      BY <2>4, <2>5
  <1>3. UploadSpec => []Prompt
    BY PromptSession
  <1> HIDE DEF Prompt, Kept
  <1>4. UploadSpec => []Kept
    BY <1>1, <1>2, <1>3, SystemInvariant, PTL DEF UploadSpec
  <1> QED
    BY <1>4 DEF Kept

(* Until an answer is late what the host is told is written is written,    *)
(* and what is written is a prefix of the image, however soon a run of the *)
(* uploader follows a failed one (can_uploader.py:322-334,                 *)
(* stage1_app_jump.md:427).                                                *)
THEOREM PromptFrames ==
    /\ UploadSpec => [](NeverLate => AcknowledgedIsCommitted)
    /\ ~EraseMayFail => (UploadSpec => [](NeverLate => InProgressIsPrefix))
  <1>1. SystemInv /\ (NeverLate => SessionInv)
        /\ (NeverLate => FlowInv /\ PrefixInv)
          => (NeverLate => AcknowledgedIsCommitted)
    BY AheadOfFlow DEF NeverLate
  <1>2. UploadSpec => [](NeverLate => AcknowledgedIsCommitted)
    BY <1>1, PromptTransfer, PromptSession, SystemInvariant, PTL
  <1>3. ASSUME ~EraseMayFail
        PROVE  UploadSpec => [](NeverLate => InProgressIsPrefix)
    <2>1. SystemInv /\ (NeverLate => FlowInv /\ PrefixInv)
            => (NeverLate => InProgressIsPrefix)
      BY <1>3, PrefixInProgress
    <2> QED
      BY <2>1, PromptTransfer, SystemInvariant, PTL
  <1> QED
    BY <1>2, <1>3
=============================================================================
