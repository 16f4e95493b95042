--------------------------- MODULE SessionProofs ---------------------------
(***************************************************************************)
(* What is on its way between uploader and device keeps the order of the   *)
(* script.  From it follow the two ends of an upload: the request an       *)
(* application acknowledges reaches the bootloader, and an acknowledged    *)
(* CRC means that the firmware is installed.                               *)
(***************************************************************************)
EXTENDS UploadSafety, UploadProofs, AnswerProofs, WellFoundedInduction

USE DEF Loop, Reply, vars, ramVars, bootVars, busVars, hostVars, allVars

-----------------------------------------------------------------------------
(* The commands of a script, and their order.                              *)

LEMMA FirstCommands ==
    ASSUME NEW o \in Options
    PROVE  /\ Scripts[o][1].cmd = "PING"
           /\ Scripts[o][2].cmd = "RESET"
           /\ Scripts[o][3].cmd = "PING"
  <1>1. /\ Scripts[o][1] = Plain("PING")
        /\ Scripts[o][2] = Plain("RESET")
        /\ Scripts[o][3] = Plain("PING")
    BY ScriptShape
  <1> QED
    BY <1>1 DEF Plain

LEMMA LastCommands ==
    ASSUME NEW o \in Options
    PROVE  /\ o.crc => Scripts[o][DataFrom(o) + FrameCount(o.mode)].cmd = "CRC"
           /\ o.boot => Scripts[o][Len(Scripts[o])].cmd = "BOOT"
  <1>1. /\ o.crc => Scripts[o][DataFrom(o) + FrameCount(o.mode)] = CrcPacketSent
        /\ o.boot => Scripts[o][Len(Scripts[o])] = Plain("BOOT")
    BY ScriptShape
  <1>2. CrcPacketSent.cmd = "CRC" /\ Plain("BOOT").cmd = "BOOT"
    BY DEF CrcPacketSent, Plain
  <1> QED
    BY <1>1, <1>2

LEMMA ScriptCommands ==
    ASSUME NEW o \in Options, NEW i \in 1 .. Len(Scripts[o])
    PROVE  LET cmd == Scripts[o][i].cmd
               N   == FrameCount(o.mode)
           IN  /\ i \in Nat /\ N \in Nat
               /\ \/ i \in {1, 3} /\ cmd = "PING"
                  \/ i = 2 /\ cmd = "RESET"
                  \/ i \in 4 .. 9 /\ cmd = "INFO"
                  \/ i = 10 /\ o.erase /\ cmd = "ERASE"
                  \/ i = DataFrom(o) - 1 /\ cmd = "SET_ADDR"
                  \/ i \in DataFrom(o) .. DataFrom(o) + N - 1 /\ cmd = o.mode
                  \/ i = DataFrom(o) + N /\ o.crc /\ cmd = "CRC"
                  \/ i = Len(Scripts[o]) /\ o.boot /\ cmd = "BOOT"
                     /\ (o.crc => i # DataFrom(o) + N)
  <1> DEFINE N == FrameCount(o.mode)
             L == Len(Scripts[o])
  <1>1. N \in Nat /\ DataFrom(o) \in {11, 12} /\ (o.erase <=> DataFrom(o) = 12)
        /\ o.mode \in {"FAST", "RAW", "DATA"}
        /\ L = DataFrom(o) + N - 1 + (IF o.crc THEN 1 ELSE 0) + (IF o.boot THEN 1 ELSE 0)
        /\ i \in 1 .. L
    <2>1. DataFrom(o) \in {11, 12} /\ (o.erase <=> DataFrom(o) = 12)
      BY DEF DataFrom
    <2>2. N \in Nat /\ o.mode \in {"FAST", "RAW", "DATA"}
          /\ L = DataFrom(o) + N - 1 + (IF o.crc THEN 1 ELSE 0) + (IF o.boot THEN 1 ELSE 0)
      BY ScriptShape, Zenon
    <2> QED
      BY <2>1, <2>2
  <1> HIDE DEF N, L
  <1>2. CASE i \in {1, 2, 3}
    <2>1. Scripts[o][1].cmd = "PING" /\ Scripts[o][2].cmd = "RESET" /\ Scripts[o][3].cmd = "PING"
      BY FirstCommands
    <2>2. \/ i \in {1, 3} /\ Scripts[o][i].cmd = "PING"
          \/ i = 2 /\ Scripts[o][i].cmd = "RESET"
      BY <1>2, <2>1
    <2>3. i \in Nat
      BY <1>2
    <2> QED
      BY <1>1, <2>2, <2>3, Zenon DEF N
  <1>3. CASE i \in 4 .. 9
    <2>1. Scripts[o][i] = Info(i - 4)
      BY <1>3, ScriptShape
    <2>2. Scripts[o][i].cmd = "INFO"
      BY <2>1 DEF Info
    <2> QED
      BY <1>1, <1>3, <2>2 DEF N
  <1>4. CASE i = 10 /\ o.erase
    BY <1>4, ScriptShape DEF Plain
  <1>5. CASE i = DataFrom(o) - 1
    BY <1>5, ScriptShape DEF SetAddrPacketSent
  <1>6. CASE i \in DataFrom(o) .. DataFrom(o) + N - 1
    <2>1. i - (DataFrom(o) - 1) \in 1 .. N /\ DataFrom(o) - 1 + (i - (DataFrom(o) - 1)) = i
      BY <1>1, <1>6
    <2>2. Scripts[o][i] = DataFrame(o.mode, i - (DataFrom(o) - 1))
      BY <2>1, ScriptShape DEF N
    <2>3. Scripts[o][i].cmd = o.mode
      BY <1>1, <2>2 DEF DataFrame
    <2> QED
      BY <1>1, <1>6, <2>3 DEF N
  <1>7. CASE i = DataFrom(o) + N /\ o.crc
    <2>1. Scripts[o][DataFrom(o) + N].cmd = "CRC"
      BY <1>7, LastCommands DEF N
    <2> QED
      BY <1>1, <1>7, <2>1 DEF N
  <1>8. CASE i >= DataFrom(o) + N /\ ~(i = DataFrom(o) + N /\ o.crc)
    <2>1. i = L /\ o.boot
      BY <1>1, <1>8
    <2>2. Scripts[o][L].cmd = "BOOT"
      BY <2>1, LastCommands DEF L
    <2> QED
      BY <1>1, <1>8, <2>1, <2>2 DEF N, L
  <1> QED
    BY <1>1, <1>2, <1>3, <1>4, <1>5, <1>6, <1>7, <1>8 DEF N

LEMMA StageOfAnswer == \A pkt : Stage(ResponseCmd(pkt)) = Stage(pkt.cmd)
  BY DEF Stage, ResponseCmd

LEMMA StageType == \A cmd : Stage(cmd) \in 1 .. 7
  BY DEF Stage

LEMMA ScriptStage ==
    ASSUME NEW o \in Options, NEW i \in 1 .. Len(Scripts[o])
    PROVE  LET s == Stage(Scripts[o][i].cmd)
               N == FrameCount(o.mode)
           IN  /\ s = 1 <=> i \in 1 .. 3
               /\ s = 2 <=> i \in 4 .. 9
               /\ s = 3 <=> i = 10 /\ o.erase
               /\ s = 4 <=> i = DataFrom(o) - 1
               /\ s = 5 <=> i \in DataFrom(o) .. DataFrom(o) + N - 1
               /\ s = 6 <=> i = DataFrom(o) + N /\ o.crc
               /\ s = 7 <=> i >= DataFrom(o) + N /\ (o.crc => i # DataFrom(o) + N)
  <1> DEFINE N == FrameCount(o.mode)
  <1>1. N \in Nat /\ DataFrom(o) \in {11, 12} /\ (o.erase <=> DataFrom(o) = 12)
        /\ o.mode \in {"FAST", "RAW", "DATA"}
    BY ScriptShape DEF DataFrom
  <1>2. /\ Stage("PING") = 1 /\ Stage("RESET") = 1 /\ Stage("INFO") = 2 /\ Stage("ERASE") = 3
        /\ Stage("SET_ADDR") = 4 /\ Stage(o.mode) = 5 /\ Stage("CRC") = 6 /\ Stage("BOOT") = 7
    BY <1>1 DEF Stage
  <1>3. Len(Scripts[o]) = DataFrom(o) + N - 1 + (IF o.crc THEN 1 ELSE 0) + (IF o.boot THEN 1 ELSE 0)
    BY ScriptShape
  <1> DEFINE d == DataFrom(o)
             s == Stage(Scripts[o][i].cmd)
  <1>4. \/ i \in 1 .. 3 /\ s = 1
        \/ i \in 4 .. 9 /\ s = 2
        \/ i = 10 /\ o.erase /\ s = 3
        \/ i = d - 1 /\ s = 4
        \/ i \in d .. d + N - 1 /\ s = 5
        \/ i = d + N /\ o.crc /\ s = 6
        \/ i = Len(Scripts[o]) /\ o.boot /\ (o.crc => i # d + N) /\ s = 7
    <2>1. (i \in {1, 3} => i \in 1 .. 3) /\ (i = 2 => i \in 1 .. 3)
      OBVIOUS
    <2> DEFINE cmd == Scripts[o][i].cmd
    <2>2. \/ i \in {1, 3} /\ cmd = "PING"
          \/ i = 2 /\ cmd = "RESET"
          \/ i \in 4 .. 9 /\ cmd = "INFO"
          \/ i = 10 /\ o.erase /\ cmd = "ERASE"
          \/ i = DataFrom(o) - 1 /\ cmd = "SET_ADDR"
          \/ i \in DataFrom(o) .. DataFrom(o) + N - 1 /\ cmd = o.mode
          \/ i = DataFrom(o) + N /\ o.crc /\ cmd = "CRC"
          \/ i = Len(Scripts[o]) /\ o.boot /\ cmd = "BOOT" /\ (o.crc => i # DataFrom(o) + N)
      BY ScriptCommands
    <2>3. s = Stage(cmd)
      OBVIOUS
    <2> HIDE DEF cmd, s, d, N
    <2>4. d = DataFrom(o)
      BY DEF d
    <2> QED
      BY <1>2, <2>1, <2>2, <2>3, <2>4
  <1> HIDE DEF N, d, s
  <1>5. N \in Nat /\ d \in {11, 12} /\ (o.erase <=> d = 12)
        /\ (o.boot => Len(Scripts[o]) >= d + N)
    BY <1>1, <1>3 DEF N, d
  <1>6. /\ s = 1 <=> i \in 1 .. 3
        /\ s = 2 <=> i \in 4 .. 9
        /\ s = 3 <=> i = 10 /\ o.erase
        /\ s = 4 <=> i = d - 1
        /\ s = 5 <=> i \in d .. d + N - 1
        /\ s = 6 <=> i = d + N /\ o.crc
        /\ s = 7 <=> i >= d + N /\ (o.crc => i # d + N)
    BY <1>4, <1>5
  <1> QED
    BY <1>6 DEF N, d, s

(* The script never goes back to an earlier stage.                         *)
LEMMA ScriptInOrder ==
    ASSUME NEW o \in Options, NEW i \in 1 .. Len(Scripts[o]), NEW j \in 1 .. Len(Scripts[o]),
           i <= j
    PROVE  Stage(Scripts[o][i].cmd) <= Stage(Scripts[o][j].cmd)
  <1>1. FrameCount(o.mode) \in Nat /\ DataFrom(o) \in {11, 12} /\ (o.erase <=> DataFrom(o) = 12)
    BY ScriptShape DEF DataFrom
  <1> DEFINE si == Stage(Scripts[o][i].cmd)
             sj == Stage(Scripts[o][j].cmd)
             d == DataFrom(o)
             N == FrameCount(o.mode)
  <1>2. si \in 1 .. 7 /\ sj \in 1 .. 7
    BY StageType
  <1>3. /\ si = 1 <=> i \in 1 .. 3
        /\ si = 2 <=> i \in 4 .. 9
        /\ si = 3 <=> i = 10 /\ o.erase
        /\ si = 4 <=> i = d - 1
        /\ si = 5 <=> i \in d .. d + N - 1
        /\ si = 6 <=> i = d + N /\ o.crc
        /\ si = 7 <=> i >= d + N /\ (o.crc => i # d + N)
    BY ScriptStage
  <1>4. /\ sj = 1 <=> j \in 1 .. 3
        /\ sj = 2 <=> j \in 4 .. 9
        /\ sj = 3 <=> j = 10 /\ o.erase
        /\ sj = 4 <=> j = d - 1
        /\ sj = 5 <=> j \in d .. d + N - 1
        /\ sj = 6 <=> j = d + N /\ o.crc
        /\ sj = 7 <=> j >= d + N /\ (o.crc => j # d + N)
    BY ScriptStage
  <1> HIDE DEF si, sj, d, N
  <1>5. N \in Nat /\ d \in {11, 12} /\ (o.erase <=> d = 12)
    BY <1>1 DEF d, N
  <1>6. si <= sj
    <2>1. CASE j < d - 1
      BY <1>2, <1>3, <1>4, <1>5, <2>1
    <2>2. CASE j >= d - 1
      BY <1>2, <1>3, <1>4, <1>5, <2>2
    <2> QED
      BY <1>5, <2>1, <2>2
  <1> QED
    BY <1>6 DEF si, sj

-----------------------------------------------------------------------------
(* The mailboxes and the wire.                                             *)

LEMMA LowestNumber ==
    ASSUME NEW S \in SUBSET Nat, S # {}
    PROVE  Min(S) \in S
  <1> DEFINE R == OpToRel(<, Nat)
  <1>1. PICK x \in S : \A y \in S : ~(<<y, x>> \in R)
    BY NatLessThanWellFounded, WFMin, Zenon
  <1>2. \A y \in S : x <= y
    <2>1. TAKE y \in S
    <2>2. ~(<<y, x>> \in R)
      BY <1>1, Zenon
    <2>3. <<y, x>> \in Nat \X Nat
      OBVIOUS
    <2>4. ~(y < x)
      BY <2>2, <2>3 DEF OpToRel
    <2> QED
      BY <2>4
  <1> QED
    BY <1>2 DEF Min

LEMMA TransmitEffect ==
    ASSUME BusTypeOK, Transmit, UNCHANGED wire,
           sent' # NoResponse => sent' \in Responses
    PROVE  /\ BusTypeOK'
           /\ Coming' \subseteq Coming \cup {sent'}
           /\ sent' = NoResponse => Coming' \subseteq Coming
  <1> USE DEF BusTypeOK
  <1>1. CASE UNCHANGED mailbox
    BY <1>1 DEF Coming, Pending
  <1>2. CASE sent' # NoResponse /\ mailbox' # mailbox
    <2> DEFINE free == {m \in Mailboxes : mailbox[m] = <<>>}
    <2>1. free # {} /\ mailbox' = [mailbox EXCEPT ![Min(free)] = <<sent'>>]
      BY <1>2 DEF Transmit, can_if_send_response
    <2>2. Min(free) \in free
      BY <2>1, LowestNumber, CanAssumption
    <2>3. PICK k \in Mailboxes : mailbox' = [mailbox EXCEPT ![k] = <<sent'>>]
      BY <2>1, <2>2
    <2>4. \A m \in Mailboxes : mailbox'[m] = IF m = k THEN <<sent'>> ELSE mailbox[m]
      BY <2>3
    <2>5. <<sent'>> \in Seq(Responses) /\ Len(<<sent'>>) <= 1 /\ <<sent'>>[1] = sent'
      BY <1>2
    <2>6. BusTypeOK'
      BY <2>3, <2>4, <2>5
    <2>7. Coming' \subseteq Coming \cup {sent'}
      BY <2>4, <2>5 DEF Coming, Pending
    <2> QED
      BY <1>2, <2>6, <2>7
  <1> QED
    BY <1>1, <1>2 DEF Transmit

LEMMA BusSendsEffect ==
    ASSUME BusTypeOK, BusSends
    PROVE  BusTypeOK' /\ Coming' \subseteq Coming
  <1>1. PICK k \in Pending : /\ mailbox' = [mailbox EXCEPT ![k] = <<>>]
                             /\ wire' = Append(wire, mailbox[k][1])
    <2>1. Min(Pending) \in Pending
      BY LowestNumber, CanAssumption DEF BusSends, SendNext, Pending
    <2> QED
      BY <2>1 DEF BusSends, SendNext, NextSent
  <1>2. \A m \in Mailboxes : mailbox'[m] = IF m = k THEN <<>> ELSE mailbox[m]
    BY <1>1 DEF BusTypeOK
  <1>3. mailbox[k][1] \in Responses
    BY <1>1 DEF BusTypeOK, Pending
  <1>4. /\ mailbox' \in [Mailboxes -> Seq(Responses)]
        /\ \A m \in Mailboxes : Len(mailbox'[m]) <= 1
    <2>1. k \in Mailboxes /\ <<>> \in Seq(Responses) /\ Len(<<>>) = 0
      BY DEF Pending
    <2> QED
      BY <1>1, <1>2, <2>1 DEF BusTypeOK
  <1>5. /\ wire' \in Seq(Responses)
        /\ \A i \in DOMAIN wire' : wire'[i] \in {wire[j] : j \in DOMAIN wire} \cup {mailbox[k][1]}
    BY <1>1, <1>3 DEF BusTypeOK
  <1>6. Pending' \subseteq Pending /\ \A m \in Pending' : mailbox'[m] = mailbox[m]
    BY <1>2 DEF Pending
  <1>7. Coming' \subseteq Coming
    BY <1>1, <1>5, <1>6 DEF Coming
  <1> QED
    BY <1>4, <1>5, <1>7 DEF BusTypeOK

LEMMA CanResetEffect ==
    ASSUME BusTypeOK, CanReset, UNCHANGED wire
    PROVE  BusTypeOK' /\ Coming' \subseteq Coming /\ Pending' = {}
  <1>1. /\ mailbox' \in [Mailboxes -> Seq(Responses)]
        /\ \A m \in Mailboxes : mailbox'[m] = <<>> /\ Len(mailbox'[m]) <= 1
    BY DEF CanReset
  <1>2. Pending' = {}
    BY <1>1 DEF Pending
  <1> QED
    BY <1>1, <1>2 DEF BusTypeOK, Coming

LEMMA WireEffect ==
    ASSUME BusTypeOK, UNCHANGED mailbox,
           \/ wire # <<>> /\ wire' = Tail(wire)
           \/ \E k \in 0 .. Len(wire) : wire' = SubSeq(wire, k + 1, Len(wire))
           \/ UNCHANGED wire
    PROVE  BusTypeOK' /\ Coming' \subseteq Coming
  <1>1. wire \in Seq(Responses)
    BY DEF BusTypeOK
  <1>2. /\ wire' \in Seq(Responses)
        /\ \A i \in DOMAIN wire' : \E j \in DOMAIN wire : wire'[i] = wire[j]
    <2>1. CASE wire # <<>> /\ wire' = Tail(wire)
      BY <1>1, <2>1
    <2>2. ASSUME NEW k \in 0 .. Len(wire), wire' = SubSeq(wire, k + 1, Len(wire))
          PROVE  /\ wire' \in Seq(Responses)
                 /\ \A i \in DOMAIN wire' : \E j \in DOMAIN wire : wire'[i] = wire[j]
      BY <1>1, <2>2
    <2> QED
      BY <1>1, <2>1, <2>2
  <1>3. UNCHANGED Pending
    BY DEF Pending
  <1> QED
    BY <1>2, <1>3 DEF BusTypeOK, Coming

LEMMA HeadComing ==
    ASSUME BusTypeOK, wire # <<>>
    PROVE  Head(wire) \in Coming /\ Head(wire) \in Responses
  BY DEF BusTypeOK, Coming

-----------------------------------------------------------------------------
(* What the device answers.                                                *)

LEMMA AckType ==
    ASSUME NEW c \in Commands
    PROVE  Ack(c) \in Responses /\ Ack(c).cmd = c /\ Ack(c).type = "ACK"
  <1>1. Ack(c) \in [type : {"ACK"}, cmd : Commands]
    BY DEF Ack
  <1> QED
    BY <1>1 DEF Ack, Responses

LEMMA NackType ==
    ASSUME NEW c \in Commands, NEW e \in Errors
    PROVE  Nack(c, e) \in Responses /\ Nack(c, e).cmd = c /\ Nack(c, e).type = "NACK"
  <1>1. Nack(c, e) \in [type : {"NACK"}, cmd : Commands, err : Errors]
    BY DEF Nack
  <1> QED
    BY <1>1 DEF Nack, Responses

LEMMA AppReplyType ==
    /\ AppPingReply \in Responses /\ AppPingReply.cmd = "PING"
    /\ AppResetReply \in Responses /\ AppResetReply.cmd = "RESET"
  BY DEF AppPingReply, AppResetReply, Responses

LEMMA InfoPageType ==
    ASSUME TypeOK, NEW page \in 0 .. 255
    PROVE  InfoPage(page) \in Responses /\ InfoPage(page).cmd = "INFO"
  <1> DEFINE States == AppStates \cup {"METADATA_ERASED"}
             Pages_ == [type : {"ACK"}, cmd : {"INFO"}, page : 0 .. 255, addr : Nat,
                        state : States, word : Word]
  <1>1. ASSUME NEW addr \in Nat, NEW state \in States, NEW w \in Word
        PROVE  /\ InfoReply(page, addr, state, w) \in Responses
               /\ InfoReply(page, addr, state, w).cmd = "INFO"
    <2>1. InfoReply(page, addr, state, w) \in Pages_
      BY DEF InfoReply
    <2> QED
      BY <2>1 DEF Responses, InfoReply
  <1>2. bootloader_get_app_state \in States /\ "INVALID" \in States
    BY DEF bootloader_get_app_state, AppStates
  <1>3. flash[SizeAddr] \in Word /\ flash[CrcAddr] \in Word /\ Erased \in Word
    BY Layout DEF TypeOK, TypeOKFlash, Erased, Word
  <1>4. 0 \in Nat /\ APP_START_ADDR \in Nat /\ APP_FLASH_END_ADDR \in Nat /\ APP_META_ADDR \in Nat
    BY LayoutAssumption DEF APP_FLASH_END_ADDR, APP_META_ADDR
  <1>5. "INFO" \in Commands /\ "INVALID_ADDRESS" \in Errors
    BY DEF Commands, Errors
  <1> HIDE DEF States
  <1> QED
    BY <1>1, <1>2, <1>3, <1>4, <1>5, NackType DEF InfoPage

(* The commands a packet is handled as.                                    *)
LEMMA PacketCommand ==
    ASSUME NEW pkt \in Packets
    PROVE  /\ pkt.cmd \in Commands \cup {"FAST", "RAW", "FOREIGN"}
           /\ pkt.cmd = "INFO" => pkt.page \in 0 .. 255
  BY PacketAssumption DEF PacketType, FastPacket, RawPacket, DataPacket, SetAddrPacket,
     CrcPacket, InfoPacket, PlainPacket, Commands

Answer(pkt) == sent' # NoResponse => sent' \in Responses /\ sent'.cmd = ResponseCmd(pkt)

LEMMA PacketAnswer ==
    ASSUME TypeOK, NEW pkt \in Packets,
           WaitReceive(pkt) \/ bootloader_handle_packet(pkt) \/ AppHandles(pkt)
    PROVE  /\ Answer(pkt)
           /\ frame' = pkt
           /\ ~Busy
           /\ pc' = "erase" => pkt.cmd = "ERASE"
           /\ sent' # Ack("CRC")
           /\ sent' = AppPingReply => pc = "app" /\ pc' = "app"
  <1> DEFINE P == /\ Answer(pkt)
                  /\ frame' = pkt
                  /\ ~Busy
                  /\ pc' = "erase" => pkt.cmd = "ERASE"
                  /\ sent' # Ack("CRC")
                  /\ sent' = AppPingReply => pc = "app" /\ pc' = "app"
  <1>0. /\ NoResponse # Ack("CRC") /\ NoResponse # AppPingReply
        /\ \A c : Ack(c) # AppPingReply
        /\ \A c, e : Nack(c, e) # AppPingReply
        /\ AppPingReply # Ack("CRC") /\ AppResetReply # Ack("CRC") /\ AppResetReply # AppPingReply
    BY DEF NoResponse, Ack, Nack, AppPingReply, AppResetReply
  <1>1. ASSUME sent' = NoResponse, frame' = pkt, ~Busy, pc' = "erase" => pkt.cmd = "ERASE"
        PROVE  P
    BY <1>0, <1>1 DEF Answer
  <1>2. ASSUME NEW c \in Commands, sent' = Ack(c), c = ResponseCmd(pkt), c # "CRC",
               frame' = pkt, ~Busy, pc' # "erase"
        PROVE  P
    BY <1>0, <1>2, AckType, AnswersDiffer DEF Answer
  <1>3. ASSUME NEW c \in Commands, NEW e \in Errors, sent' = Nack(c, e), c = ResponseCmd(pkt),
               frame' = pkt, ~Busy, pc' # "erase"
        PROVE  P
    BY <1>0, <1>3, NackType, AnswersDiffer DEF Answer
  <1> SUFFICES P
    OBVIOUS
  <1> HIDE DEF P
  <1>4. {"PING", "ERASE", "SET_ADDR", "DATA", "CRC", "BOOT", "RESET", "INFO", "UNKNOWN"} \subseteq Commands
    BY DEF Commands
  <1>5. CASE WaitReceive(pkt)
    <2>1. frame' = pkt /\ ~Busy /\ pc' # "erase"
          /\ \/ sent' = Ack("PING") /\ ResponseCmd(pkt) = "PING"
             \/ sent' = NoResponse
      BY <1>5 DEF WaitReceive, Busy, ResponseCmd
    <2> QED
      BY <1>1, <1>2, <1>4, <2>1
  <1>6. CASE HandleInfo(pkt)
    <2>1. frame' = pkt /\ ~Busy /\ pc' # "erase" /\ sent' = InfoPage(pkt.page)
          /\ ResponseCmd(pkt) = "INFO" /\ pkt.cmd = "INFO"
      BY <1>6 DEF HandleInfo, Busy, ResponseCmd
    <2>2. InfoPage(pkt.page) \in Responses /\ InfoPage(pkt.page).cmd = "INFO"
      BY <2>1, PacketCommand, InfoPageType
    <2>3. InfoPage(pkt.page) # AppPingReply /\ InfoPage(pkt.page) # Ack("CRC")
      BY <2>2, AppReplyType, AckType, <1>4
    <2> QED
      BY <2>1, <2>2, <2>3 DEF P, Answer
  <1>7. CASE HandlePing(pkt) \/ HandleReset(pkt)
    <2>1. frame' = pkt /\ ~Busy /\ pc' # "erase"
          /\ \/ sent' = Ack("PING") /\ ResponseCmd(pkt) = "PING"
             \/ sent' = Ack("RESET") /\ ResponseCmd(pkt) = "RESET"
      BY <1>7 DEF HandlePing, HandleReset, Busy, ResponseCmd
    <2> QED
      BY <1>2, <1>4, <2>1
  <1>8. CASE HandleErase(pkt) \/ (HandleOther(pkt) /\ pkt.cmd = "FOREIGN")
    BY <1>1, <1>8 DEF HandleErase, HandleOther, Busy
  <1>9. CASE HandleOther(pkt) /\ pkt.cmd = "UNKNOWN"
    <2>1. frame' = pkt /\ ~Busy /\ pc' # "erase"
          /\ sent' = Nack("UNKNOWN", "UNKNOWN_CMD") /\ ResponseCmd(pkt) = "UNKNOWN"
      BY <1>9 DEF HandleOther, Busy, ResponseCmd
    <2> QED
      BY <1>3, <1>4, <2>1 DEF Errors
  <1>10. CASE HandleSetAddr(pkt)
    <2>1. frame' = pkt /\ ~Busy /\ pc' # "erase" /\ ResponseCmd(pkt) = "SET_ADDR"
          /\ \/ sent' = Ack("SET_ADDR")
             \/ \E e \in Errors : sent' = Nack("SET_ADDR", e)
      BY <1>10 DEF HandleSetAddr, Busy, ResponseCmd, Errors
    <2> QED
      BY <1>2, <1>3, <1>4, <2>1
  <1>11. CASE HandleData(pkt)
    <2>1. frame' = pkt /\ ~Busy /\ pc' # "erase" /\ ResponseCmd(pkt) = "DATA"
          /\ \/ sent' = Ack("DATA")
             \/ \E e \in Errors : sent' = Nack("DATA", e)
      BY <1>11 DEF HandleData, CommitWord, Busy, ResponseCmd, Errors
    <2> QED
      BY <1>2, <1>3, <1>4, <2>1
  <1>12. CASE HandleFast(pkt)
    <2>1. frame' = pkt /\ ~Busy /\ pc' # "erase" /\ ResponseCmd(pkt) = "DATA"
          /\ \/ sent' = NoResponse
             \/ sent' = Ack("DATA")
             \/ \E e \in Errors : sent' = Nack("DATA", e)
      BY <1>12 DEF HandleFast, Busy, ResponseCmd, Errors
    <2> QED
      BY <1>1, <1>2, <1>3, <1>4, <2>1
  <1>13. CASE HandleCrc(pkt)
    <2>1. frame' = pkt /\ ~Busy /\ pc' # "erase" /\ ResponseCmd(pkt) = "CRC"
          /\ \/ sent' = NoResponse
             \/ \E e \in Errors : sent' = Nack("CRC", e)
      BY <1>13 DEF HandleCrc, Busy, ResponseCmd, Errors
    <2> QED
      BY <1>1, <1>3, <1>4, <2>1
  <1>14. CASE HandleBoot(pkt)
    <2>1. frame' = pkt /\ ~Busy /\ pc' # "erase" /\ ResponseCmd(pkt) = "BOOT"
          /\ \/ sent' = Ack("BOOT")
             \/ \E e \in Errors : sent' = Nack("BOOT", e)
      BY <1>14 DEF HandleBoot, Busy, ResponseCmd, Errors
    <2> QED
      BY <1>2, <1>3, <1>4, <2>1
  <1>15. CASE AppHandles(pkt)
    <2>1. frame' = pkt /\ ~Busy /\ pc' # "erase" /\ pc = "app"
          /\ \/ sent' = AppPingReply /\ pkt.cmd = "PING" /\ pc' = pc
             \/ sent' = AppResetReply /\ pkt.cmd = "RESET"
             \/ sent' = NoResponse
             \/ /\ sent' = Nack(pkt.cmd, "UNKNOWN_CMD")
                /\ pkt.cmd \notin {"FAST", "RAW", "FOREIGN"}
      BY <1>15 DEF AppHandles, app_can_poll, app_handle_bootloader_can_command, AppPing, AppReset,
                   AppOther, ExampleReset, App, Busy
    <2>2. pkt.cmd \notin {"FAST", "RAW"} => ResponseCmd(pkt) = pkt.cmd
      BY DEF ResponseCmd
    <2>3. CASE sent' = AppPingReply /\ pkt.cmd = "PING" /\ pc' = pc
      BY <1>0, <2>1, <2>2, <2>3, AppReplyType DEF P, Answer
    <2>4. CASE sent' = AppResetReply /\ pkt.cmd = "RESET"
      BY <1>0, <2>1, <2>2, <2>4, AppReplyType DEF P, Answer
    <2>5. CASE sent' = NoResponse
      BY <1>1, <2>1, <2>5
    <2>6. CASE sent' = Nack(pkt.cmd, "UNKNOWN_CMD") /\ pkt.cmd \notin {"FAST", "RAW", "FOREIGN"}
      BY <1>3, <2>1, <2>2, <2>6, PacketCommand DEF Errors
    <2> QED
      BY <2>1, <2>3, <2>4, <2>5, <2>6
  <1> QED
    BY <1>5, <1>6, <1>7, <1>8, <1>9, <1>10, <1>11, <1>12, <1>13, <1>14, <1>15
       DEF bootloader_handle_packet, HandleOther

LEMMA RunAnswer ==
    ASSUME TypeOK, DeviceStep \/ app_request_bootloader_reset,
           pc = "erase" => frame.cmd = "ERASE"
    PROVE  /\ sent' # NoResponse => Busy
           /\ Answer(frame)
           /\ Busy' => Busy /\ pc' = pc /\ frame' = frame
           /\ sent' = Ack("CRC") => WriteLastMetadata
           /\ sent' # AppPingReply
  <1> DEFINE P == /\ sent' # NoResponse => Busy
                  /\ Answer(frame)
                  /\ Busy' => Busy /\ pc' = pc /\ frame' = frame
                  /\ sent' = Ack("CRC") => WriteLastMetadata
                  /\ sent' # AppPingReply
  <1>0. /\ NoResponse # Ack("CRC") /\ NoResponse # AppPingReply
        /\ \A c : Ack(c) # AppPingReply
        /\ \A c, e : Nack(c, e) # AppPingReply
    BY DEF NoResponse, Ack, Nack, AppPingReply
  <1>1. ASSUME sent' = NoResponse, Busy' => Busy /\ pc' = pc /\ frame' = frame
        PROVE  P
    BY <1>0, <1>1 DEF Answer
  <1>2. ASSUME NEW c \in Commands, sent' = Ack(c), c = ResponseCmd(frame),
               c = "CRC" => WriteLastMetadata, Busy, ~Busy'
        PROVE  P
    BY <1>0, <1>2, AckType, AnswersDiffer DEF Answer
  <1>3. ASSUME NEW c \in Commands, NEW e \in Errors, sent' = Nack(c, e), c = ResponseCmd(frame),
               Busy, ~Busy'
        PROVE  P
    BY <1>0, <1>3, NackType, AnswersDiffer DEF Answer
  <1> SUFFICES P
    OBVIOUS
  <1> HIDE DEF P
  <1>4. {"ERASE", "DATA", "CRC"} \subseteq Commands
    BY DEF Commands
  <1>5. /\ pc = "erase" => ResponseCmd(frame) = "ERASE"
        /\ pc = "fast" => ResponseCmd(frame) = "DATA"
        /\ pc = "meta" => ResponseCmd(frame) = "CRC"
    BY DEF ResponseCmd, TypeOK, FastPacket, RawPacket, CrcPacket
  <1>6. CASE \/ BoardFails \/ Startup \/ WaitTimeout \/ EraseNextSector \/ WriteNextMetadata
             \/ bootloader_jump_to_app \/ SystemReset \/ app_request_bootloader_reset
    <2>1. sent' = NoResponse /\ (Busy' => Busy /\ pc' = pc /\ frame' = frame)
      BY <1>6 DEF BoardFails, Startup, WaitTimeout, StartApp, EraseNextSector, WriteNextMetadata,
                  bootloader_jump_to_app, SystemReset, Restart, app_request_bootloader_reset, Busy
    <2> QED
      BY <1>1, <2>1
  <1>7. CASE EraseLastSector \/ EraseFails
    <2>1. pc = "erase" /\ Busy /\ ~Busy'
          /\ (sent' = Ack("ERASE") \/ sent' = Nack("ERASE", "ERASE_FAILED"))
      BY <1>7 DEF EraseLastSector, EraseFails, Busy
    <2> QED
      BY <1>2, <1>3, <1>4, <1>5, <2>1 DEF Errors
  <1>8. CASE CommitFrame \/ FrameFails
    <2>1. pc = "fast" /\ Busy /\ ~Busy'
          /\ (sent' = Ack("DATA") \/ sent' = Nack("DATA", "FLASH_WRITE"))
      BY <1>8 DEF CommitFrame, FrameFails, Busy
    <2> QED
      BY <1>2, <1>3, <1>4, <1>5, <2>1 DEF Errors
  <1>9. CASE WriteLastMetadata \/ MetadataFails
    <2>1. pc = "meta" /\ Busy /\ ~Busy'
          /\ ((sent' = Ack("CRC") /\ WriteLastMetadata) \/ sent' = Nack("CRC", "METADATA_WRITE"))
      BY <1>9 DEF WriteLastMetadata, MetadataFails, Busy
    <2> QED
      BY <1>2, <1>3, <1>4, <1>5, <2>1 DEF Errors
  <1> QED
    BY <1>6, <1>7, <1>8, <1>9 DEF DeviceStep

-----------------------------------------------------------------------------
(* OrderInv is inductive.                                                  *)

LEMMA FifoFront ==
    ASSUME HostTypeOK, rx # <<>>, rx' = Tail(rx)
    PROVE  /\ 1 \in DOMAIN rx /\ Head(rx) = rx[1]
           /\ DOMAIN rx \subseteq Nat \ {0}
           /\ \A i \in DOMAIN rx' : i + 1 \in DOMAIN rx /\ rx'[i] = rx[i + 1]
           /\ \A i \in DOMAIN rx' : i \in Nat \ {0}
  BY DEF HostTypeOK

LEMMA OrderReceive ==
    ASSUME HostTypeOK, TypeOK, BusTypeOK, OrderInv, DeviceReceive
    PROVE  BusTypeOK' /\ OrderInv'
  <1> DEFINE pkt == Head(rx)
  <1>1. rx # <<>> /\ rx' = Tail(rx) /\ Transmit /\ UNCHANGED <<wire, hostVars>>
        /\ (WaitReceive(pkt) \/ bootloader_handle_packet(pkt) \/ AppHandles(pkt))
    BY DEF DeviceReceive
  <1>2. pkt \in Packets
    BY <1>1, TakenPacket
  <1>3. /\ Answer(pkt)
        /\ frame' = pkt
        /\ ~Busy
        /\ pc' = "erase" => pkt.cmd = "ERASE"
    BY <1>1, <1>2, PacketAnswer
  <1> HIDE DEF pkt
  <1>4. /\ pkt \in InFifo
        /\ InFifo' \subseteq InFifo
        /\ \A p \in InFifo' : Stage(pkt.cmd) <= Stage(p.cmd)
        /\ \A i, j \in DOMAIN rx' : i < j => Stage(rx'[i].cmd) <= Stage(rx'[j].cmd)
    BY <1>1, FifoFront DEF pkt, InFifo, OrderInv
  <1>5. BusTypeOK' /\ Coming' \subseteq Coming \cup {sent'}
        /\ (sent' = NoResponse => Coming' \subseteq Coming)
    BY <1>1, <1>3, TransmitEffect DEF Answer
  <1>6. Sent' = Sent /\ Answered' = Answered /\ Script' = Script
    BY <1>1 DEF Sent, Answered, Script
  <1>7. Queued' \subseteq Queued /\ (Busy' => frame' = pkt) /\ pkt \in Queued
    BY <1>3, <1>4 DEF Queued, Busy
  <1>8. \A p \in Queued' : Stage(pkt.cmd) <= Stage(p.cmd)
    BY <1>3, <1>4, StageType DEF Queued
  <1>9. \A r \in Coming' : /\ \E p \in Sent' : r.cmd = ResponseCmd(p)
                           /\ \A p \in Queued' : Stage(r.cmd) <= Stage(p.cmd)
    <2>1. TAKE r \in Coming'
    <2>2. CASE r \in Coming
      BY <1>6, <1>7, <2>2 DEF OrderInv
    <2>3. CASE r = sent' /\ sent' # NoResponse
      <3>1. r.cmd = ResponseCmd(pkt) /\ pkt \in Sent'
        BY <1>3, <1>6, <1>7, <2>3 DEF Answer, OrderInv
      <3> QED
        BY <1>8, <3>1, StageOfAnswer
    <2> QED
      BY <1>5, <2>2, <2>3
  <1>10. /\ Queued' \subseteq Sent'
         /\ \A p \in Queued' : Answered' <= Stage(p.cmd)
         /\ Busy' => \A p \in InFifo' : Stage(frame'.cmd) <= Stage(p.cmd)
         /\ tries' <= Retries => Retryable(Script'[item'])
    BY <1>1, <1>3, <1>4, <1>6, <1>7 DEF OrderInv
  <1> QED
    BY <1>3, <1>4, <1>5, <1>9, <1>10 DEF OrderInv

LEMMA OrderDevice ==
    ASSUME HostTypeOK, OrderInv, UNCHANGED hostVars,
           rx' = rx \/ rx' = <<>>,
           Busy' => Busy /\ pc' = pc /\ frame' = frame,
           \/ Coming' \subseteq Coming
           \/ Busy /\ sent'.cmd = ResponseCmd(frame) /\ Coming' \subseteq Coming \cup {sent'}
    PROVE  OrderInv'
  <1>1. Sent' = Sent /\ Answered' = Answered /\ Script' = Script
    BY DEF Sent, Answered, Script
  <1>2. InFifo' \subseteq InFifo
        /\ \A i, j \in DOMAIN rx' : i < j => Stage(rx'[i].cmd) <= Stage(rx'[j].cmd)
    BY DEF InFifo, OrderInv
  <1>3. Queued' \subseteq Queued
    BY <1>2 DEF Queued, Busy
  <1>4. Busy => \A p \in Queued : Stage(frame.cmd) <= Stage(p.cmd)
    BY StageType DEF Queued, OrderInv
  <1>5. \A r \in Coming' : /\ \E p \in Sent' : r.cmd = ResponseCmd(p)
                           /\ \A p \in Queued' : Stage(r.cmd) <= Stage(p.cmd)
    <2>1. TAKE r \in Coming'
    <2>2. CASE r \in Coming
      BY <1>1, <1>3, <2>2 DEF OrderInv
    <2>3. CASE r = sent' /\ Busy /\ sent'.cmd = ResponseCmd(frame)
      <3>1. frame \in Sent'
        BY <1>1, <2>3 DEF OrderInv, Queued
      <3> QED
        BY <1>3, <1>4, <2>3, <3>1, StageOfAnswer
    <2> QED
      BY <2>2, <2>3
  <1>6. /\ Queued' \subseteq Sent'
        /\ \A p \in Queued' : Answered' <= Stage(p.cmd)
        /\ Busy' => \A p \in InFifo' : Stage(frame'.cmd) <= Stage(p.cmd)
        /\ pc' = "erase" => frame'.cmd = "ERASE"
        /\ tries' <= Retries => Retryable(Script'[item'])
    BY <1>1, <1>2, <1>3 DEF OrderInv, Busy
  <1> QED
    BY <1>2, <1>5, <1>6 DEF OrderInv

LEMMA OrderRuns ==
    ASSUME HostTypeOK, TypeOK, BusTypeOK, OrderInv, DeviceRuns
    PROVE  BusTypeOK' /\ OrderInv'
  <1>1. /\ sent' # NoResponse => Busy
        /\ Answer(frame)
        /\ Busy' => Busy /\ pc' = pc /\ frame' = frame
    BY RunAnswer DEF DeviceRuns, OrderInv
  <1>2. rx' = rx \/ rx' = <<>>
    BY DEF DeviceRuns, CanReset
  <1>3. BusTypeOK' /\ Coming' \subseteq Coming \cup {sent'}
        /\ (sent' = NoResponse => Coming' \subseteq Coming)
    <2>1. CASE CanReset
      BY <2>1, CanResetEffect DEF DeviceRuns
    <2>2. CASE Transmit
      BY <1>1, <2>2, TransmitEffect DEF DeviceRuns, Answer
    <2> QED
      BY <2>1, <2>2 DEF DeviceRuns
  <1>4. UNCHANGED hostVars
    BY DEF DeviceRuns
  <1> QED
    BY <1>1, <1>2, <1>3, <1>4, OrderDevice DEF Answer

(* The device loses power, and with it what its CAN peripheral holds.      *)
LEMMA OrderPower ==
    ASSUME HostTypeOK, BusTypeOK, OrderInv, PowerCycle \/ PowerLost
    PROVE  BusTypeOK' /\ OrderInv' /\ Queued' = {} /\ Coming' \subseteq Coming
  <1>1. pc' = "reset" /\ rx' = <<>> /\ CanReset /\ UNCHANGED <<wire, hostVars>>
    BY DEF PowerCycle, PowerLost, PowerLoss, Restart, CanReset
  <1>2. BusTypeOK' /\ Coming' \subseteq Coming
    BY <1>1, CanResetEffect
  <1>3. ~Busy' /\ Queued' = {}
    BY <1>1 DEF Busy, Queued, InFifo
  <1> QED
    BY <1>1, <1>2, <1>3, OrderDevice

(* Answers move on or get lost.                                            *)
LEMMA OrderWire ==
    ASSUME HostTypeOK, BusTypeOK, OrderInv,
           BusSends \/ AnswerLost \/ HostIgnores \/ UNCHANGED allVars
    PROVE  BusTypeOK' /\ OrderInv' /\ Coming' \subseteq Coming
  <1>1. UNCHANGED <<pc, frame, rx, hostVars>>
    BY DEF BusSends, AnswerLost, HostIgnores
  <1>2. BusTypeOK' /\ Coming' \subseteq Coming
    BY BusSendsEffect, WireEffect DEF AnswerLost, HostIgnores
  <1> QED
    BY <1>1, <1>2, OrderDevice DEF Busy

-----------------------------------------------------------------------------
(* The host sends.                                                         *)

(* A packet that arrives is the last in the FIFO.                          *)
LEMMA FifoAdded ==
    ASSUME HostTypeOK, NEW f \in Packets, rx' = FifoAdd(f)
    PROVE  /\ rx' \in Seq(Packets) /\ DOMAIN rx' = 1 .. Len(rx') /\ Len(rx') \in Nat
           /\ Len(rx') \in DOMAIN rx' /\ rx'[Len(rx')] = f
           /\ \A i \in DOMAIN rx' : i # Len(rx') => i \in DOMAIN rx /\ rx'[i] = rx[i]
           /\ Len(rx') \in {Len(rx), Len(rx) + 1}
  <1>1. rx \in Seq(Packets) /\ FifoDepth \in Nat \ {0} /\ Len(rx) <= FifoDepth
    BY CanAssumption DEF HostTypeOK
  <1>2. CASE Len(rx) < FifoDepth
    <2>1. rx' = Append(rx, f)
      BY <1>2 DEF FifoAdd
    <2> QED
      BY <1>1, <2>1
  <1>3. CASE Len(rx) = FifoDepth
    <2>1. rx' = [rx EXCEPT ![FifoDepth] = f]
      BY <1>1, <1>3 DEF FifoAdd
    <2>2. rx' \in Seq(Packets) /\ Len(rx') = FifoDepth
      BY <1>1, <1>3, <2>1
    <2> QED
      BY <1>1, <1>3, <2>1, <2>2
  <1> QED
    BY <1>1, <1>2, <1>3

LEMMA OrderSends ==
    ASSUME HostTypeOK, BusTypeOK, OrderInv, NEW arrives \in BOOLEAN, HostSends(arrives)
    PROVE  /\ BusTypeOK' /\ OrderInv'
           /\ Coming' \subseteq Coming
           /\ Queued' \subseteq Queued \cup {Script[item]}
  <1> DEFINE pkt == Script[item]
  <1>1. /\ Running /\ UNCHANGED <<vars, mailbox, options, item, tries, outcome>>
        /\ (rx' = rx \/ rx' = FifoAdd(pkt))
        /\ \E k \in 0 .. Len(wire) : wire' = SubSeq(wire, k + 1, Len(wire))
    BY DEF HostSends
  <1>2. pkt \in Packets
    BY ItemType
  <1>3. BusTypeOK' /\ Coming' \subseteq Coming
    BY <1>1, WireEffect
  <1>4. Sent' = Sent /\ Answered' = Answered /\ Script' = Script /\ Busy' = Busy /\ frame' = frame
    BY <1>1 DEF Sent, Answered, Script, Busy
  <1>5. pkt \in Sent /\ \A p \in Sent : Stage(p.cmd) <= Stage(pkt.cmd)
    BY ScriptInOrder DEF Sent, HostTypeOK, Script
  <1>6. Answered <= Stage(pkt.cmd)
    <2>1. item - 1 \in 1 .. Len(Script) \/ item = 1
      BY DEF HostTypeOK
    <2>2. item # 1 => Stage(Script[item - 1].cmd) <= Stage(pkt.cmd)
      BY <2>1, ScriptInOrder DEF Script, HostTypeOK
    <2> QED
      BY <1>1, <2>2, StageType DEF Answered, Running
  <1> HIDE DEF pkt
  <1>7. CASE rx' = rx
    <2>1. Queued' = Queued /\ InFifo' = InFifo
      BY <1>4, <1>7 DEF Queued, InFifo
    <2> QED
      BY <1>1, <1>3, <1>4, <1>7, <2>1 DEF OrderInv
  <1>8. CASE rx' = FifoAdd(pkt)
    <2>1. /\ DOMAIN rx' = 1 .. Len(rx') /\ Len(rx') \in Nat
          /\ rx'[Len(rx')] = pkt
          /\ \A i \in DOMAIN rx' : i # Len(rx') => i \in DOMAIN rx /\ rx'[i] = rx[i]
      BY <1>2, <1>8, FifoAdded
    <2>2. InFifo' \subseteq InFifo \cup {pkt}
      BY <2>1 DEF InFifo
    <2>3. Queued' \subseteq Queued \cup {pkt}
      BY <1>4, <2>2 DEF Queued
    <2>4. \A i \in DOMAIN rx : Stage(rx[i].cmd) <= Stage(pkt.cmd)
      BY <1>5 DEF OrderInv, Queued, InFifo
    <2>5. \A i, j \in DOMAIN rx' : i < j => Stage(rx'[i].cmd) <= Stage(rx'[j].cmd)
      <3>1. TAKE i, j \in DOMAIN rx'
      <3>2. SUFFICES ASSUME i < j PROVE Stage(rx'[i].cmd) <= Stage(rx'[j].cmd)
        OBVIOUS
      <3>3. i # Len(rx') /\ i \in DOMAIN rx /\ rx'[i] = rx[i]
        BY <2>1, <3>2
      <3>4. CASE j = Len(rx')
        BY <2>1, <2>4, <3>3, <3>4
      <3>5. CASE j # Len(rx')
        BY <2>1, <3>2, <3>3, <3>5 DEF OrderInv
      <3> QED
        BY <3>4, <3>5
    <2>6. Busy => Stage(frame.cmd) <= Stage(pkt.cmd)
      BY <1>5 DEF OrderInv, Queued
    <2>7. \A r \in Coming : /\ \E p \in Sent : r.cmd = ResponseCmd(p)
                            /\ Stage(r.cmd) <= Stage(pkt.cmd)
      BY <1>5, StageOfAnswer DEF OrderInv
    <2>8. \A r \in Coming' : /\ \E p \in Sent' : r.cmd = ResponseCmd(p)
                             /\ \A p \in Queued' : Stage(r.cmd) <= Stage(p.cmd)
      BY <1>3, <1>4, <2>3, <2>7 DEF OrderInv
    <2>9. /\ Queued' \subseteq Sent'
          /\ \A p \in Queued' : Answered' <= Stage(p.cmd)
          /\ Busy' => \A p \in InFifo' : Stage(frame'.cmd) <= Stage(p.cmd)
          /\ pc' = "erase" => frame'.cmd = "ERASE"
          /\ tries' <= Retries => Retryable(Script'[item'])
      BY <1>1, <1>4, <1>5, <1>6, <2>2, <2>3, <2>6 DEF OrderInv
    <2> QED
      BY <1>3, <2>3, <2>5, <2>8, <2>9 DEF OrderInv, pkt
  <1> QED
    BY <1>1, <1>7, <1>8

-----------------------------------------------------------------------------
(* The host takes an answer, gives up, or starts again.                    *)

LEMMA ScriptLength ==
    ASSUME HostTypeOK
    PROVE  /\ Len(Script) \in Nat /\ Len(Script) >= 10
           /\ item \in 1 .. Len(Script) /\ item \in Nat
           /\ item = 1 => Script[item].cmd = "PING"
           /\ item = 2 => Script[item].cmd = "RESET"
           /\ item = 3 => Script[item].cmd = "PING"
           /\ Script[item].cmd = "PING" => item \in {1, 3}
  <1>1. options \in Options /\ item \in 1 .. Len(Scripts[options])
    BY DEF HostTypeOK, Script
  <1>2. Len(Scripts[options]) \in Nat /\ Len(Scripts[options]) >= 10
    <2> DEFINE N == FrameCount(options.mode)
               L == Len(Scripts[options])
    <2>1. /\ N \in Nat
          /\ L = DataFrom(options) + N - 1 + (IF options.crc THEN 1 ELSE 0)
                 + (IF options.boot THEN 1 ELSE 0)
      BY <1>1, ScriptShape
    <2>2. DataFrom(options) \in {11, 12}
      BY DEF DataFrom
    <2> HIDE DEF N, L
    <2>3. L \in Nat /\ L >= 10
      BY <2>1, <2>2
    <2> QED
      BY <2>3 DEF L
  <1>3. /\ item = 1 => Scripts[options][item].cmd = "PING"
        /\ item = 2 => Scripts[options][item].cmd = "RESET"
        /\ item = 3 => Scripts[options][item].cmd = "PING"
    BY <1>1, FirstCommands
  <1>4. Stage("PING") = 1 /\ "PING" # "RESET"
    BY DEF Stage
  <1>5. Scripts[options][item].cmd = "PING" => item \in 1 .. 3
    BY <1>1, <1>4, ScriptStage
  <1> QED
    BY <1>1, <1>2, <1>3, <1>4, <1>5 DEF Script

(* What the host goes on with.                                             *)
Accepted(r) ==
    \/ Fail
    \/ item = 1 /\ r = AppPingReply /\ Advance(2)
    \/ item \in {1, 3} /\ Advance(4)
    \/ item \notin {1, 3} /\ Advance(item + 1)

LEMMA AcceptedAnswer ==
    ASSUME HostTypeOK, BusTypeOK, OrderInv, HostAccept
    PROVE  /\ Running /\ waiting
           /\ BusTypeOK' /\ Coming' \subseteq Coming
           /\ UNCHANGED <<vars, rx, options, faults>>
           /\ Head(wire) \in Coming /\ Head(wire) \in Responses
           /\ Head(wire).cmd = ResponseCmd(Script[item]) /\ Head(wire).type = "ACK"
           /\ \A p \in Queued : Stage(Script[item].cmd) <= Stage(p.cmd)
           /\ Accepted(Head(wire))
           /\ item' >= item /\ item' \in 1 .. Len(Script)
           /\ Running' => item' > item
           /\ outcome' = "done" => item' = item /\ item = Len(Script)
  <1> DEFINE r == Head(wire)
  <1>1. /\ Running /\ waiting /\ wire # <<>> /\ wire' = Tail(wire)
        /\ r.cmd = ResponseCmd(Script[item]) /\ r.type = "ACK"
        /\ UNCHANGED <<vars, rx, mailbox, faults>>
    BY DEF HostAccept, Answers
  <1>2. BusTypeOK' /\ Coming' \subseteq Coming
    BY <1>1, WireEffect
  <1>3. r \in Coming /\ r \in Responses
    BY <1>1, HeadComing
  <1>4. \A p \in Queued : Stage(Script[item].cmd) <= Stage(p.cmd)
    BY <1>1, <1>3, StageOfAnswer DEF OrderInv
  <1>5. Accepted(r)
    <2>1. CASE Script[item].cmd = "PING" /\ item = 1
      BY <2>1 DEF HostAccept, Accepted, FromApp
    <2>2. CASE Script[item].cmd = "PING" /\ item = 3
      BY <2>2 DEF HostAccept, Accepted
    <2>3. CASE Script[item].cmd # "PING"
      BY <2>3, ScriptLength DEF HostAccept, Accepted
    <2> QED
      BY <2>1, <2>2, <2>3, ScriptLength
  <1> HIDE DEF r
  <1>6. CASE Fail
    BY <1>1, <1>2, <1>3, <1>4, <1>5, <1>6, ScriptLength DEF Fail, r, Running
  <1>7. ASSUME NEW next \in Nat, next > item, Advance(next)
        PROVE  /\ UNCHANGED options
               /\ item' >= item /\ item' \in 1 .. Len(Script)
               /\ Running' => item' > item
               /\ outcome' = "done" => item' = item /\ (next > Len(Script))
    <2>1. CASE next > Len(Script)
      BY <1>7, <2>1, ScriptLength DEF Advance, Running
    <2>2. CASE ~(next > Len(Script))
      BY <1>1, <1>7, <2>2, ScriptLength DEF Advance, Running
    <2> QED
      BY <2>1, <2>2
  <1>8. CASE (item = 1 /\ Advance(2)) \/ (item \in {1, 3} /\ Advance(4))
    BY <1>1, <1>2, <1>3, <1>4, <1>5, <1>7, <1>8, ScriptLength DEF r
  <1>9. CASE item \notin {1, 3} /\ Advance(item + 1)
    BY <1>1, <1>2, <1>3, <1>4, <1>5, <1>7, <1>9, ScriptLength DEF r
  <1>10. \/ Fail
         \/ (item = 1 /\ Advance(2)) \/ (item \in {1, 3} /\ Advance(4))
         \/ item \notin {1, 3} /\ Advance(item + 1)
    BY <1>5, Zenon DEF Accepted
  <1> QED
    BY <1>6, <1>8, <1>9, <1>10, Zenon

LEMMA OrderAccepts ==
    ASSUME HostTypeOK, BusTypeOK, OrderInv, HostAccept
    PROVE  OrderInv'
  <1>1. /\ Running
        /\ Coming' \subseteq Coming
        /\ UNCHANGED <<pc, frame, rx, options>>
        /\ \A p \in Queued : Stage(Script[item].cmd) <= Stage(p.cmd)
        /\ Accepted(Head(wire))
        /\ item' >= item /\ item' \in 1 .. Len(Script)
        /\ outcome' = "done" => item' = item
    BY AcceptedAnswer
  <1>2. Script' = Script /\ Queued' = Queued /\ Busy' = Busy /\ InFifo' = InFifo
    BY <1>1 DEF Script, Queued, Busy, InFifo
  <1>3. Sent \subseteq Sent'
    BY <1>1, <1>2, ScriptLength DEF Sent
  <1>4. Answered' = Answered \/ Answered' <= Stage(Script[item].cmd)
    <2>1. CASE Fail
      BY <1>1, <1>2, <2>1 DEF Fail, Answered, Running
    <2>2. CASE (item = 1 /\ Advance(2)) \/ (item \in {1, 3} /\ Advance(4))
      <3>1. outcome' = "running" /\ item' - 1 \in {1, 3} /\ item' # 1
        BY <1>1, <2>2, ScriptLength DEF Advance, Running
      <3>2. Answered' = Stage(Script[item' - 1].cmd)
        BY <1>2, <3>1 DEF Answered
      <3>3. Script[item' - 1].cmd = "PING"
        <4>1. Script[1] = Plain("PING") /\ Script[3] = Plain("PING")
          BY ScriptShape DEF Script, HostTypeOK
        <4> QED
          BY <3>1, <4>1 DEF Plain
      <3> QED
        BY <3>2, <3>3, StageType DEF Stage
    <2>3. CASE item \notin {1, 3} /\ Advance(item + 1)
      <3>1. CASE outcome' = "done"
        BY <1>1, <1>2, <3>1, StageType DEF Answered
      <3>2. CASE outcome' # "done"
        <4>1. item' = item + 1
          BY <1>1, <2>3, <3>2, ScriptLength DEF Advance
        <4>2. Answered' = Stage(Script[item].cmd)
          BY <1>2, <3>2, <4>1, ScriptLength DEF Answered
        <4> QED
          BY <4>2, StageType
      <3> QED
        BY <3>1, <3>2
    <2>4. \/ Fail
          \/ (item = 1 /\ Advance(2)) \/ (item \in {1, 3} /\ Advance(4))
          \/ item \notin {1, 3} /\ Advance(item + 1)
      BY <1>1, Zenon DEF Accepted
    <2> QED
      BY <2>1, <2>2, <2>3, <2>4, Zenon
  <1>5. \A p \in Queued : Answered' <= Stage(p.cmd)
    <2>1. Answered' \in 1 .. 7 /\ Stage(Script[item].cmd) \in 1 .. 7
      BY StageType DEF Answered
    <2> QED
      BY <1>1, <1>4, <2>1, StageType DEF OrderInv
  <1>6. tries' <= Retries => Retryable(Script'[item'])
    <2>1. CASE Fail
      BY <1>2, <2>1 DEF Fail, OrderInv
    <2>2. CASE tries' = Retries + 1
      BY <2>2, UploadAssumption
    <2> QED
      BY <1>1, <2>1, <2>2 DEF Accepted, Advance
  <1> QED
    BY <1>1, <1>2, <1>3, <1>5, <1>6 DEF OrderInv

LEMMA OrderGivesUp ==
    ASSUME HostTypeOK, BusTypeOK, OrderInv, HostRejected \/ GiveUpWaiting
    PROVE  BusTypeOK' /\ OrderInv' /\ Coming' \subseteq Coming
  <1>1. /\ Running /\ Running' \in BOOLEAN /\ outcome' # "done"
        /\ UNCHANGED <<vars, rx, options, item>>
        /\ tries' = tries \/ Retryable(Script[item])
    BY DEF HostRejected, GiveUpWaiting, Fail, Running
  <1>2. BusTypeOK' /\ Coming' \subseteq Coming
    BY WireEffect DEF HostRejected, GiveUpWaiting
  <1>3. /\ Script' = Script /\ Queued' = Queued /\ Busy' = Busy /\ InFifo' = InFifo
        /\ Sent' = Sent /\ Answered' = Answered
    BY <1>1 DEF Script, Queued, Busy, InFifo, Sent, Answered, Running
  <1> QED
    BY <1>1, <1>2, <1>3 DEF OrderInv

(* A run that starts where nothing is on its way.                          *)
LEMMA QuietStart ==
    ASSUME HostTypeOK, BusTypeOK, ~Answering
    PROVE  rx = <<>> /\ ~Busy /\ Queued = {} /\ Coming = {}
  BY DEF Answering, Busy, Queued, InFifo, Coming

LEMMA OrderRestarts ==
    ASSUME HostTypeOK, BusTypeOK, NextSession, ~Answering
    PROVE  BusTypeOK' /\ OrderInv' /\ Coming' = {} /\ Queued' = {}
  <1>1. rx = <<>> /\ ~Busy /\ Queued = {} /\ Coming = {}
    BY QuietStart
  <1>2. UNCHANGED <<vars, rx, mailbox, wire>> /\ tries' = Retries + 1
    BY DEF NextSession, HostStartsAgain
  <1>3. BusTypeOK' /\ Coming' = {} /\ Queued' = {} /\ ~Busy' /\ InFifo' = {} /\ rx' = <<>>
    <2>1. BusTypeOK'
      BY <1>2 DEF BusTypeOK
    <2>2. Coming' = Coming /\ Queued' = Queued /\ Busy' = Busy /\ rx' = rx
      BY <1>2 DEF Coming, Queued, Busy, InFifo, Pending
    <2>3. InFifo' = {}
      BY <1>1, <1>2 DEF InFifo
    <2> QED
      BY <1>1, <2>1, <2>2, <2>3
  <1>4. ~(tries' <= Retries)
    BY <1>2, UploadAssumption
  <1> QED
    BY <1>3, <1>4 DEF OrderInv, Busy

-----------------------------------------------------------------------------
LEMMA StepCases ==
    ASSUME [UploadNext]_allVars
    PROVE  \/ DeviceReceive
           \/ DeviceRuns
           \/ PowerCycle
           \/ PowerLost
           \/ BusSends \/ AnswerLost \/ HostIgnores \/ UNCHANGED allVars
           \/ \E arrives \in BOOLEAN : HostSends(arrives)
           \/ HostAccept
           \/ HostRejected \/ GiveUpWaiting
           \/ NextSession
  BY DEF UploadNext, HostStep, HostSend, FrameLost, HostTimeout, AnswerLate

LEMMA FaultsOfStep ==
    ASSUME [UploadNext]_allVars
    PROVE  \/ UNCHANGED faults
           \/ \E kind \in FaultKinds : Fault(kind)
           \/ NextSession /\ CountAnew
  BY DEF UploadNext, HostStep, DeviceReceive, DeviceRuns, FaultOnlyIf, BusSends, HostSend,
         HostAccept, HostRejected, HostIgnores, HostTimeout, NextSession, PowerCycle,
         FrameLost, AnswerLost, AnswerLate, PowerLost, FaultKinds

LEMMA OrderNext ==
    ASSUME HostTypeOK, TypeOK, BusTypeOK, OrderInv,
           [UploadNext]_allVars, NextSession => ~Answering
    PROVE  BusTypeOK' /\ OrderInv'
  <1>1. ASSUME NEW arrives \in BOOLEAN, HostSends(arrives) PROVE BusTypeOK' /\ OrderInv'
    BY <1>1, OrderSends
  <1>2. CASE HostAccept
    BY <1>2, OrderAccepts, AcceptedAnswer
  <1>3. CASE HostRejected \/ GiveUpWaiting
    BY <1>3, OrderGivesUp
  <1>4. CASE DeviceReceive
    BY <1>4, OrderReceive
  <1>5. CASE DeviceRuns
    BY <1>5, OrderRuns
  <1>6. CASE PowerCycle \/ PowerLost
    BY <1>6, OrderPower
  <1>7. CASE BusSends \/ AnswerLost \/ HostIgnores \/ UNCHANGED allVars
    BY <1>7, OrderWire
  <1>8. CASE NextSession
    BY <1>8, OrderRestarts
  <1> QED
    BY <1>1, <1>2, <1>3, <1>4, <1>5, <1>6, <1>7, <1>8, StepCases

-----------------------------------------------------------------------------
(* InTurn is inductive.                                                    *)

(* A handler that goes on working answers when it is done.                 *)
LEMMA BusyIsSilent ==
    ASSUME NEW pkt \in Packets,
           WaitReceive(pkt) \/ bootloader_handle_packet(pkt) \/ AppHandles(pkt),
           Busy'
    PROVE  sent' = NoResponse
  <1>1. CASE WaitReceive(pkt) \/ HandlePing(pkt) \/ HandleInfo(pkt) \/ HandleSetAddr(pkt)
             \/ HandleBoot(pkt) \/ HandleReset(pkt) \/ HandleOther(pkt)
    BY <1>1 DEF WaitReceive, HandlePing, HandleInfo, HandleSetAddr, HandleBoot, HandleReset,
       HandleOther, Busy
  <1>2. CASE HandleErase(pkt) \/ HandleData(pkt)
    BY <1>2 DEF HandleErase, HandleData, CommitWord, Busy
  <1>3. CASE HandleFast(pkt)
    BY <1>3 DEF HandleFast, Busy
  <1>4. CASE HandleCrc(pkt)
    BY <1>4 DEF HandleCrc, Busy
  <1>5. CASE AppHandles(pkt)
    BY <1>5 DEF AppHandles, app_can_poll, app_handle_bootloader_can_command, AppPing,
       AppReset, AppOther, ExampleReset, App, Busy
  <1> QED
    BY <1>1, <1>2, <1>3, <1>4, <1>5 DEF bootloader_handle_packet

LEMMA TransmitPending ==
    ASSUME BusTypeOK, Transmit
    PROVE  /\ sent' = NoResponse => Pending' = Pending
           /\ Pending = {} => \A m, n \in Pending' : m = n
  <1>1. CASE UNCHANGED mailbox
    BY <1>1 DEF Pending
  <1>2. CASE sent' # NoResponse /\ mailbox' # mailbox
    <2> DEFINE free == {m \in Mailboxes : mailbox[m] = <<>>}
    <2>1. mailbox' = [mailbox EXCEPT ![Min(free)] = <<sent'>>]
      BY <1>2 DEF Transmit, can_if_send_response
    <2>2. PICK k : mailbox' = [mailbox EXCEPT ![k] = <<sent'>>]
      BY <2>1
    <2>3. Pending = {} => \A m \in Pending' : m = k
      BY <2>2 DEF Pending, BusTypeOK
    <2> QED
      BY <1>2, <2>3
  <1> QED
    BY <1>1, <1>2 DEF Transmit

LEMMA TurnReceives ==
    ASSUME HostTypeOK, TypeOK, BusTypeOK, OneAtATime, DeviceReceive
    PROVE  OneAtATime'
  <1>1. PICK pkt \in Packets :
            WaitReceive(pkt) \/ bootloader_handle_packet(pkt) \/ AppHandles(pkt)
    BY TakenPacket DEF DeviceReceive
  <1>2. Busy' => sent' = NoResponse
    BY <1>1, BusyIsSilent
  <1>3. rx # <<>> /\ rx' = Tail(rx) /\ rx \in Seq(Packets) /\ Transmit
        /\ UNCHANGED <<wire, waiting, outcome>>
    BY DEF DeviceReceive, HostTypeOK
  <1>4. rx' = <<>>
    BY <1>3 DEF OneAtATime
  <1>5. wire = <<>> /\ Pending = {} /\ Running /\ waiting
    BY <1>3 DEF OneAtATime, Answering
  <1> QED
    BY <1>2, <1>3, <1>4, <1>5, TransmitPending DEF OneAtATime, Running

LEMMA TurnRuns ==
    ASSUME HostTypeOK, TypeOK, BusTypeOK, OrderInv, OneAtATime, DeviceRuns
    PROVE  OneAtATime'
  <1>1. (sent' # NoResponse => Busy) /\ (Busy' => Busy /\ pc' = pc)
    BY RunAnswer DEF DeviceRuns, OrderInv
  <1>2. UNCHANGED <<wire, waiting, outcome>>
    BY DEF DeviceRuns
  <1>3. CASE CanReset
    <2>1. rx' = <<>> /\ Pending' = {}
      BY <1>3, <1>2, CanResetEffect DEF CanReset, DeviceRuns
    <2> QED
      BY <1>1, <1>2, <2>1 DEF OneAtATime, Answering, Busy, Running
  <1>4. CASE Transmit /\ UNCHANGED rx
    <2>1. sent' # NoResponse => ~Busy'
      BY DEF DeviceRuns, DeviceStep, BoardFails, Startup, WaitTimeout, StartApp, EraseNextSector,
         WriteNextMetadata, bootloader_jump_to_app, SystemReset, Restart, EraseLastSector,
         EraseFails, CommitFrame, FrameFails, WriteLastMetadata, MetadataFails,
         app_request_bootloader_reset, Busy
    <2> QED
      BY <1>1, <1>2, <1>4, <2>1, TransmitPending DEF OneAtATime, Answering, Busy, Running
  <1> QED
    BY <1>3, <1>4 DEF DeviceRuns

LEMMA TurnBusSends ==
    ASSUME BusTypeOK, OneAtATime, BusSends
    PROVE  OneAtATime'
  <1>1. PICK k \in Pending : mailbox' = [mailbox EXCEPT ![k] = <<>>]
    BY LowestNumber, CanAssumption DEF BusSends, SendNext, Pending
  <1>2. Pending' = {}
    BY <1>1 DEF OneAtATime, Pending, BusTypeOK
  <1>3. wire = <<>> /\ ~Busy /\ rx = <<>> /\ Running /\ waiting
    BY <1>1 DEF OneAtATime, Answering
  <1>4. UNCHANGED <<pc, rx, waiting, outcome>> /\ Len(wire') = 1
    BY <1>3 DEF BusSends
  <1> QED
    BY <1>2, <1>3, <1>4 DEF OneAtATime, Busy, Running

(* Nothing is on its way when the uploader sends a packet.                 *)
LEMMA TurnSends ==
    ASSUME HostTypeOK, BusTypeOK, OneAtATime, NEW arrives \in BOOLEAN, HostSends(arrives)
    PROVE  OneAtATime'
  <1>1. rx = <<>> /\ Pending = {} /\ wire = <<>> /\ ~Busy
    BY DEF HostSends, OneAtATime, Answering, Busy
  <1>2. /\ UNCHANGED <<pc, mailbox, outcome>> /\ Running /\ waiting'
        /\ rx' = rx \/ rx' = FifoAdd(Script[item])
    BY DEF HostSends
  <1>3. wire' = <<>>
    BY <1>1 DEF HostSends
  <1>4. Len(rx') <= 1
    BY <1>1, <1>2, ItemType, FifoAdded
  <1> QED
    BY <1>1, <1>2, <1>3, <1>4 DEF OneAtATime, Running, Busy, Pending

(* Only an answer that is late is counted as late, until the count starts  *)
(* anew with a run.                                                        *)
LEMMA LateCounted ==
    ASSUME FaultsOK, [UploadNext]_allVars
    PROVE  /\ faults'["late"] = 0 /\ ~NextSession => faults["late"] = 0 /\ ~AnswerLate
           /\ NeverLate' => NeverLate /\ ~AnswerLate
  <1>1. \/ UNCHANGED faults
        \/ \E kind \in FaultKinds : Fault(kind)
        \/ NextSession /\ CountAnew
    BY FaultsOfStep
  <1>2. faults \in [FaultKinds -> Nat]
    BY DEF FaultsOK
  <1>3. ASSUME NEW kind \in FaultKinds, Fault(kind)
        PROVE  /\ faults'["late"] = 0 => faults["late"] = 0
               /\ NeverLate' => NeverLate
    BY <1>2, <1>3 DEF FaultKinds, Fault, NeverLate
  <1>4. AnswerLate => faults'["late"] # 0
    BY <1>2 DEF AnswerLate, Fault, FaultKinds
  <1>5. CountAnew /\ NeverLate' => NeverLate
    BY <1>2 DEF CountAnew, NeverLate, FaultKinds
  <1>6. UNCHANGED faults => (NeverLate' => NeverLate)
    BY DEF NeverLate
  <1> QED
    BY <1>1, <1>3, <1>4, <1>5, <1>6 DEF NeverLate

LEMMA TurnNext ==
    ASSUME HostTypeOK, TypeOK, BusTypeOK, OrderInv, OneAtATime, [UploadNext]_allVars, ~AnswerLate
    PROVE  OneAtATime'
  <1>1. CASE DeviceReceive
    BY <1>1, TurnReceives
  <1>2. CASE DeviceRuns
    BY <1>2, TurnRuns
  <1>3. CASE BusSends
    BY <1>3, TurnBusSends
  <1>4. CASE HostSend \/ FrameLost
    BY <1>4, TurnSends DEF HostSend, FrameLost
  <1>5. CASE PowerCycle \/ PowerLost
    <2>1. rx' = <<>> /\ ~Busy' /\ UNCHANGED <<wire, waiting, outcome>> /\ CanReset
      BY <1>5 DEF PowerCycle, PowerLost, PowerLoss, Restart, CanReset, Busy
    <2>2. Pending' = {}
      BY <2>1, CanResetEffect
    <2> QED
      BY <2>1, <2>2 DEF OneAtATime, Answering, Busy, Running
  <1>6. CASE HostAccept \/ HostRejected
    <2>1. wire # <<>> /\ wire' = Tail(wire) /\ UNCHANGED <<pc, rx, mailbox>>
      BY <1>6 DEF HostAccept, HostRejected
    <2>2. wire' = <<>> /\ rx = <<>> /\ Pending = {} /\ ~Busy
      BY <2>1 DEF OneAtATime, BusTypeOK
    <2> QED
      BY <2>1, <2>2 DEF OneAtATime, Answering, Busy, Pending
  <1>7. CASE HostIgnores \/ AnswerLost \/ UNCHANGED allVars
    <2>1. UNCHANGED <<pc, rx, mailbox, waiting, outcome>>
          /\ (wire' = wire \/ (wire # <<>> /\ wire' = Tail(wire)))
      BY <1>7 DEF HostIgnores, AnswerLost
    <2>2. wire' = wire \/ wire' = <<>>
      BY <2>1 DEF OneAtATime, BusTypeOK
    <2> QED
      BY <2>1, <2>2 DEF OneAtATime, Answering, Busy, Pending, Running
  <1>8. CASE HostTimeout \/ NextSession
    <2>1. ~Answering /\ UNCHANGED <<pc, rx, mailbox, wire>>
      <3>1. NextSession => ~Answering
        BY DEF NextSession, OneAtATime, Running
      <3> QED
        BY <1>8, <3>1 DEF HostTimeout, GiveUpWaiting, NextSession
    <2> QED
      BY <2>1 DEF OneAtATime, Answering, Busy, Pending
  <1> QED
    BY <1>1, <1>2, <1>3, <1>4, <1>5, <1>6, <1>7, <1>8 DEF UploadNext, HostStep

(* An INFO page is answered with that page.                                *)
LEMMA InfoAnswer ==
    ASSUME TypeOK, NEW pkt \in Packets,
           WaitReceive(pkt) \/ bootloader_handle_packet(pkt) \/ AppHandles(pkt),
           sent' # NoResponse, sent'.cmd = "INFO", sent'.type = "ACK"
    PROVE  sent'.page = pkt.page
  <1>1. pkt.cmd = "INFO"
    BY PacketAnswer, PacketCommand DEF Answer, ResponseCmd
  <1>2. CASE HandleInfo(pkt)
    <2>1. sent' = InfoPage(pkt.page)
      BY <1>2 DEF HandleInfo
    <2>2. Nack("INFO", "INVALID_ADDRESS").type # "ACK"
      BY DEF Nack
    <2> QED
      BY <2>1, <2>2 DEF InfoPage, InfoReply
  <1>3. CASE AppHandles(pkt)
    <2>1. sent' = Nack(pkt.cmd, "UNKNOWN_CMD")
      BY <1>1, <1>3 DEF AppHandles, app_can_poll, app_handle_bootloader_can_command, AppPing,
         AppReset, AppOther, ExampleReset, App
    <2> QED
      BY <2>1 DEF Nack
  <1>4. ~WaitReceive(pkt)
    BY <1>1 DEF WaitReceive
  <1>5. HandleInfo(pkt) \/ AppHandles(pkt)
    BY <1>1, <1>4 DEF bootloader_handle_packet, HandlePing, HandleErase, HandleSetAddr,
       HandleData, HandleFast, HandleCrc, HandleBoot, HandleReset, HandleOther
  <1> QED
    BY <1>2, <1>3, <1>5

LEMMA PagesReceives ==
    ASSUME HostTypeOK, TypeOK, BusTypeOK, PagesMatch, DeviceReceive
    PROVE  PagesMatch'
  <1> DEFINE pkt == Head(rx)
  <1>1. rx # <<>> /\ rx' = Tail(rx) /\ Transmit /\ UNCHANGED <<wire, hostVars>>
        /\ (WaitReceive(pkt) \/ bootloader_handle_packet(pkt) \/ AppHandles(pkt))
    BY DEF DeviceReceive
  <1>2. pkt \in Packets
    BY <1>1, TakenPacket
  <1>3. Answer(pkt) /\ frame' = pkt
    BY <1>1, <1>2, PacketAnswer
  <1>4. pkt \in InFifo /\ InFifo' \subseteq InFifo
    BY <1>1, FifoFront DEF InFifo
  <1>5. sent' # NoResponse /\ sent'.cmd = "INFO" /\ sent'.type = "ACK" => sent'.page = pkt.page
    BY <1>1, <1>2, InfoAnswer
  <1> HIDE DEF pkt
  <1>6. Queued' \subseteq Queued /\ pkt = Script[item]
    BY <1>3, <1>4 DEF Queued, PagesMatch
  <1>7. Coming' \subseteq Coming \cup {sent'} /\ (sent' = NoResponse => Coming' \subseteq Coming)
    BY <1>1, <1>3, TransmitEffect DEF Answer
  <1>8. Script'[item'] = Script[item] /\ info' = info
    BY <1>1 DEF Script
  <1>9. \A r \in Coming' : r.cmd = "INFO" /\ r.type = "ACK" => r.page = Script'[item'].page
    BY <1>5, <1>6, <1>7, <1>8 DEF PagesMatch
  <1> QED
    BY <1>6, <1>8, <1>9 DEF PagesMatch, InfoFromItsPage

LEMMA PagesKept ==
    ASSUME PagesMatch, UNCHANGED <<options, item, info>>,
           Queued' \subseteq Queued \cup {Script[item]},
           \A r \in Coming' : r \in Coming \/ r.cmd # "INFO"
    PROVE  PagesMatch'
  <1>1. Script'[item'] = Script[item] /\ info' = info
    BY DEF Script
  <1>2. \A r \in Coming' : r.cmd = "INFO" /\ r.type = "ACK" => r.page = Script'[item'].page
    BY <1>1 DEF PagesMatch
  <1>3. Queued' \subseteq {Script'[item']}
    BY <1>1 DEF PagesMatch
  <1> QED
    BY <1>1, <1>2, <1>3 DEF PagesMatch, InfoFromItsPage

LEMMA PagesRuns ==
    ASSUME HostTypeOK, TypeOK, BusTypeOK, OrderInv, PagesMatch, DeviceRuns
    PROVE  PagesMatch'
  <1>1. /\ sent' # NoResponse => Busy
        /\ Answer(frame)
        /\ Busy' => Busy /\ pc' = pc /\ frame' = frame
    BY RunAnswer DEF DeviceRuns, OrderInv
  <1>2. sent' # NoResponse => sent'.cmd # "INFO"
    <2>1. Busy => ResponseCmd(frame) \in {"ERASE", "DATA", "CRC"}
      BY DEF ResponseCmd, TypeOK, FastPacket, RawPacket, CrcPacket, OrderInv, Busy
    <2> QED
      BY <1>1, <2>1 DEF Answer
  <1>3. UNCHANGED <<options, item, info>>
    BY DEF DeviceRuns
  <1>4. Queued' \subseteq Queued
    <2>1. rx' = rx \/ rx' = <<>>
      BY DEF DeviceRuns, CanReset
    <2>2. InFifo' \subseteq InFifo
      BY <2>1 DEF InFifo
    <2> QED
      BY <1>1, <2>2 DEF Queued
  <1>5. Coming' \subseteq Coming \cup {sent'} /\ (sent' = NoResponse => Coming' \subseteq Coming)
    <2>1. CASE CanReset
      BY <2>1, CanResetEffect DEF DeviceRuns
    <2>2. CASE Transmit
      BY <1>1, <2>2, TransmitEffect DEF DeviceRuns, Answer
    <2> QED
      BY <2>1, <2>2 DEF DeviceRuns
  <1> QED
    BY <1>2, <1>3, <1>4, <1>5, PagesKept

(* The page that the host takes is the one it has asked for.               *)
LEMMA PagesAccepts ==
    ASSUME HostTypeOK, BusTypeOK, OrderInv, OneAtATime, OneAtATime', PagesMatch, HostAccept
    PROVE  PagesMatch'
  <1> DEFINE r == Head(wire)
             page == Script[item].page
  <1>1. r \in Coming /\ r \in Responses /\ r.cmd = ResponseCmd(Script[item]) /\ r.type = "ACK"
    BY AcceptedAnswer
  <1>2. ~Answering' /\ Queued' = {} /\ Coming' = {}
    <2>1. ~waiting'
      BY DEF HostAccept, Advance, Fail
    <2>2. ~Answering'
      BY <2>1 DEF OneAtATime
    <2> QED
      BY <2>2 DEF Answering, Queued, InFifo, Busy, Coming
  <1>3. info' \in {info, NoInfo} \/ (Script[item].cmd = "INFO" /\ info' = [info EXCEPT ![page] = r])
    BY DEF HostAccept, Fail
  <1>4. Script[item].cmd = "INFO" => r.page = page
    BY <1>1 DEF PagesMatch, ResponseCmd
  <1> HIDE DEF r, page
  <1>5. CASE info' = info
    BY <1>2, <1>5 DEF PagesMatch, InfoFromItsPage
  <1>6. CASE info' = NoInfo
    BY <1>2, <1>6 DEF PagesMatch, InfoFromItsPage, NoInfo
  <1>7. CASE Script[item].cmd = "INFO" /\ info' = [info EXCEPT ![page] = r]
    BY <1>1, <1>2, <1>4, <1>7 DEF PagesMatch, InfoFromItsPage
  <1> QED
    BY <1>3, <1>5, <1>6, <1>7

LEMMA PagesNext ==
    ASSUME HostTypeOK, TypeOK, BusTypeOK, OrderInv, OneAtATime, OneAtATime', PagesMatch,
           [UploadNext]_allVars
    PROVE  PagesMatch'
  <1>1. CASE DeviceReceive
    BY <1>1, PagesReceives
  <1>2. CASE DeviceRuns
    BY <1>2, PagesRuns
  <1>3. CASE PowerCycle \/ PowerLost
    <2>1. UNCHANGED <<options, item, info>>
      BY <1>3 DEF PowerCycle, PowerLost
    <2> QED
      BY <1>3, <2>1, OrderPower, PagesKept
  <1>4. CASE BusSends \/ AnswerLost \/ HostIgnores \/ UNCHANGED allVars
    <2>1. Coming' \subseteq Coming /\ UNCHANGED <<pc, frame, rx, hostVars>>
      BY <1>4, OrderWire DEF BusSends, AnswerLost, HostIgnores
    <2>2. Queued' = Queued
      BY <2>1 DEF Queued, InFifo, Busy
    <2> QED
      BY <2>1, <2>2, PagesKept
  <1>5. ASSUME NEW arrives \in BOOLEAN, HostSends(arrives) PROVE PagesMatch'
    <2>1. UNCHANGED <<options, item, info>>
      BY <1>5 DEF HostSends
    <2> QED
      BY <1>5, <2>1, OrderSends, PagesKept
  <1>6. CASE HostAccept
    BY <1>6, PagesAccepts
  <1>7. CASE HostRejected \/ GiveUpWaiting
    <2>1. Coming' \subseteq Coming /\ UNCHANGED <<vars, rx, options, item, info>>
      BY <1>7, OrderGivesUp DEF HostRejected, GiveUpWaiting, Fail
    <2>2. Queued' = Queued
      BY <2>1 DEF Queued, InFifo, Busy
    <2> QED
      BY <2>1, <2>2, PagesKept
  <1>8. CASE NextSession
    <2>1. ~Answering
      BY <1>8 DEF NextSession, OneAtATime, Running
    <2>2. Coming' = {} /\ Queued' = {} /\ info' = NoInfo
      BY <1>8, <2>1, OrderRestarts DEF NextSession, HostStartsAgain
    <2> QED
      BY <2>2 DEF PagesMatch, InfoFromItsPage, NoInfo
  <1> QED
    BY <1>1, <1>2, <1>3, <1>4, <1>5, <1>6, <1>7, <1>8, StepCases

(* A run that starts quietly starts with nothing on its way and no pages.  *)
LEMMA TurnRestarts ==
    ASSUME HostTypeOK, BusTypeOK, NextSession, ~Answering
    PROVE  (OneAtATime /\ PagesMatch)'
  <1>1. UNCHANGED <<pc, rx, mailbox, wire>> /\ info' = NoInfo
    BY DEF NextSession, HostStartsAgain
  <1>2. rx = <<>> /\ Pending = {} /\ wire = <<>> /\ ~Busy
    BY DEF Answering, Busy
  <1>3. ~Answering' /\ rx' = <<>> /\ Pending' = {} /\ wire' = <<>> /\ ~Busy'
    BY <1>1, <1>2 DEF Answering, Busy, Pending
  <1>4. OneAtATime'
    BY <1>3 DEF OneAtATime
  <1>5. Coming' = {} /\ Queued' = {}
    BY OrderRestarts
  <1>6. PagesMatch'
    BY <1>1, <1>5 DEF PagesMatch, InfoFromItsPage, NoInfo
  <1> QED
    BY <1>4, <1>6

LEMMA InTurnNext ==
    ASSUME HostTypeOK, FaultsOK, TypeOK, BusTypeOK, OrderInv, InTurn,
           [UploadNext]_allVars, NextSession => ~Answering
    PROVE  InTurn'
  <1> SUFFICES ASSUME faults'["late"] = 0 PROVE (OneAtATime /\ PagesMatch)'
    BY DEF InTurn
  <1>1. CASE NextSession
    BY <1>1, TurnRestarts
  <1>2. CASE ~NextSession
    <2>1. faults["late"] = 0 /\ ~AnswerLate
      BY <1>2, LateCounted
    <2>2. OneAtATime /\ PagesMatch
      BY <2>1 DEF InTurn
    <2>3. OneAtATime'
      BY <2>1, <2>2, TurnNext
    <2> QED
      BY <2>2, <2>3, PagesNext
  <1> QED
    BY <1>1, <1>2

(* A run of the uploader starts where nothing is on its way.               *)
LEMMA NothingLeft ==
    ASSUME FaultsOK, InTurn, [UploadNext /\ StartsQuietly]_allVars
    PROVE  [UploadNext]_allVars /\ (NextSession => ~Answering)
  <1>1. NextSession /\ faults["late"] = 0 => ~Answering
    BY DEF NextSession, InTurn, OneAtATime, Running
  <1>2. faults["late"] \in Nat
    BY DEF FaultsOK, FaultKinds
  <1>3. NextSession => ~(UNCHANGED allVars)
    BY DEF NextSession
  <1> QED
    BY <1>1, <1>2, <1>3 DEF StartsQuietly

-----------------------------------------------------------------------------
(* From the application to the bootloader.                                 *)

(* What can be on its way during the first three packets.                  *)
LEMMA EarlyPackets ==
    ASSUME HostTypeOK, TypeOK, OrderInv, item \in 1 .. 3
    PROVE  /\ \A p \in Queued : p.cmd = "PING" \/ (p.cmd = "RESET" /\ item # 1)
           /\ \A r \in Coming : r.cmd = "PING" \/ (r.cmd = "RESET" /\ item # 1)
           /\ ~Busy
  <1>1. Script[1].cmd = "PING" /\ Script[2].cmd = "RESET" /\ Script[3].cmd = "PING"
    BY FirstCommands DEF Script, HostTypeOK
  <1>2. \A p \in Sent : p.cmd = "PING" \/ (p.cmd = "RESET" /\ item # 1)
    BY <1>1 DEF Sent
  <1>3. /\ \A p \in Queued : p.cmd = "PING" \/ (p.cmd = "RESET" /\ item # 1)
        /\ \A r \in Coming : r.cmd = "PING" \/ (r.cmd = "RESET" /\ item # 1)
    BY <1>2 DEF OrderInv, ResponseCmd
  <1>4. Busy => frame \in Queued /\ frame.cmd \notin {"PING", "RESET"}
    BY DEF Busy, Queued, OrderInv, TypeOK, FastPacket, RawPacket, CrcPacket
  <1> QED
    BY <1>3, <1>4

RequestBody ==
    /\ item = 1 /\ AppPingReply \in Coming => pc = "app"
    /\ item = 2 =>
         \/ /\ pc = "app"
            /\ \A r \in Coming : r.cmd # "RESET"
            /\ \A i \in DOMAIN rx : rx[i].cmd = "RESET" => waiting /\ i = Len(rx)
         \/ Requested /\ NoReset /\ waiting
    /\ item = 3 => Requested /\ NoReset

(* The device in the first three packets of a run.                         *)
LEMMA RequestReceive ==
    ASSUME HostTypeOK, TypeOK, BusTypeOK, OrderInv, item \in 1 .. 3, RequestBody, DeviceReceive
    PROVE  RequestBody'
  <1> DEFINE pkt == Head(rx)
  <1>1. rx # <<>> /\ rx' = Tail(rx) /\ Transmit /\ UNCHANGED <<wire, hostVars>>
        /\ (WaitReceive(pkt) \/ bootloader_handle_packet(pkt) \/ AppHandles(pkt))
    BY DEF DeviceReceive
  <1>2. pkt \in Packets
    BY <1>1, TakenPacket
  <1>3. /\ Answer(pkt)
        /\ sent' = AppPingReply => pc = "app" /\ pc' = "app"
    BY <1>1, <1>2, PacketAnswer
  <1> HIDE DEF pkt
  <1>4. /\ pkt \in InFifo /\ pkt \in Queued /\ pkt = rx[1] /\ 1 \in DOMAIN rx
        /\ InFifo' \subseteq InFifo
        /\ \A i \in DOMAIN rx' : i \in Nat \ {0} /\ i + 1 \in DOMAIN rx /\ rx'[i] = rx[i + 1]
    BY <1>1, FifoFront DEF pkt, InFifo, Queued
  <1>5. Coming' \subseteq Coming \cup {sent'}
        /\ (sent' = NoResponse => Coming' \subseteq Coming)
    BY <1>1, <1>3, TransmitEffect DEF Answer
  <1>6. pkt.cmd = "PING" \/ (pkt.cmd = "RESET" /\ item # 1)
    BY <1>4, EarlyPackets
  <1>7. NoReset => NoReset' /\ pkt.cmd # "RESET"
    BY <1>4 DEF NoReset
  <1>8. pkt.cmd = "PING" => (sent' # NoResponse => sent'.cmd # "RESET")
    BY <1>3 DEF Answer, ResponseCmd
  <1>9. CASE pkt.cmd = "PING" /\ pc = "app"
    <2>1. pc' = pc /\ UNCHANGED bkp0r
      BY <1>1, <1>9 DEF AppHandles, app_can_poll, app_handle_bootloader_can_command, AppPing,
            AppReset, AppOther, ExampleReset, App, WaitReceive, bootloader_handle_packet,
            HandlePing, HandleInfo, HandleErase, HandleSetAddr, HandleData, HandleFast, HandleCrc,
            HandleBoot, HandleReset, HandleOther
    <2>2. \A i \in DOMAIN rx' : rx'[i].cmd = "RESET" => rx[i + 1].cmd = "RESET" /\ i + 1 \in DOMAIN rx
      BY <1>4
    <2>3. Len(rx') = Len(rx) - 1
      BY <1>1 DEF HostTypeOK
    <2> QED
      BY <1>1, <1>5, <1>7, <1>8, <1>9, <2>1, <2>2, <2>3 DEF RequestBody, Requested
  <1>10. CASE pkt.cmd = "PING" /\ pc # "app"
    <2>1. sent' # AppPingReply
      BY <1>3, <1>10
    <2>2. CASE item = 1
      BY <1>1, <1>5, <1>10, <2>1, <2>2 DEF RequestBody
    <2>3. CASE item # 1
      <3>1. Requested /\ NoReset /\ (item = 2 => waiting)
        BY <1>10, <2>3 DEF RequestBody
      <3>2. pc' = pc
        BY <1>1, <1>10, <3>1 DEF AppHandles, app_can_poll, app_handle_bootloader_can_command,
            AppPing, AppReset, AppOther, ExampleReset, App, WaitReceive, bootloader_handle_packet,
            HandlePing, HandleInfo, HandleErase, HandleSetAddr, HandleData, HandleFast, HandleCrc,
            HandleBoot, HandleReset, HandleOther, Requested
      <3>3. pc = "loop"
        BY <1>1, <1>10, <3>1 DEF AppHandles, app_can_poll, app_handle_bootloader_can_command,
            AppPing, AppReset, AppOther, ExampleReset, App, WaitReceive, bootloader_handle_packet,
            HandlePing, HandleInfo, HandleErase, HandleSetAddr, HandleData, HandleFast, HandleCrc,
            HandleBoot, HandleReset, HandleOther, Requested
      <3> QED
        BY <1>1, <1>7, <2>3, <3>1, <3>2, <3>3 DEF RequestBody, Requested
    <2> QED
      BY <2>2, <2>3
  <1>11. CASE pkt.cmd = "RESET"
    <2>1. ~NoReset /\ item # 1 /\ rx[1].cmd = "RESET"
      BY <1>4, <1>6, <1>7, <1>11
    <2>2. item = 2
      BY <2>1 DEF RequestBody
    <2>3. pc = "app" /\ waiting /\ ~(1 < Len(rx))
      BY <1>4, <2>1, <2>2 DEF RequestBody
    <2>4. Requested'
      BY <1>1, <1>11, <2>3 DEF AppHandles, app_can_poll, app_handle_bootloader_can_command,
            AppPing, AppReset, AppOther, ExampleReset, App, WaitReceive, bootloader_handle_packet,
            HandlePing, HandleInfo, HandleErase, HandleSetAddr, HandleData, HandleFast, HandleCrc,
            HandleBoot, HandleReset, HandleOther, Requested
    <2>5. rx' = <<>>
      BY <1>1, <2>3 DEF HostTypeOK
    <2>6. NoReset'
      BY <2>5 DEF NoReset, InFifo
    <2> QED
      BY <1>1, <2>2, <2>3, <2>4, <2>6 DEF RequestBody
  <1> QED
    BY <1>6, <1>9, <1>10, <1>11

LEMMA RequestRuns ==
    ASSUME HostTypeOK, TypeOK, BusTypeOK, OrderInv, item \in 1 .. 3, RequestBody, DeviceRuns
    PROVE  RequestBody'
  <1>1. /\ UNCHANGED <<wire, hostVars>> /\ ~Busy
        /\ rx' = rx \/ rx' = <<>>
        /\ DeviceStep \/ app_request_bootloader_reset
    BY EarlyPackets DEF DeviceRuns, CanReset
  <1>2. sent' = NoResponse
    BY <1>1, RunAnswer DEF OrderInv
  <1>3. pc # "app"
    BY <1>1 DEF DeviceStep, app_request_bootloader_reset, BoardFails, Startup, WaitTimeout,
          EraseNextSector, EraseLastSector, EraseFails, CommitFrame, FrameFails, WriteNextMetadata,
          WriteLastMetadata, MetadataFails, bootloader_jump_to_app, SystemReset
  <1>4. Requested => Requested'
    BY <1>1 DEF DeviceStep, app_request_bootloader_reset, BoardFails, Startup, WaitTimeout,
          EraseNextSector, EraseLastSector, EraseFails, CommitFrame, FrameFails, WriteNextMetadata,
          WriteLastMetadata, MetadataFails, bootloader_jump_to_app, SystemReset, Restart, Requested
  <1>5. NoReset => NoReset'
    BY <1>1 DEF NoReset, InFifo
  <1>6. Coming' \subseteq Coming
    BY <1>2, CanResetEffect, TransmitEffect DEF DeviceRuns
  <1> QED
    BY <1>1, <1>3, <1>4, <1>5, <1>6 DEF RequestBody

LEMMA RequestSends ==
    ASSUME HostTypeOK, TypeOK, BusTypeOK, OrderInv, item \in 1 .. 3, RequestBody,
           NEW arrives \in BOOLEAN, HostSends(arrives)
    PROVE  RequestBody'
  <1>1. /\ ~waiting /\ waiting' /\ UNCHANGED <<pc, bkp0r, item>>
        /\ rx' = rx \/ rx' = FifoAdd(Script[item])
    BY DEF HostSends
  <1>2. Coming' \subseteq Coming /\ Requested' = Requested
    BY <1>1, OrderSends DEF Requested
  <1>3. Script[item] \in Packets
    BY ItemType
  <1>4. \/ rx' = rx
        \/ /\ Len(rx') \in Nat /\ rx'[Len(rx')] = Script[item]
           /\ \A i \in DOMAIN rx' : i # Len(rx') => i \in DOMAIN rx /\ rx'[i] = rx[i]
    BY <1>1, <1>3, FifoAdded
  <1>5. CASE item = 1
    BY <1>1, <1>2, <1>5 DEF RequestBody
  <1>6. CASE item = 2
    BY <1>1, <1>2, <1>4, <1>6 DEF RequestBody
  <1>7. CASE item = 3
    <2>1. Script[item].cmd # "RESET"
      BY <1>7, ScriptLength
    <2>2. NoReset'
      BY <1>4, <1>7, <2>1 DEF RequestBody, NoReset, InFifo
    <2> QED
      BY <1>1, <1>2, <1>7, <2>2 DEF RequestBody
  <1> QED
    BY <1>5, <1>6, <1>7

LEMMA RequestAccepts ==
    ASSUME HostTypeOK, TypeOK, BusTypeOK, OrderInv, RequestInv, HostAccept,
           Running', faults'["power"] = 0
    PROVE  RequestBody'
  <1>1. /\ Running
        /\ Coming' \subseteq Coming
        /\ UNCHANGED <<vars, rx, faults>>
        /\ Head(wire) \in Coming
        /\ Head(wire).cmd = ResponseCmd(Script[item])
        /\ Accepted(Head(wire))
        /\ item' > item /\ item' \in Nat /\ item \in Nat \ {0}
    BY AcceptedAnswer, ScriptLength
  <1>2. RequestBody /\ Requested' = Requested /\ NoReset' = NoReset
    BY <1>1 DEF RequestInv, RequestBody, Requested, NoReset, InFifo
  <1>3. CASE item = 1 /\ Head(wire) = AppPingReply /\ Advance(2)
    <2>1. item' = 2
      BY <1>3, ScriptLength DEF Advance
    <2>2. pc = "app"
      BY <1>1, <1>2, <1>3 DEF RequestBody
    <2>3. /\ \A r \in Coming : r.cmd # "RESET"
          /\ \A p \in InFifo : p.cmd # "RESET"
      BY <1>3, EarlyPackets DEF Queued
    <2> QED
      BY <1>1, <2>1, <2>2, <2>3 DEF RequestBody, InFifo
  <1>4. CASE item \in {1, 3} /\ Advance(4)
    <2>1. item' = 4
      BY <1>4, ScriptLength DEF Advance
    <2> QED
      BY <2>1 DEF RequestBody
  <1>5. CASE item \notin {1, 3} /\ Advance(item + 1) /\ item = 2
    <2>1. item' = 3
      BY <1>5, ScriptLength DEF Advance
    <2>2. Head(wire).cmd = "RESET"
      BY <1>1, <1>5, ScriptLength DEF ResponseCmd
    <2>3. Requested /\ NoReset
      BY <1>1, <1>2, <1>5, <2>2 DEF RequestBody
    <2> QED
      BY <1>2, <2>1, <2>3 DEF RequestBody
  <1>6. CASE item \notin {1, 2, 3}
    BY <1>1, <1>6 DEF RequestBody
  <1>7. ~Fail
    BY DEF Fail, Running
  <1> QED
    BY <1>1, <1>3, <1>4, <1>5, <1>6, <1>7 DEF Accepted

(* Power is lost at most as often as the count of it says.                 *)
LEMMA PowerCounted ==
    ASSUME FaultsOK, [UploadNext]_allVars, faults'["power"] = 0
    PROVE  faults["power"] = 0 /\ ~PowerLost
  <1>1. UNCHANGED faults \/ CountAnew \/ \E kind \in FaultKinds : Fault(kind)
    BY FaultsOfStep
  <1>2. ~PowerLost
    BY DEF PowerLost, Fault, FaultsOK, FaultKinds
  <1> QED
    BY <1>1, <1>2 DEF FaultsOK, FaultKinds, Fault, CountAnew

LEMMA RequestNext ==
    ASSUME HostTypeOK, FaultsOK, TypeOK, BusTypeOK, OrderInv, RequestInv,
           [UploadNext]_allVars, NextSession => ~Answering
    PROVE  RequestInv'
  <1> SUFFICES ASSUME Running', faults'["power"] = 0 PROVE RequestBody'
    BY DEF RequestInv, RequestBody
  <1>1. faults["power"] = 0 /\ ~PowerLost
    BY PowerCounted
  <1>2. CASE NextSession
    <2>1. Coming' = {} /\ item' = 1
      BY <1>2, OrderRestarts DEF NextSession, HostStartsAgain
    <2> QED
      BY <2>1 DEF RequestBody
  <1>3. CASE PowerCycle
    BY <1>3 DEF PowerCycle, Running
  <1>4. CASE HostAccept
    BY <1>4, RequestAccepts
  <1>5. CASE HostRejected \/ GiveUpWaiting
    <2>1. /\ UNCHANGED <<pc, bkp0r, rx, item>> /\ Running /\ item # 2
          /\ Coming' \subseteq Coming
      BY <1>5, OrderGivesUp, ScriptLength DEF HostRejected, GiveUpWaiting, Fail, Running, Retryable
    <2>2. Requested' = Requested /\ NoReset' = NoReset /\ RequestBody
      BY <1>1, <2>1 DEF Requested, NoReset, InFifo, RequestInv, RequestBody
    <2> QED
      BY <2>1, <2>2 DEF RequestBody
  <1>6. CASE \/ DeviceReceive \/ DeviceRuns \/ \E arrives \in BOOLEAN : HostSends(arrives)
             \/ BusSends \/ AnswerLost \/ HostIgnores \/ UNCHANGED allVars
    <2>1. UNCHANGED <<item, outcome>> /\ RequestBody
      BY <1>1, <1>6 DEF DeviceReceive, DeviceRuns, HostSends, BusSends, AnswerLost, HostIgnores,
                       RequestInv, RequestBody, Running
    <2>2. CASE item \notin 1 .. 3
      BY <2>1, <2>2 DEF RequestBody
    <2>3. CASE item \in 1 .. 3 /\ (BusSends \/ AnswerLost \/ HostIgnores \/ UNCHANGED allVars)
      <3>1. UNCHANGED <<pc, bkp0r, rx, item, waiting>> /\ Coming' \subseteq Coming
        BY <2>3, OrderWire DEF BusSends, AnswerLost, HostIgnores
      <3>2. Requested' = Requested /\ NoReset' = NoReset
        BY <3>1 DEF Requested, NoReset, InFifo
      <3> QED
        BY <2>1, <3>1, <3>2 DEF RequestBody
    <2> QED
      BY <1>6, <2>1, <2>2, <2>3, RequestReceive, RequestRuns, RequestSends
  <1> QED
    BY <1>1, <1>2, <1>3, <1>4, <1>5, <1>6, StepCases

-----------------------------------------------------------------------------
(* The end of an upload.                                                   *)

(* The packets after the data.                                             *)
LEMMA ClosingPackets ==
    ASSUME HostTypeOK, NEW p \in Sent, Stage(p.cmd) >= 6
    PROVE  /\ p.cmd \in {"CRC", "BOOT"}
           /\ p.cmd = "CRC" => p.crc = Crc[Firmware] /\ options.crc
  <1> DEFINE o == options
             N == FrameCount(o.mode)
  <1>1. PICK j \in 1 .. item : p = Scripts[o][j]
    BY DEF Sent, Script
  <1>2. o \in Options /\ j \in 1 .. Len(Scripts[o])
    BY ScriptLength DEF HostTypeOK, Script
  <1>3. /\ Stage("PING") = 1 /\ Stage("RESET") = 1 /\ Stage("INFO") = 2 /\ Stage("ERASE") = 3
        /\ Stage("SET_ADDR") = 4 /\ Stage("FAST") = 5 /\ Stage("DATA") = 5 /\ Stage("RAW") = 5
        /\ Stage("CRC") = 6 /\ Stage("BOOT") = 7
    BY DEF Stage
  <1>4. \/ j = DataFrom(o) + N /\ o.crc /\ p.cmd = "CRC"
        \/ p.cmd = "BOOT"
    <2> DEFINE cmd == Scripts[o][j].cmd
    <2>1. \/ cmd \in {"PING", "RESET", "INFO", "ERASE", "SET_ADDR", "BOOT"}
          \/ cmd = o.mode
          \/ j = DataFrom(o) + N /\ o.crc /\ cmd = "CRC"
      BY <1>2, ScriptCommands
    <2>2. o.mode \in {"FAST", "RAW", "DATA"}
      BY <1>2, ScriptShape
    <2>3. cmd = p.cmd
      BY <1>1
    <2> HIDE DEF cmd, o, N
    <2> QED
      BY <1>3, <2>1, <2>2, <2>3 DEF N
  <1>5. j = DataFrom(o) + N /\ o.crc => p = CrcPacketSent
    BY <1>1, <1>2, ScriptShape
  <1> QED
    BY <1>4, <1>5 DEF CrcPacketSent

(* The image is where the metadata says, and has the CRC it says.          *)
LEMMA SettledWords ==
    ASSUME SafetyInv, Settled
    PROVE  /\ ReadSize(flash[SizeAddr]) \in 0 .. AppWords
           /\ Image(ReadSize(flash[SizeAddr])) = Firmware
           /\ flash[SizeAddr] = SizeWord[ReadSize(flash[SizeAddr])]
           /\ flash[MagicAddr] = APP_META_MAGIC
           /\ flash[CrcAddr] = Crc[Firmware]
           /\ flash[StateAddr] = APP_META_STATE_VALID
  <1> DEFINE n == ReadSize(flash[SizeAddr])
  <1>1. /\ flash[MagicAddr] = APP_META_MAGIC /\ flash[StateAddr] = APP_META_STATE_VALID
        /\ flash_if_is_in_app_region(APP_START_ADDR, n)
        /\ Crc[Image(n)] = flash[CrcAddr]
        /\ Image(n) = Firmware
    BY DEF Settled, bootloader_is_valid_metadata, InstalledImage
  <1>2. n \in 0 .. AppWords
    BY <1>1, ReadSizeType, RegionSize
  <1>3. IsSize(flash[SizeAddr])
    BY <1>2, LayoutAssumption DEF ReadSize
  <1>4. SizeWord[n] = flash[SizeAddr]
    BY <1>3 DEF ReadSize, IsSize
  <1> QED
    BY <1>1, <1>2, <1>4

(* CMD_CRC would write the words that are there already.                   *)
LEMMA SettledMetadata ==
    ASSUME HostTypeOK, SafetyInv, OrderInv, Settled, pc = "meta"
    PROVE  /\ AppSize \in 0 .. AppWords /\ step \in 0 .. 3 /\ frame.crc \in Word
           /\ \A i \in 0 .. 3 : flash[APP_META_ADDR + i] = MetadataWord(i, AppSize, frame.crc)
  <1> DEFINE n == ReadSize(flash[SizeAddr])
  <1>1. /\ n \in 0 .. AppWords
        /\ Image(n) = Firmware
        /\ flash[SizeAddr] = SizeWord[n]
        /\ flash[MagicAddr] = APP_META_MAGIC
        /\ flash[CrcAddr] = Crc[Firmware]
        /\ flash[StateAddr] = APP_META_STATE_VALID
    BY SettledWords
  <1>2. /\ AppSize \in 0 .. AppWords /\ step \in 0 .. 3 /\ frame.crc \in Word /\ TypeOKFlash
        /\ frame \in CrcPacket
    BY PositionType DEF SafetyInv, TypeOK, AppSize, CrcPacket
  <1>3. frame.crc = Crc[Image(AppSize)] /\ Image(AppSize) \in Images
    BY <1>2, ImageType DEF SafetyInv, MetaInv
  <1>4. frame.crc = Crc[Firmware]
    <2>1. frame \in Sent /\ frame.cmd = "CRC"
      BY <1>2 DEF OrderInv, Queued, Busy, CrcPacket
    <2>2. Stage(frame.cmd) >= 6
      BY <2>1 DEF Stage
    <2> QED
      BY <2>1, <2>2, ClosingPackets
  <1>5. Image(AppSize) = Firmware
    BY <1>3, <1>4, CrcIdealised, UploadAssumption
  <1>6. AppSize = n
    <2>1. DOMAIN Image(AppSize) = 1 .. AppSize /\ DOMAIN Image(n) = 1 .. n
      BY DEF Image
    <2>2. 1 .. AppSize = 1 .. n
      BY <1>1, <1>5, <2>1
    <2> QED
      BY <1>1, <1>2, <2>2
  <1> HIDE DEF n
  <1>7. APP_META_ADDR + 0 = MagicAddr
    BY LayoutAssumption DEF MagicAddr, APP_META_ADDR, APP_FLASH_END_ADDR
  <1>8. /\ flash[APP_META_ADDR + 0] = MetadataWord(0, AppSize, frame.crc)
        /\ flash[APP_META_ADDR + 1] = MetadataWord(1, AppSize, frame.crc)
        /\ flash[APP_META_ADDR + 2] = MetadataWord(2, AppSize, frame.crc)
        /\ flash[APP_META_ADDR + 3] = MetadataWord(3, AppSize, frame.crc)
    BY <1>1, <1>4, <1>6, <1>7 DEF SizeAddr, CrcAddr, StateAddr, MetadataWord
  <1>9. \A i \in 0 .. 3 : i = 0 \/ i = 1 \/ i = 2 \/ i = 3
    OBVIOUS
  <1> QED
    BY <1>2, <1>8, <1>9

(* Programming a word over itself changes nothing, however it goes.        *)
LEMMA SameWord ==
    ASSUME TypeOKFlash, NEW addr \in Address, NEW w, flash[addr] \cap w = flash[addr]
    PROVE  Programmed(addr, w) = flash
  BY DEF Programmed, TypeOKFlash

LEMMA SettledDevice ==
    ASSUME HostTypeOK, SafetyInv, OrderInv, Settled, DeviceStep \/ PowerLoss
    PROVE  UNCHANGED flash
  <1>1. pc \notin {"erase", "fast"}
    BY DEF SafetyInv, TypeOK, FastPacket, RawPacket, Settled, Queued, Busy, OrderInv
  <1>2. CASE pc # "meta"
    BY <1>1, <1>2 DEF DeviceStep, BoardFails, Startup, WaitTimeout,
          EraseNextSector, EraseLastSector, EraseFails, CommitFrame, FrameFails, WriteNextMetadata,
          WriteLastMetadata, MetadataFails, bootloader_jump_to_app, SystemReset, PowerLoss
  <1>3. CASE pc = "meta"
    <2> DEFINE w == MetadataWord(step, AppSize, frame.crc)
               addr == APP_META_ADDR + step
    <2>1. /\ AppSize \in 0 .. AppWords /\ step \in 0 .. 3 /\ frame.crc \in Word
          /\ flash[addr] = w
      BY <1>3, SettledMetadata
    <2>2. TypeOKFlash /\ addr \in Address
      BY <2>1, LayoutAssumption DEF SafetyInv, TypeOK, Address, FLASH_END_ADDR, APP_META_ADDR,
                                    APP_FLASH_END_ADDR
    <2>3. Programmed(addr, w) = flash
      BY <2>1, <2>2, SameWord
    <2>4. \A D \in SUBSET TornBits : Programmed(addr, w \cup D) = flash
      BY <2>1, <2>2, SameWord
    <2>5. (\E ok \in BOOLEAN : WriteMetadataWord(step, AppSize, frame.crc, ok))
          \/ flash' \in TornMetadataWord(step, AppSize, frame.crc) \/ UNCHANGED flash
      BY <1>3 DEF DeviceStep, BoardFails, Startup, WaitTimeout,
          EraseNextSector, EraseLastSector, EraseFails, CommitFrame, FrameFails, WriteNextMetadata,
          WriteLastMetadata, MetadataFails, bootloader_jump_to_app, SystemReset, PowerLoss
    <2> QED
      BY <2>3, <2>4, <2>5 DEF WriteMetadataWord, ProgramWord, TornMetadataWord
  <1> QED
    BY <1>2, <1>3

LEMMA SettledPacket ==
    ASSUME NEW pkt \in Packets, pkt.cmd \in {"CRC", "BOOT"},
           WaitReceive(pkt) \/ bootloader_handle_packet(pkt) \/ AppHandles(pkt)
    PROVE  UNCHANGED flash
  BY DEF WaitReceive, bootloader_handle_packet, AppHandles, app_can_poll,
         app_handle_bootloader_can_command, AppPing, AppReset, AppOther, ExampleReset,
         HandlePing, HandleInfo, HandleErase, HandleSetAddr, HandleData, HandleFast, HandleCrc,
         HandleBoot, HandleReset, HandleOther

LEMMA StillSettled ==
    ASSUME Settled, UNCHANGED flash, \A p \in Queued' : p \in Queued \/ p.cmd \in {"CRC", "BOOT"}
    PROVE  Settled'
  <1>1. bootloader_is_valid_metadata' <=> bootloader_is_valid_metadata
    BY DEF bootloader_is_valid_metadata, Image
  <1> QED
    BY <1>1, StableFlash DEF Settled

(* The CRC was acknowledged, or the uploader has got past it.              *)
Ending ==
    \/ Ack("CRC") \in Coming
    \/ options.crc /\ Running /\ Script[item].cmd = "BOOT"
    \/ options.crc /\ outcome = "done"

LEMMA DoneDevice ==
    ASSUME HostTypeOK, SafetyInv, BusTypeOK, OrderInv, DoneInv, Ending, ~(sent' = Ack("CRC")),
           DeviceReceive \/ DeviceRuns \/ PowerCycle \/ PowerLost
    PROVE  Settled'
  <1>1. Settled
    BY DEF DoneInv, Ending
  <1>2. CASE DeviceReceive
    <2> DEFINE pkt == Head(rx)
    <2>1. /\ rx # <<>> /\ rx' = Tail(rx) /\ pkt \in Packets
          /\ (WaitReceive(pkt) \/ bootloader_handle_packet(pkt) \/ AppHandles(pkt))
      BY <1>2, TakenPacket DEF DeviceReceive
    <2>2. pkt \in InFifo /\ InFifo' \subseteq InFifo
      BY <2>1, FifoFront DEF InFifo
    <2>3. pkt \in Queued /\ Queued' \subseteq Queued
      BY <2>1, <2>2, PacketAnswer DEF Queued, SafetyInv
    <2>4. UNCHANGED flash
      BY <1>1, <2>1, <2>3, SettledPacket DEF Settled
    <2> QED
      BY <1>1, <2>3, <2>4, StillSettled
  <1>3. CASE DeviceRuns
    <2>1. UNCHANGED flash
      BY <1>1, <1>3, SettledDevice DEF DeviceRuns, app_request_bootloader_reset
    <2>2. InFifo' \subseteq InFifo
      BY <1>3 DEF DeviceRuns, CanReset, InFifo
    <2>3. Busy' => Busy /\ frame' = frame
      BY <1>3, RunAnswer DEF DeviceRuns, OrderInv, SafetyInv
    <2>4. Queued' \subseteq Queued
      BY <2>2, <2>3 DEF Queued
    <2> QED
      BY <1>1, <2>1, <2>4, StillSettled
  <1>4. CASE PowerCycle \/ PowerLost
    <2>1. UNCHANGED flash
      BY <1>1, <1>4, SettledDevice DEF PowerCycle, PowerLost
    <2>2. Queued' = {}
      BY <1>4, OrderPower
    <2> QED
      BY <1>1, <2>1, <2>2, StillSettled
  <1> QED
    BY <1>2, <1>3, <1>4

(* The words of an image, whatever the flash.                              *)
LEMMA ImageOfFlash ==
    ASSUME NEW f, \A a \in AppAddress : f[a] \in Cell, NEW n \in 0 .. AppWords
    PROVE  [i \in 1 .. n |-> f[APP_START_ADDR + i - 1]] \in Images
  <1>1. \A i \in 1 .. n : APP_START_ADDR + i - 1 \in AppAddress
    BY LayoutAssumption DEF AppAddress, APP_FLASH_END_ADDR
  <1>2. [i \in 1 .. n |-> f[APP_START_ADDR + i - 1]] \in [1 .. n -> Cell]
    BY <1>1
  <1> QED
    BY <1>2 DEF Images

(* The acknowledgement of CMD_CRC says that the firmware is installed.     *)
LEMMA DoneBySeal ==
    ASSUME HostTypeOK, SafetyInv, SafetyInv', OrderInv, CrcAckTruthful', DeviceRuns, sent' = Ack("CRC")
    PROVE  Settled'
  <1>1. WriteLastMetadata /\ UNCHANGED rx
    BY RunAnswer DEF DeviceRuns, OrderInv, SafetyInv, Leaves, WriteLastMetadata
  <1>2. pc = "meta" /\ frame' = frame /\ ~Busy' /\ frame \in CrcPacket
    BY <1>1 DEF WriteLastMetadata, Busy, SafetyInv, TypeOK
  <1>3. frame \in Sent /\ frame.cmd = "CRC" /\ Busy
    BY <1>2 DEF OrderInv, Queued, Busy, CrcPacket
  <1>4. Stage(frame.cmd) = 6
    BY <1>3 DEF Stage
  <1>5. frame'.crc = Crc[Firmware]
    BY <1>2, <1>3, <1>4, ClosingPackets
  <1>6. \A p \in Queued' : p.cmd \in {"CRC", "BOOT"}
    <2>1. Queued' = InFifo
      BY <1>1, <1>2 DEF Queued, InFifo
    <2>2. \A p \in InFifo : p \in Sent /\ Stage(p.cmd) >= 6
      BY <1>3, <1>4, StageType DEF OrderInv, Queued
    <2> QED
      BY <2>1, <2>2, ClosingPackets
  <1>7. /\ bootloader_is_valid_metadata'
        /\ flash'[CrcAddr] = Crc[Firmware]
    BY <1>5 DEF CrcAckTruthful
  <1>8. Crc[InstalledImage'] = flash'[CrcAddr] /\ InstalledImage' \in Images
    <2>1. TypeOKFlash' /\ ReadSize(flash'[SizeAddr]) \in 0 .. AppWords
      BY <1>7, ReadSizeType, RegionSize DEF bootloader_is_valid_metadata, SafetyInv, TypeOK
    <2>2. InstalledImage' = [i \in 1 .. ReadSize(flash'[SizeAddr]) |-> flash'[APP_START_ADDR + i - 1]]
      BY DEF InstalledImage, Image
    <2>3. Crc[InstalledImage'] = flash'[CrcAddr]
      BY <1>7 DEF bootloader_is_valid_metadata, InstalledImage, Image
    <2> QED
      BY <2>1, <2>2, <2>3, ImageOfFlash DEF TypeOKFlash
  <1>9. InstalledImage' = Firmware
    BY <1>7, <1>8, CrcIdealised, UploadAssumption
  <1> QED
    BY <1>6, <1>7, <1>9 DEF Settled

LEMMA DoneSends ==
    ASSUME HostTypeOK, BusTypeOK, OrderInv, DoneInv, Ending,
           NEW arrives \in BOOLEAN, HostSends(arrives)
    PROVE  Settled'
  <1>1. Settled /\ UNCHANGED flash /\ Running /\ Queued' \subseteq Queued \cup {Script[item]}
    BY OrderSends DEF DoneInv, Ending, HostSends
  <1>2. Script[item].cmd \in {"CRC", "BOOT"}
    <2>1. CASE Ack("CRC") \in Coming
      <3>1. PICK p \in Sent : ResponseCmd(p) = Ack("CRC").cmd
        BY <2>1 DEF OrderInv
      <3>2. Stage(p.cmd) = 6
        BY <3>1 DEF Ack, ResponseCmd, Stage
      <3>3. \A j \in 1 .. item : Stage(Script[j].cmd) <= Stage(Script[item].cmd)
        BY ScriptInOrder, ScriptLength DEF Script, HostTypeOK
      <3>4. Script[item] \in Sent /\ Stage(Script[item].cmd) >= 6
        BY <3>2, <3>3, ScriptLength DEF Sent
      <3> QED
        BY <3>4, ClosingPackets
    <2>2. CASE Script[item].cmd = "BOOT"
      BY <2>2
    <2> QED
      BY <1>1, <2>1, <2>2 DEF Ending, Running
  <1> QED
    BY <1>1, <1>2, StillSettled

(* The uploader gets past CMD_CRC by its acknowledgement only.             *)
LEMMA DoneAccepts ==
    ASSUME HostTypeOK, BusTypeOK, OrderInv, HostAccept, Ending'
    PROVE  Ending
  <1> DEFINE r == Head(wire)
             o == options
             N == FrameCount(o.mode)
  <1>1. /\ Running
        /\ Coming' \subseteq Coming
        /\ UNCHANGED <<vars, rx, options>>
        /\ r \in Coming /\ r \in Responses
        /\ r.cmd = ResponseCmd(Script[item]) /\ r.type = "ACK"
        /\ Accepted(r)
        /\ item' \in 1 .. Len(Script) /\ item \in 1 .. Len(Script)
        /\ outcome' = "done" => item' = item /\ item = Len(Script)
    BY AcceptedAnswer, ScriptLength
  <1>2. Script' = Script /\ Script = Scripts[o] /\ o \in Options
    BY <1>1 DEF Script, HostTypeOK
  <1>3. Script[item].cmd = "CRC" => r = Ack("CRC")
    BY <1>1 DEF ResponseCmd, Responses, Ack, AppPingReply, AppResetReply
  <1> HIDE DEF r
  <1>4. /\ N \in Nat /\ DataFrom(o) \in {11, 12}
        /\ Len(Script) = DataFrom(o) + N - 1 + (IF o.crc THEN 1 ELSE 0) + (IF o.boot THEN 1 ELSE 0)
        /\ o.crc => Script[DataFrom(o) + N].cmd = "CRC"
        /\ o.boot => Script[Len(Script)].cmd = "BOOT"
    <2>1. /\ N \in Nat
          /\ Len(Scripts[o]) = DataFrom(o) + N - 1 + (IF o.crc THEN 1 ELSE 0)
                              + (IF o.boot THEN 1 ELSE 0)
      BY <1>2, ScriptShape
    <2>2. DataFrom(o) \in {11, 12}
      BY DEF DataFrom
    <2>3. /\ o.crc => Scripts[o][DataFrom(o) + N].cmd = "CRC"
          /\ o.boot => Scripts[o][Len(Scripts[o])].cmd = "BOOT"
      BY <1>2, LastCommands
    <2> QED
      BY <1>2, <2>1, <2>2, <2>3, Zenon
  <1>5. CASE Ack("CRC") \in Coming'
    BY <1>1, <1>5 DEF Ending
  <1>6. CASE o.crc /\ outcome' = "done"
    <2>1. item = Len(Script)
      BY <1>1, <1>6
    <2>2. CASE o.boot
      BY <1>1, <1>4, <1>6, <2>1, <2>2 DEF Ending
    <2>3. CASE ~o.boot
      <3>1. Script[item].cmd = "CRC"
        BY <1>4, <1>6, <2>1, <2>3
      <3> QED
        BY <1>1, <1>3, <3>1 DEF Ending
    <2> QED
      BY <2>2, <2>3
  <1>7. CASE o.crc /\ Running' /\ Script[item'].cmd = "BOOT"
    <2>1. item' >= DataFrom(o) + N /\ item' # DataFrom(o) + N
      <3>1. Stage(Scripts[o][item'].cmd) = 7
        BY <1>2, <1>7 DEF Stage
      <3> QED
        BY <1>1, <1>2, <1>7, <3>1, ScriptStage
    <2>2. item' > 10 /\ item' > DataFrom(o) + N
      BY <1>1, <1>4, <2>1
    <2>3. item' = item + 1
      BY <1>1, <1>7, <2>2, ScriptLength DEF Accepted, Advance, Fail, Running
    <2>4. item = DataFrom(o) + N
      BY <1>1, <1>4, <1>7, <2>2, <2>3
    <2>5. Script[item].cmd = "CRC"
      BY <1>4, <1>7, <2>4
    <2> QED
      BY <1>1, <1>3, <2>5 DEF Ending
  <1> QED
    BY <1>1, <1>2, <1>5, <1>6, <1>7 DEF Ending

LEMMA DoneNext ==
    ASSUME HostTypeOK, SafetyInv, SafetyInv', BusTypeOK, OrderInv, DoneInv, CrcAckTruthful',
           [UploadNext]_allVars, NextSession => ~Answering
    PROVE  DoneInv'
  <1> SUFFICES ASSUME Ending' PROVE Settled'
    BY DEF DoneInv, Ending
  <1>kept. ASSUME Ending PROVE Settled
    BY <1>kept DEF DoneInv, Ending
  <1>1. CASE DeviceReceive
    <2>1. Head(rx) \in Packets /\ Transmit /\ UNCHANGED <<wire, hostVars>>
          /\ (WaitReceive(Head(rx)) \/ bootloader_handle_packet(Head(rx)) \/ AppHandles(Head(rx)))
      BY <1>1, TakenPacket DEF DeviceReceive
    <2>2. sent' # Ack("CRC") /\ Answer(Head(rx))
      BY <2>1, PacketAnswer DEF SafetyInv
    <2>3. Coming' \subseteq Coming \cup {sent'}
      BY <2>1, <2>2, TransmitEffect DEF Answer
    <2>4. Ending
      BY <2>1, <2>2, <2>3 DEF Ending, Running, Script
    <2> QED
      BY <1>1, <2>2, <2>4, DoneDevice
  <1>2. CASE DeviceRuns
    <2>1. /\ DeviceStep \/ app_request_bootloader_reset
          /\ UNCHANGED <<wire, hostVars>>
          /\ CanReset \/ Transmit
      BY <1>2 DEF DeviceRuns
    <2>2. Answer(frame)
      BY <2>1, RunAnswer DEF SafetyInv, OrderInv
    <2>3. Coming' \subseteq Coming \cup {sent'}
      BY <2>1, <2>2, TransmitEffect, CanResetEffect DEF Answer
    <2>4. CASE sent' = Ack("CRC")
      BY <1>2, <2>4, DoneBySeal
    <2>5. CASE sent' # Ack("CRC")
      <3>1. Ending
        BY <2>1, <2>3, <2>5 DEF Ending, Running, Script
      <3> QED
        BY <1>2, <2>5, <3>1, DoneDevice
    <2> QED
      BY <2>4, <2>5
  <1>3. CASE PowerCycle \/ PowerLost
    <2>1. Coming' \subseteq Coming
      BY <1>3, OrderPower
    <2>2. UNCHANGED <<options, item, outcome>> /\ sent' = NoResponse
      BY <1>3 DEF PowerCycle, PowerLost, PowerLoss, Restart
    <2>3. sent' # Ack("CRC")
      BY <2>2 DEF NoResponse, Ack
    <2>4. Ending
      BY <2>1, <2>2 DEF Ending, Running, Script
    <2> QED
      BY <1>3, <2>3, <2>4, DoneDevice
  <1>4. CASE BusSends \/ AnswerLost \/ HostIgnores \/ UNCHANGED allVars
    <2>1. Coming' \subseteq Coming /\ UNCHANGED <<vars, rx, hostVars>>
      BY <1>4, OrderWire DEF BusSends, AnswerLost, HostIgnores
    <2>2. Ending
      BY <2>1 DEF Ending, Running, Script
    <2>3. Queued' = Queued
      BY <2>1 DEF Queued, InFifo, Busy
    <2> QED
      BY <1>kept, <2>1, <2>2, <2>3, StillSettled
  <1>5. ASSUME NEW arrives \in BOOLEAN, HostSends(arrives) PROVE Settled'
    <2>1. Coming' \subseteq Coming /\ UNCHANGED <<options, item, outcome>>
      BY <1>5, OrderSends DEF HostSends
    <2>2. Ending
      BY <2>1 DEF Ending, Running, Script
    <2> QED
      BY <1>5, <2>2, DoneSends
  <1>6. CASE HostAccept
    <2>1. Ending /\ UNCHANGED <<vars, rx>>
      BY <1>6, DoneAccepts, AcceptedAnswer
    <2>2. Queued' = Queued
      BY <2>1 DEF Queued, InFifo, Busy
    <2> QED
      BY <1>kept, <2>1, <2>2, StillSettled
  <1>7. CASE HostRejected \/ GiveUpWaiting
    <2>1. /\ Running /\ Coming' \subseteq Coming /\ outcome' # "done"
          /\ UNCHANGED <<vars, rx, options, item>>
      BY <1>7, OrderGivesUp DEF HostRejected, GiveUpWaiting, Fail, Running
    <2>2. Ending
      BY <2>1 DEF Ending, Running, Script
    <2>3. Queued' = Queued
      BY <2>1 DEF Queued, InFifo, Busy
    <2> QED
      BY <1>kept, <2>1, <2>2, <2>3, StillSettled
  <1>8. CASE NextSession
    <2>1. Coming' = {} /\ item' = 1 /\ outcome' = "running" /\ options' \in Options
      BY <1>8, OrderRestarts DEF NextSession, HostStartsAgain
    <2>2. Script'[item'].cmd = "PING"
      BY <2>1, ScriptShape DEF Script, Plain
    <2> QED
      BY <2>1, <2>2 DEF Ending
  <1> QED
    BY <1>1, <1>2, <1>3, <1>4, <1>5, <1>6, <1>7, <1>8, StepCases

-----------------------------------------------------------------------------
(* The invariant of a session and what follows from it.                    *)

LEMMA FirmwareLength == Len(Firmware) \in Nat /\ \E n \in Nat : Firmware \in [1 .. n -> Cell]
  BY UploadAssumption DEF Images

LEMMA SessionInit == UploadInit => SessionInv
  <1> SUFFICES ASSUME UploadInit PROVE SessionInv
    OBVIOUS
  <1>1. CrcAckTruthful
    BY CrcAckInit DEF UploadInit
  <1>2. /\ rx = <<>> /\ wire = <<>> /\ mailbox = [m \in Mailboxes |-> <<>>]
        /\ pc = "reset" /\ outcome = "running"
    BY DEF UploadInit, Init
  <1>3. item = 1 /\ tries = Retries + 1 /\ options \in Options /\ Retries \in Nat
    BY UploadAssumption DEF UploadInit, HostStarts
  <1>4. BusTypeOK /\ Coming = {} /\ Queued = {} /\ ~Busy
    BY <1>2 DEF BusTypeOK, Coming, Pending, Queued, InFifo, Busy
  <1>5. OrderInv
    BY <1>2, <1>3, <1>4 DEF OrderInv, InFifo, Busy
  <1>6. Script[item].cmd = "PING"
    BY <1>3, ScriptShape DEF Script, Plain
  <1>7. RequestInv /\ DoneInv
    BY <1>2, <1>3, <1>4, <1>6 DEF RequestInv, DoneInv
  <1>8. InTurn
    <2>1. OneAtATime
      BY <1>2, <1>4 DEF OneAtATime, Answering, Pending, Busy
    <2>2. info = NoInfo
      BY DEF UploadInit, HostStarts
    <2>3. PagesMatch
      BY <1>4, <2>2 DEF PagesMatch, InfoFromItsPage, NoInfo
    <2> QED
      BY <2>1, <2>3 DEF InTurn
  <1> QED
    BY <1>1, <1>4, <1>5, <1>7, <1>8 DEF SessionInv

(* An application acknowledges no CMD_CRC, and leaves the flash alone.     *)
LEMMA CrcAckSystem ==
    ASSUME HostTypeOK, SafetyInv, CrcAckTruthful, [UploadNext]_allVars
    PROVE  CrcAckTruthful'
  <1>1. CASE [Next]_vars
    BY <1>1, CrcAckNext
  <1>2. CASE AppStep
    <2>1. sent' # Ack("CRC")
      <3>1. CASE app_request_bootloader_reset
        <4>1. pc \in {"app", "asked"}
          BY <1>2, AppStepEffect
        <4> QED
          BY <3>1, <4>1, RunAnswer DEF SafetyInv, WriteLastMetadata
      <3>2. CASE \E pkt \in Packets : AppHandles(pkt)
        BY <3>2, PacketAnswer DEF SafetyInv
      <3> QED
        BY <1>2, <3>1, <3>2 DEF AppStep
    <2> QED
      BY <2>1 DEF CrcAckTruthful
  <1> QED
    BY <1>1, <1>2, StepOfDevice

LEMMA SessionNext ==
    ASSUME SystemInv, SystemInv', SessionInv, [UploadNext /\ StartsQuietly]_allVars
    PROVE  SessionInv'
  <1>1. [UploadNext]_allVars /\ (NextSession => ~Answering)
    BY NothingLeft DEF SystemInv, SessionInv
  <1>2. HostTypeOK /\ FaultsOK /\ SafetyInv /\ SafetyInv' /\ TypeOK
    BY DEF SystemInv, SafetyInv
  <1>3. CrcAckTruthful'
    BY <1>1, <1>2, CrcAckSystem DEF SessionInv
  <1>4. BusTypeOK' /\ OrderInv'
    BY <1>1, <1>2, OrderNext DEF SessionInv
  <1>5. RequestInv'
    BY <1>1, <1>2, RequestNext DEF SessionInv
  <1>6. DoneInv'
    BY <1>1, <1>2, <1>3, DoneNext DEF SessionInv
  <1>7. InTurn'
    BY <1>1, <1>2, InTurnNext DEF SessionInv
  <1> QED
    BY <1>3, <1>4, <1>5, <1>6, <1>7 DEF SessionInv

LEMMA QuietIsUpload == QuietUploadSpec => []SystemInv
  <1>1. [UploadNext /\ StartsQuietly]_allVars => [UploadNext]_allVars
    OBVIOUS
  <1> QED
    BY <1>1, SystemInit, SystemNext, PTL DEF QuietUploadSpec

(* Between uploader and device packets and answers keep the order of the   *)
(* script, the request gets through, and an acknowledged CRC means that    *)
(* the firmware is installed (can_uploader.py:136-178, can_if.c:69-115).   *)
THEOREM SessionInvariant == QuietUploadSpec => []SessionInv
  BY SessionInit, SessionNext, QuietIsUpload, PTL DEF QuietUploadSpec

(* The host that has its CMD_RESET acknowledged by an application meets    *)
(* the bootloader next as long as power is not lost, whatever else the     *)
(* device fails at: the request outlives the reset and is used up by the   *)
(* bootloader it is meant for.  Where no answer of an earlier run is left, *)
(* any number of answers may be late (app_test/main.c:166-178,             *)
(* bootloader.c:209-221, 499-518).                                         *)
THEOREM RequestIsMet ==
    QuietUploadSpec =>
        /\ []RequestReachesBootloader
        /\ [](Running /\ item = 3 /\ faults["power"] = 0 => pc \notin {"app", "wait"})
  <1>1. SessionInv => (Running /\ item = 3 /\ faults["power"] = 0 => pc \notin {"app", "wait"})
    <2> SUFFICES ASSUME SessionInv, Running, item = 3, faults["power"] = 0
                 PROVE  pc \notin {"app", "wait"}
      OBVIOUS
    <2>1. Requested
      BY DEF SessionInv, RequestInv
    <2> QED
      BY <2>1 DEF Requested
  <1>2. SessionInv => RequestReachesBootloader
    BY <1>1 DEF RequestReachesBootloader
  <1> QED
    BY <1>1, <1>2, SessionInvariant, PTL

LEMMA InstalledWhenDone ==
    ASSUME FirmwareBoots, SystemInv, SessionInv
    PROVE  DoneMeansInstalled
  <1> SUFFICES ASSUME outcome = "done", options.crc
               PROVE  bootloader_is_valid_app /\ InstalledImage = Firmware
    BY DEF DoneMeansInstalled
  <1>1. Settled
    BY DEF SessionInv, DoneInv
  <1>2. flash[APP_START_ADDR] = Firmware[1] /\ flash[APP_START_ADDR + 1] = Firmware[2]
    <2>1. \A i \in 1 .. Len(Firmware) : flash[APP_START_ADDR + i - 1] = Firmware[i]
      <3>1. Image(ReadSize(flash[SizeAddr])) = Firmware /\ Len(Firmware) \in Nat
            /\ ReadSize(flash[SizeAddr]) \in 0 .. AppWords
        BY <1>1, SettledWords, FirmwareLength DEF SystemInv
      <3> QED
        BY <3>1 DEF Image
    <2>2. /\ flash[APP_START_ADDR + 1 - 1] = Firmware[1]
          /\ flash[APP_START_ADDR + 2 - 1] = Firmware[2]
      BY <2>1 DEF FirmwareBoots
    <2> QED
      BY <2>2, LayoutAssumption
  <1> QED
    BY <1>1, <1>2 DEF Settled, FirmwareBoots, bootloader_is_valid_app

(* An upload that reports success has installed exactly the firmware, and  *)
(* the next start finds it valid and bootable, for every firmware with a   *)
(* vector table the bootloader accepts, and for any number of lost or late *)
(* frames and answers, of power losses and of failed runs before           *)
(* (can_uploader.py:230-343 against bootloader.c:441-485).                 *)
THEOREM SuccessIsInstalled ==
    ASSUME FirmwareBoots
    PROVE  QuietUploadSpec => []DoneMeansInstalled
  BY InstalledWhenDone, SessionInvariant, QuietIsUpload, PTL

-----------------------------------------------------------------------------
(* Until an answer is late every run of the uploader starts quietly.       *)

LEMMA PromptNext ==
    ASSUME SystemInv, SystemInv', NeverLate => SessionInv, [UploadNext]_allVars,
           NeverLate'
    PROVE  /\ NeverLate /\ SessionInv /\ SessionInv'
           /\ [UploadNext /\ StartsQuietly]_allVars
  <1>1. NeverLate
    BY LateCounted DEF SystemInv
  <1>2. [UploadNext /\ StartsQuietly]_allVars
    BY <1>1 DEF NeverLate, StartsQuietly
  <1> QED
    BY <1>1, <1>2, SessionNext

LEMMA PromptSession == UploadSpec => [](NeverLate => SessionInv)
  <1>1. UploadInit => (NeverLate => SessionInv)
    BY SessionInit
  <1>2. SystemInv /\ SystemInv' /\ (NeverLate => SessionInv) /\ [UploadNext]_allVars
          => (NeverLate => SessionInv)'
    BY PromptNext
  <1> QED
    BY <1>1, <1>2, SystemInvariant, PTL DEF UploadSpec

(* Until an answer is late success means installed, however soon a run of  *)
(* the uploader follows a failed one (can_uploader.py:136-178, 230-343).   *)
THEOREM PromptSuccess ==
    ASSUME FirmwareBoots
    PROVE  UploadSpec => [](NeverLate => DoneMeansInstalled)
  <1>1. SystemInv /\ (NeverLate => SessionInv)
          => (NeverLate => DoneMeansInstalled)
    BY InstalledWhenDone
  <1> QED
    BY <1>1, SystemInvariant, PromptSession, PTL

(* Until an answer is late each INFO page the host has taken is the page   *)
(* it asked for: recv_response, which does not look at the page, then has  *)
(* one answer to take (can_uploader.py:148, 248-259).                      *)
THEOREM PromptPages == UploadSpec => [](NeverLate => InfoFromItsPage)
  <1>1. (NeverLate => SessionInv) => (NeverLate => InfoFromItsPage)
    BY DEF SessionInv, InTurn, PagesMatch, NeverLate
  <1> QED
    BY <1>1, PromptSession, PTL
=============================================================================
