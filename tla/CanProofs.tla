------------------------------ MODULE CanProofs ------------------------------
(***************************************************************************)
(* The receive path of CanBus, proved for every node number, every set of  *)
(* neighbours, every sequence number and every depth of the FIFO.          *)
(***************************************************************************)
EXTENDS CanBus, TLAPS

Nodes == 0 .. BOOT_NODE_ID_MAX

USE DEF BOOT_NODE_ID_MAX

-----------------------------------------------------------------------------
(* The identifiers.                                                        *)

LEMMA LowBits ==
    ASSUME NEW n \in Nodes, NEW r \in 0 .. 15
    PROVE  (512 + 16 * n + r) % 16 = r
  BY DEF Nodes

(* A data identifier of node n passes the mask of this node only when n is *)
(* this node.                                                              *)
LEMMA SeqDataOfNode ==
    ASSUME NEW n \in Nodes, NEW r \in 0 .. 15,
           is_fast_seq_data_id(CAN_HOST_SEQ_DATA_BASE_ID(n) + r)
    PROVE  n = BOOT_NODE_ID
  BY LowBits, NodeAssumption DEF Nodes, is_fast_seq_data_id, CAN_HOST_SEQ_DATA_BASE_ID

LEMMA SmallIdsAreNotData ==
    ASSUME NEW id \in 0 .. 511
    PROVE  ~is_fast_seq_data_id(id)
  BY NodeAssumption DEF is_fast_seq_data_id, CAN_HOST_SEQ_DATA_BASE_ID

(* Host and device compute one identifier for each node.                   *)
LEMMA HostIds ==
    ASSUME NEW n \in Nodes, NEW s \in Nat
    PROVE  /\ host_cmd_id(n) = CAN_HOST_CMD_ID(n)
           /\ host_data_id(n) = CAN_HOST_DATA_ID(n)
           /\ host_seq_data_id(n, s) = CAN_HOST_SEQ_DATA_BASE_ID(n) + (s % 16)
  BY DEF Nodes, host_cmd_id, host_data_id, host_seq_data_id,
         CAN_HOST_CMD_ID, CAN_HOST_DATA_ID, CAN_HOST_SEQ_DATA_BASE_ID

(* What a standard data frame on the bus means, once the filter has passed *)
(* it: it comes from an uploader of this node.                             *)
LEMMA HostFrame ==
    ASSUME NEW f \in HostFrames
    PROVE  /\ f.node \in Nodes /\ IsStandardData(f)
           /\ \/ f.kind = "CMD" /\ f.id = CAN_HOST_CMD_ID(f.node)
              \/ f.kind = "RAW" /\ f.id = CAN_HOST_DATA_ID(f.node)
              \/ /\ f.kind = "FAST" /\ f.seq \in Nat
                 /\ f.id = CAN_HOST_SEQ_DATA_BASE_ID(f.node) + (f.seq % 16)
  <1>1. CASE \E n \in Hosts : f = CommandFrame(n)
    BY <1>1, BusAssumption, HostIds DEF Nodes, CommandFrame, DataFrame, IsStandardData
  <1>2. CASE \E n \in Hosts : f = RawFrame(n)
    BY <1>2, BusAssumption, HostIds DEF Nodes, RawFrame, DataFrame, IsStandardData
  <1>3. CASE \E n \in Hosts, s \in Seqs : f = FastFrame(n, s)
    <2>1. PICK n \in Hosts, s \in Seqs : f = FastFrame(n, s)
      BY <1>3
    <2>2. n \in Nodes /\ s \in Nat
      BY BusAssumption DEF Nodes
    <2>3. /\ f.id = host_seq_data_id(n, s) /\ f.node = n /\ f.kind = "FAST" /\ f.seq = s
          /\ IsStandardData(f)
      BY <2>1 DEF FastFrame, DataFrame, IsStandardData
    <2> QED
      BY <2>2, <2>3, HostIds
  <1> QED
    BY <1>1, <1>2, <1>3 DEF HostFrames

LEMMA FilterPassesOwnFrames ==
    ASSUME NEW f \in HostFrames, can_if_configure_filter(f.id)
    PROVE  MeantFor(f)
  <1>1. CASE f.kind = "CMD" /\ f.id = CAN_HOST_CMD_ID(f.node)
    <2>1. f.id \in 256 .. 271 /\ ~is_fast_seq_data_id(f.id)
      BY <1>1, HostFrame, SmallIdsAreNotData DEF CAN_HOST_CMD_ID, Nodes
    <2>2. f.node = BOOT_NODE_ID
      BY <1>1, <2>1, HostFrame, NodeAssumption
         DEF can_if_configure_filter, CAN_HOST_CMD_ID, CAN_HOST_DATA_ID, Nodes
    <2>3. f.id = CAN_HOST_CMD_ID(BOOT_NODE_ID) /\ f.id # CAN_HOST_DATA_ID(BOOT_NODE_ID)
      BY <1>1, <2>2, NodeAssumption DEF CAN_HOST_CMD_ID, CAN_HOST_DATA_ID
    <2> QED
      BY <1>1, <2>1, <2>2, <2>3 DEF MeantFor, PacketKind
  <1>2. CASE f.kind = "RAW" /\ f.id = CAN_HOST_DATA_ID(f.node)
    <2>1. f.id \in 272 .. 287 /\ ~is_fast_seq_data_id(f.id)
      BY <1>2, HostFrame, SmallIdsAreNotData DEF CAN_HOST_DATA_ID, Nodes
    <2>2. f.node = BOOT_NODE_ID
      BY <1>2, <2>1, HostFrame, NodeAssumption
         DEF can_if_configure_filter, CAN_HOST_CMD_ID, CAN_HOST_DATA_ID, Nodes
    <2>3. f.id = CAN_HOST_DATA_ID(BOOT_NODE_ID) /\ f.id # CAN_HOST_CMD_ID(BOOT_NODE_ID)
      BY <1>2, <2>2, NodeAssumption DEF CAN_HOST_CMD_ID, CAN_HOST_DATA_ID
    <2> QED
      BY <1>2, <2>1, <2>2, <2>3 DEF MeantFor, PacketKind
  <1>3. CASE /\ f.kind = "FAST" /\ f.seq \in Nat
             /\ f.id = CAN_HOST_SEQ_DATA_BASE_ID(f.node) + (f.seq % 16)
    <2>1. f.seq % 16 \in 0 .. 15 /\ f.node \in Nodes
      BY <1>3, HostFrame
    <2>2. f.id >= 512 /\ f.id % 16 = f.seq % 16
      BY <1>3, <2>1, LowBits DEF CAN_HOST_SEQ_DATA_BASE_ID, Nodes
    <2>3. /\ is_fast_seq_data_id(f.id)
          /\ f.id # CAN_HOST_DATA_ID(BOOT_NODE_ID) /\ f.id # CAN_HOST_CMD_ID(BOOT_NODE_ID)
      BY <2>2, NodeAssumption
         DEF can_if_configure_filter, CAN_HOST_CMD_ID, CAN_HOST_DATA_ID
    <2>4. f.node = BOOT_NODE_ID
      BY <1>3, <2>1, <2>3, SeqDataOfNode
    <2> QED
      BY <1>3, <2>2, <2>3, <2>4 DEF MeantFor, PacketKind
  <1> QED
    BY <1>1, <1>2, <1>3, HostFrame

LEMMA FilterRejectsAnswers ==
    ASSUME NEW f \in DeviceFrames
    PROVE  ~can_if_configure_filter(f.id)
  <1>1. f.id \in 384 .. 399
    BY BusAssumption DEF DeviceFrames, AnswerFrame, DataFrame, CAN_BOOT_RESP_ID
  <1> QED
    BY <1>1, SmallIdsAreNotData, NodeAssumption
       DEF can_if_configure_filter, CAN_HOST_CMD_ID, CAN_HOST_DATA_ID

(* What is left when remote and extended frames are dropped.               *)
LEMMA DroppedLookalikes ==
    ASSUME NEW f \in Lookalikes
    PROVE  ~IsStandardData(f)
  <1>1. \A h \in HostFrames : [h EXCEPT !.rtr = TRUE].rtr /\ [h EXCEPT !.ide = "EXT"].ide = "EXT"
    BY DEF HostFrames, CommandFrame, RawFrame, FastFrame, DataFrame
  <1> QED
    BY <1>1 DEF Lookalikes, IsStandardData

LEMMA PassedIsMeant ==
    ASSUME NEW f \in Traffic, can_if_configure_filter(f.id), IsStandardData(f)
    PROVE  MeantFor(f)
  BY FilterPassesOwnFrames, FilterRejectsAnswers, DroppedLookalikes DEF Traffic

(* The filter decides by node: it passes nothing of another one.           *)
LEMMA PassedIsOwn ==
    ASSUME NEW f \in Traffic, can_if_configure_filter(f.id)
    PROVE  f.node = BOOT_NODE_ID
  <1>1. CASE f \in HostFrames
    BY <1>1, FilterPassesOwnFrames DEF MeantFor
  <1>2. CASE f \in DeviceFrames
    BY <1>2, FilterRejectsAnswers
  <1>3. CASE f \in Lookalikes
    <2>1. PICK h \in HostFrames : f = [h EXCEPT !.rtr = TRUE] \/ f = [h EXCEPT !.ide = "EXT"]
      BY <1>3 DEF Lookalikes
    <2>2. f.id = h.id /\ f.node = h.node
      BY <2>1 DEF HostFrames, CommandFrame, RawFrame, FastFrame, DataFrame
    <2> QED
      BY <2>2, FilterPassesOwnFrames DEF MeantFor
  <1> QED
    BY <1>1, <1>2, <1>3 DEF Traffic

(* And it passes everything that is addressed to this one.                 *)
LEMMA OwnArePassed ==
    ASSUME NEW f \in HostFrames, f.node = BOOT_NODE_ID
    PROVE  can_if_configure_filter(f.id)
  <1>1. CASE f.kind = "FAST" /\ f.id = CAN_HOST_SEQ_DATA_BASE_ID(f.node) + (f.seq % 16)
                /\ f.seq \in Nat
    <2>1. f.seq % 16 \in 0 .. 15 /\ f.node \in Nodes
      BY <1>1, HostFrame
    <2>2. f.id % 16 = f.seq % 16
      BY <1>1, <2>1, LowBits DEF CAN_HOST_SEQ_DATA_BASE_ID, Nodes
    <2>3. is_fast_seq_data_id(f.id)
      BY <1>1, <2>1, <2>2, NodeAssumption DEF is_fast_seq_data_id, CAN_HOST_SEQ_DATA_BASE_ID
    <2> QED
      BY <2>3 DEF can_if_configure_filter
  <1> QED
    BY <1>1, HostFrame DEF can_if_configure_filter

LEMMA PassedAreAddressed ==
    ASSUME NEW f \in Traffic
    PROVE  can_if_configure_filter(f.id) <=> Addressed(f)
  <1>1. ASSUME can_if_configure_filter(f.id) PROVE Addressed(f)
    BY <1>1, PassedIsOwn, FilterRejectsAnswers DEF Addressed
  <1>2. ASSUME Addressed(f) PROVE can_if_configure_filter(f.id)
    <2>1. PICK h \in HostFrames : f.id = h.id /\ f.node = h.node
      <3>1. CASE f \in HostFrames
        BY <3>1
      <3>2. CASE f \in Lookalikes
        <4>1. PICK h \in HostFrames : f = [h EXCEPT !.rtr = TRUE] \/ f = [h EXCEPT !.ide = "EXT"]
          BY <3>2 DEF Lookalikes
        <4>2. f.id = h.id /\ f.node = h.node
          BY <4>1 DEF HostFrames, CommandFrame, RawFrame, FastFrame, DataFrame
        <4> QED
          BY <4>2
      <3> QED
        BY <1>2, <3>1, <3>2 DEF Traffic, Addressed
    <2> QED
      BY <1>2, <2>1, OwnArePassed DEF Addressed
  <1> QED
    BY <1>1, <1>2

(* Of what is in the FIFO, the standard data frames are the uploader's.    *)
LEMMA StandardAreSent ==
    ASSUME NEW f \in Traffic, can_if_configure_filter(f.id)
    PROVE  IsStandardData(f) <=> f \in HostFrames
  BY PassedIsMeant, HostFrame DEF MeantFor

-----------------------------------------------------------------------------
(* The inductive invariant: what waits in the FIFO has passed the filter,  *)
(* and what was handled is older than what waits.                          *)

Entry == [frame : Traffic, pos : Nat]

Increasing(s) == \A j, k \in 1 .. Len(s) : j < k => s[j].pos < s[k].pos

BusTypeOK ==
    /\ rx \in Seq(Entry) /\ Len(rx) <= FifoDepth
    /\ handled \in Seq(Entry)
    /\ carried \in Nat

Passed == \A k \in 1 .. Len(rx) : can_if_configure_filter(rx[k].frame.id)

Meant == \A k \in 1 .. Len(handled) : MeantFor(handled[k].frame)

InOrder ==
    /\ Increasing(rx) /\ Increasing(handled)
    /\ \A k \in 1 .. Len(rx) : rx[k].pos <= carried
    /\ \A j \in 1 .. Len(handled), k \in 1 .. Len(rx) : handled[j].pos < rx[k].pos
    /\ \A k \in 1 .. Len(handled) : handled[k].pos <= carried

PathInv == BusTypeOK /\ Passed /\ Meant /\ InOrder

(* What is due at the handler has been handled, or waits in the FIFO.      *)
DueInv == due = PlacesOf(handled) \cup {rx[k].pos : k \in Queued}

BusInv == PathInv /\ DueInv

(* A frame that enters the FIFO is its newest, whether it finds room or    *)
(* takes the place of the newest before it.                                *)
LEMMA FifoAddEffect ==
    ASSUME NEW e \in Entry, rx \in Seq(Entry), Len(rx) <= FifoDepth
    PROVE  LET new == FifoAdd(e)
           IN  /\ new \in Seq(Entry) /\ Len(new) <= FifoDepth
               /\ Len(new) >= 1 /\ new[Len(new)] = e
               /\ Len(new) - 1 <= Len(rx)
               /\ \A k \in 1 .. Len(new) - 1 : new[k] = rx[k]
  <1>1. CASE Len(rx) < FifoDepth
    BY <1>1, CanAssumption DEF FifoAdd
  <1>2. CASE Len(rx) = FifoDepth
    BY <1>2, CanAssumption DEF FifoAdd
  <1> QED
    BY <1>1, <1>2, CanAssumption

LEMMA Positions ==
    ASSUME BusTypeOK
    PROVE  /\ Len(rx) \in Nat /\ Len(handled) \in Nat /\ carried \in Nat
           /\ \A k \in 1 .. Len(rx) : rx[k].pos \in Nat
           /\ \A k \in 1 .. Len(handled) : handled[k].pos \in Nat
  <1>1. /\ Len(rx) \in Nat /\ Len(handled) \in Nat /\ carried \in Nat
        /\ \A k \in 1 .. Len(rx) : rx[k] \in Entry
        /\ \A k \in 1 .. Len(handled) : handled[k] \in Entry
    BY DEF BusTypeOK
  <1>2. \A e \in Entry : e.pos \in Nat
    BY DEF Entry
  <1> QED
    BY <1>1, <1>2

LEMMA InitBus == BusInit => BusInv
  BY CanAssumption
     DEF BusInit, BusInv, PathInv, BusTypeOK, Passed, Meant, InOrder, Increasing, DueInv, PlacesOf, Queued

(* The bus carries a frame: it is younger than all there is.               *)
LEMMA CarriesKeeps ==
    ASSUME PathInv, NEW f \in Traffic, BusCarries(f)
    PROVE  PathInv'
  <1> DEFINE e == [frame |-> f, pos |-> carried + 1]
  <1>1. e \in Entry /\ carried' = carried + 1 /\ handled' = handled
    BY DEF PathInv, BusTypeOK, BusCarries, Entry
  <1>2. Meant'
    BY <1>1 DEF PathInv, Meant
  <1>3. CASE can_started /\ can_if_configure_filter(f.id)
    <2>1. rx' = FifoAdd(e)
      BY <1>3 DEF BusCarries
    <2>2. /\ rx' \in Seq(Entry) /\ Len(rx') <= FifoDepth
          /\ Len(rx') >= 1 /\ rx'[Len(rx')] = e
          /\ Len(rx') - 1 <= Len(rx)
          /\ \A k \in 1 .. Len(rx') - 1 : rx'[k] = rx[k]
      BY <1>1, <2>1, FifoAddEffect DEF PathInv, BusTypeOK
    <2>3. /\ Len(rx) \in Nat /\ Len(rx') \in Nat /\ Len(handled) \in Nat
          /\ \A k \in 1 .. Len(rx) : rx[k].pos \in Nat
          /\ \A k \in 1 .. Len(handled) : handled[k].pos \in Nat
      BY <2>2, Positions DEF PathInv
    <2>4. \A k \in 1 .. Len(rx') : k = Len(rx') \/ (k \in 1 .. Len(rx) /\ rx'[k] = rx[k])
      <3> DEFINE n == Len(rx)
                 m == Len(rx')
      <3>1. n \in Nat /\ m \in Nat /\ m - 1 <= n /\ \A k \in 1 .. m - 1 : rx'[k] = rx[k]
        BY <2>2, <2>3
      <3> HIDE DEF n, m
      <3>2. \A k \in 1 .. m : k = m \/ (k \in 1 .. m - 1 /\ k \in 1 .. n)
        BY <3>1
      <3>3. \A k \in 1 .. m : k = m \/ (k \in 1 .. n /\ rx'[k] = rx[k])
        BY <3>1, <3>2
      <3> QED
        BY <3>3 DEF n, m
    <2>5. BusTypeOK'
      BY <1>1, <2>2 DEF PathInv, BusTypeOK
    <2>6. Passed'
      BY <1>3, <2>2, <2>4 DEF PathInv, Passed
    <2>7. e.pos = carried + 1 /\ carried \in Nat
      BY DEF PathInv, BusTypeOK
    <2>8. \A k \in 1 .. Len(rx) : rx[k].pos \in Nat /\ rx[k].pos <= carried
      BY <2>3 DEF PathInv, InOrder
    <2>9. \A k \in 1 .. Len(rx') : rx'[k].pos <= carried + 1
      <3> TAKE k \in 1 .. Len(rx')
      <3>1. CASE k = Len(rx')
        BY <2>2, <2>7, <3>1
      <3>2. CASE k \in 1 .. Len(rx) /\ rx'[k] = rx[k]
        BY <2>7, <2>8, <3>2
      <3> QED
        BY <2>4, <3>1, <3>2
    <2>10. Increasing(rx)'
      <3> SUFFICES ASSUME NEW j \in 1 .. Len(rx'), NEW k \in 1 .. Len(rx'), j < k
                   PROVE  rx'[j].pos < rx'[k].pos
        BY DEF Increasing
      <3>1. j # Len(rx')
        BY <2>3
      <3>2. j \in 1 .. Len(rx) /\ rx'[j] = rx[j] /\ rx[j].pos <= carried /\ rx[j].pos \in Nat
        BY <2>4, <2>8, <3>1
      <3>3. CASE k = Len(rx')
        <4>1. rx'[k].pos = carried + 1
          BY <2>2, <2>7, <3>3
        <4> QED
          BY <2>7, <3>2, <4>1
      <3>4. CASE k \in 1 .. Len(rx) /\ rx'[k] = rx[k]
        BY <3>2, <3>4 DEF PathInv, InOrder, Increasing
      <3> QED
        BY <2>4, <3>3, <3>4
    <2>11. \A k \in 1 .. Len(handled) : handled[k].pos \in Nat /\ handled[k].pos <= carried
      BY <2>3 DEF PathInv, InOrder
    <2>12. \A j \in 1 .. Len(handled), k \in 1 .. Len(rx') : handled[j].pos < rx'[k].pos
      <3> TAKE j \in 1 .. Len(handled), k \in 1 .. Len(rx')
      <3>1. CASE k = Len(rx')
        <4>1. rx'[k].pos = carried + 1
          BY <2>2, <2>7, <3>1
        <4> QED
          BY <2>7, <2>11, <4>1
      <3>2. CASE k \in 1 .. Len(rx) /\ rx'[k] = rx[k]
        BY <3>2 DEF PathInv, InOrder
      <3> QED
        BY <2>4, <3>1, <3>2
    <2>13. Increasing(handled)' /\ \A k \in 1 .. Len(handled) : handled[k].pos <= carried + 1
      BY <1>1, <2>3, <2>7 DEF PathInv, InOrder, Increasing
    <2> QED
      BY <1>1, <1>2, <2>5, <2>6, <2>9, <2>10, <2>12, <2>13 DEF PathInv, InOrder
  <1>4. CASE ~(can_started /\ can_if_configure_filter(f.id))
    <2>1. rx' = rx
      BY <1>4 DEF BusCarries
    <2>2. /\ Len(rx) \in Nat /\ Len(handled) \in Nat /\ carried \in Nat
          /\ \A k \in 1 .. Len(rx) : rx[k].pos \in Nat
          /\ \A k \in 1 .. Len(handled) : handled[k].pos \in Nat
      BY Positions DEF PathInv
    <2>3. (Increasing(rx) /\ Increasing(handled))'
      BY <1>1, <2>1 DEF PathInv, InOrder, Increasing
    <2>4. /\ \A k \in 1 .. Len(rx) : rx[k].pos <= carried + 1
          /\ \A k \in 1 .. Len(handled) : handled[k].pos <= carried + 1
      BY <2>2 DEF PathInv, InOrder
    <2>5. InOrder'
      BY <1>1, <2>1, <2>3, <2>4 DEF PathInv, InOrder
    <2> QED
      BY <1>1, <1>2, <2>1, <2>5 DEF PathInv, BusTypeOK, Passed
  <1> QED
    BY <1>3, <1>4

(* The oldest frame leaves the FIFO and is handled, or dropped.            *)
LEMMA PollKeeps ==
    ASSUME PathInv, can_if_receive_poll
    PROVE  PathInv'
  <1>1. /\ rx # <<>> /\ rx' = Tail(rx) /\ carried' = carried
        /\ rx \in Seq(Entry) /\ Len(rx) <= FifoDepth /\ handled \in Seq(Entry)
        /\ FifoDepth \in Nat
    BY CanAssumption DEF PathInv, BusTypeOK, can_if_receive_poll
  <1>2. /\ Len(rx) \in Nat \ {0} /\ Len(rx') = Len(rx) - 1 /\ Head(rx) = rx[1]
        /\ rx' \in Seq(Entry) /\ Len(rx') <= FifoDepth /\ rx[1] \in Entry
        /\ \A k \in 1 .. Len(rx') : k + 1 \in 1 .. Len(rx) /\ rx'[k] = rx[k + 1]
    BY <1>1
  <1>3. Passed'
    BY <1>2 DEF PathInv, Passed
  <1>4. /\ carried \in Nat /\ Len(handled) \in Nat
        /\ \A k \in 1 .. Len(rx) : rx[k].pos \in Nat
        /\ \A k \in 1 .. Len(handled) : handled[k].pos \in Nat
    BY Positions DEF PathInv
  <1>5. \A k \in 1 .. Len(rx') :
            /\ rx'[k].pos <= carried /\ rx[1].pos < rx'[k].pos
            /\ \A j \in 1 .. Len(rx') : j < k => rx'[j].pos < rx'[k].pos
            /\ \A j \in 1 .. Len(handled) : handled[j].pos < rx'[k].pos
    <2> TAKE k \in 1 .. Len(rx')
    <2>1. 1 \in 1 .. Len(rx) /\ k + 1 \in 1 .. Len(rx) /\ 1 < k + 1 /\ rx'[k] = rx[k + 1]
      BY <1>2
    <2>2. \A j \in 1 .. Len(rx') : j < k => rx'[j].pos < rx'[k].pos
      <3> SUFFICES ASSUME NEW j \in 1 .. Len(rx'), j < k PROVE rx'[j].pos < rx'[k].pos
        OBVIOUS
      <3>1. j + 1 \in 1 .. Len(rx) /\ j + 1 < k + 1 /\ rx'[j] = rx[j + 1]
        BY <1>2
      <3> QED
        BY <2>1, <3>1 DEF PathInv, InOrder, Increasing
    <2> QED
      BY <2>1, <2>2 DEF PathInv, InOrder, Increasing
  <1>6. CASE handled' = handled
    BY <1>1, <1>2, <1>3, <1>5, <1>6
       DEF PathInv, BusTypeOK, Meant, InOrder, Increasing
  <1>7. CASE handled' = Append(handled, rx[1]) /\ IsStandardData(rx[1].frame)
    <2>1. /\ handled' \in Seq(Entry) /\ Len(handled') = Len(handled) + 1
          /\ handled'[Len(handled')] = rx[1]
          /\ \A k \in 1 .. Len(handled) : handled'[k] = handled[k]
      BY <1>1, <1>2, <1>7
    <2>2. \A k \in 1 .. Len(handled') :
              k = Len(handled') \/ (k \in 1 .. Len(handled) /\ handled'[k] = handled[k])
      BY <1>4, <2>1
    <2>3. MeantFor(rx[1].frame)
      <3>1. rx[1].frame \in Traffic /\ 1 \in 1 .. Len(rx)
        BY <1>2 DEF Entry
      <3> QED
        BY <1>7, <3>1, PassedIsMeant DEF PathInv, Passed
    <2>4. Meant'
      BY <2>1, <2>2, <2>3 DEF PathInv, Meant
    <2>5. rx[1].pos \in Nat /\ rx[1].pos <= carried
          /\ \A j \in 1 .. Len(handled) : handled[j].pos < rx[1].pos
      BY <1>2, <1>4 DEF PathInv, InOrder
    <2>6. Increasing(handled)'
      <3> SUFFICES ASSUME NEW j \in 1 .. Len(handled'), NEW k \in 1 .. Len(handled'), j < k
                   PROVE  handled'[j].pos < handled'[k].pos
        BY DEF Increasing
      <3>1. j \in 1 .. Len(handled) /\ handled'[j] = handled[j]
        BY <1>4, <2>1, <2>2
      <3>2. CASE k = Len(handled')
        BY <2>1, <2>5, <3>1, <3>2
      <3>3. CASE k \in 1 .. Len(handled) /\ handled'[k] = handled[k]
        BY <3>1, <3>3 DEF PathInv, InOrder, Increasing
      <3> QED
        BY <2>2, <3>2, <3>3
    <2>7. \A j \in 1 .. Len(handled'), k \in 1 .. Len(rx') : handled'[j].pos < rx'[k].pos
      BY <1>5, <2>1, <2>2
    <2>8. \A k \in 1 .. Len(handled') : handled'[k].pos <= carried
      BY <2>1, <2>2, <2>5 DEF PathInv, InOrder
    <2> QED
      BY <1>1, <1>2, <1>3, <1>5, <2>1, <2>4, <2>6, <2>7, <2>8
         DEF PathInv, BusTypeOK, InOrder, Increasing
  <1> QED
    BY <1>2, <1>6, <1>7 DEF can_if_receive_poll

LEMMA StopKeeps ==
    ASSUME PathInv, CanStops
    PROVE  PathInv'
  <1>1. rx' = <<>> /\ handled' = handled /\ carried' = carried
    BY DEF CanStops, CanReset
  <1>2. rx' \in Seq(Entry) /\ Len(rx') = 0
    BY <1>1
  <1> QED
    BY <1>1, <1>2, CanAssumption
       DEF PathInv, BusTypeOK, Passed, Meant, InOrder, Increasing

(* The places on the bus of what is handled and what waits are all         *)
(* different.                                                              *)
LEMMA PlacesDiffer ==
    ASSUME PathInv
    PROVE  /\ DOMAIN rx = 1 .. Len(rx) /\ DOMAIN handled = 1 .. Len(handled)
           /\ Len(rx) \in Nat /\ Len(handled) \in Nat
           /\ \A j, k \in DOMAIN rx : rx[j].pos = rx[k].pos => j = k
           /\ \A j \in DOMAIN handled, k \in DOMAIN rx : handled[j].pos # rx[k].pos
           /\ \A k \in DOMAIN rx : rx[k].frame \in Traffic
  <1>1. /\ DOMAIN rx = 1 .. Len(rx) /\ DOMAIN handled = 1 .. Len(handled)
        /\ Len(rx) \in Nat /\ Len(handled) \in Nat
        /\ \A k \in DOMAIN rx : rx[k].frame \in Traffic
    <2>1. /\ DOMAIN rx = 1 .. Len(rx) /\ DOMAIN handled = 1 .. Len(handled)
          /\ Len(rx) \in Nat /\ Len(handled) \in Nat
          /\ \A k \in DOMAIN rx : rx[k] \in Entry
      BY DEF PathInv, BusTypeOK
    <2>2. \A n \in Entry : n.frame \in Traffic
      BY DEF Entry
    <2> QED
      BY <2>1, <2>2
  <1>2. /\ \A k \in 1 .. Len(rx) : rx[k].pos \in Nat
        /\ \A k \in 1 .. Len(handled) : handled[k].pos \in Nat
    BY Positions DEF PathInv
  <1>3. \A j, k \in DOMAIN rx : rx[j].pos = rx[k].pos => j = k
    BY <1>1, <1>2 DEF PathInv, InOrder, Increasing
  <1>4. \A j \in DOMAIN handled, k \in DOMAIN rx : handled[j].pos # rx[k].pos
    BY <1>1, <1>2 DEF PathInv, InOrder
  <1> QED
    BY <1>1, <1>3, <1>4

LEMMA CarriesDue ==
    ASSUME BusInv, NEW f \in Traffic, BusCarries(f)
    PROVE  DueInv'
  <1> DEFINE e == [frame |-> f, pos |-> carried + 1]
             waiting == {rx[k].pos : k \in Queued}
             new == IF f \in HostFrames THEN {carried + 1} ELSE {}
  <1>1. handled' = handled /\ due' = DueAfter(f) /\ due = PlacesOf(handled) \cup waiting
    BY DEF BusCarries, BusInv, DueInv
  <1>2. PlacesOf(handled)' = PlacesOf(handled)
    BY <1>1 DEF PlacesOf
  <1>3. CASE can_started /\ Addressed(f)
    <2>1. rx' = FifoAdd(e) /\ due' = (due \ Overrun) \cup new
      BY <1>1, <1>3, PassedAreAddressed DEF BusCarries, DueAfter
    <2>2. /\ rx \in Seq(Entry) /\ Len(rx) \in Nat /\ DOMAIN rx = 1 .. Len(rx) /\ Len(rx) <= FifoDepth
          /\ FifoDepth \in Nat \ {0}
      BY PlacesDiffer, CanAssumption DEF BusInv, PathInv, BusTypeOK
    <2>3. CASE Len(rx) < FifoDepth /\ Len(rx) # FifoDepth
      <3>1. rx' = Append(rx, e) /\ Overrun = {}
        BY <2>1, <2>3, Zenon DEF FifoAdd, Overrun
      <3>2. /\ DOMAIN rx' = DOMAIN rx \cup {Len(rx) + 1} /\ rx'[Len(rx) + 1] = e
            /\ \A k \in DOMAIN rx : rx'[k] = rx[k]
        BY <2>2, <3>1
      <3>3. e.frame = f /\ e.pos = carried + 1
        OBVIOUS
      <3> HIDE DEF e
      <3>4. {rx'[k].pos : k \in Queued'} = waiting \cup new
        BY <3>2, <3>3 DEF Queued
      <3> HIDE DEF waiting, new
      <3> QED
        BY <1>1, <1>2, <2>1, <3>1, <3>4 DEF DueInv
    <2>4. CASE Len(rx) = FifoDepth
      <3>1. rx' = [rx EXCEPT ![FifoDepth] = e] /\ Overrun = {rx[FifoDepth].pos}
        BY <2>1, <2>2, <2>4 DEF FifoAdd, Overrun
      <3>2. /\ DOMAIN rx' = DOMAIN rx /\ FifoDepth \in DOMAIN rx /\ rx'[FifoDepth] = e
            /\ \A k \in DOMAIN rx : k # FifoDepth => rx'[k] = rx[k]
        BY <2>2, <2>4, <3>1
      <3>3. e.frame = f /\ e.pos = carried + 1
        OBVIOUS
      <3>4. /\ \A k \in DOMAIN rx : rx[k].pos = rx[FifoDepth].pos => k = FifoDepth
            /\ rx[FifoDepth].pos \notin PlacesOf(handled)
        BY <3>2, PlacesDiffer DEF BusInv, PlacesOf
      <3> HIDE DEF e
      <3>5. {rx'[k].pos : k \in Queued'} = (waiting \ {rx[FifoDepth].pos}) \cup new
        BY <3>2, <3>3, <3>4 DEF Queued
      <3> HIDE DEF waiting, new
      <3> QED
        BY <1>1, <1>2, <2>1, <3>1, <3>4, <3>5 DEF DueInv
    <2>5. (Len(rx) < FifoDepth /\ Len(rx) # FifoDepth) \/ Len(rx) = FifoDepth
      <3> DEFINE n == Len(rx)
      <3>1. n \in Nat /\ n <= FifoDepth /\ FifoDepth \in Nat
        BY <2>2
      <3> HIDE DEF n
      <3>2. (n < FifoDepth /\ n # FifoDepth) \/ n = FifoDepth
        BY <3>1
      <3> QED
        BY <3>2 DEF n
    <2> QED
      BY <2>3, <2>4, <2>5
  <1>4. CASE ~(can_started /\ Addressed(f))
    BY <1>1, <1>2, <1>4, PassedAreAddressed DEF BusCarries, DueAfter, DueInv, Queued
  <1> QED
    BY <1>3, <1>4

LEMMA PollDue ==
    ASSUME BusInv, can_if_receive_poll
    PROVE  DueInv'
  <1>1. /\ rx \in Seq(Entry) /\ rx # <<>> /\ rx' = Tail(rx) /\ due' = due
        /\ handled \in Seq(Entry)
        /\ due = PlacesOf(handled) \cup {rx[k].pos : k \in Queued}
    BY DEF can_if_receive_poll, BusInv, PathInv, BusTypeOK, DueInv
  <1>2. /\ Len(rx) \in Nat \ {0} /\ DOMAIN rx = 1 .. Len(rx) /\ Head(rx) = rx[1]
        /\ DOMAIN rx' = 1 .. Len(rx) - 1 /\ \A k \in DOMAIN rx' : rx'[k] = rx[k + 1]
    BY <1>1
  <1>3. \A k \in DOMAIN rx : k = 1 \/ (k - 1 \in DOMAIN rx' /\ rx'[k - 1] = rx[k])
    BY <1>2
  <1>4. \A k \in DOMAIN rx' : k + 1 \in DOMAIN rx /\ k + 1 # 1
    BY <1>2
  <1>5. {rx[k].pos : k \in Queued}
          = {rx'[k].pos : k \in Queued'} \cup (IF 1 \in Queued THEN {rx[1].pos} ELSE {})
    BY <1>2, <1>3, <1>4 DEF Queued
  <1>6. IsStandardData(rx[1].frame) <=> 1 \in Queued
    <2>1. 1 \in DOMAIN rx /\ rx[1].frame \in Traffic /\ can_if_configure_filter(rx[1].frame.id)
      BY <1>2, PlacesDiffer DEF BusInv, PathInv, Passed
    <2> QED
      BY <2>1, StandardAreSent DEF Queued
  <1>7. PlacesOf(handled') = PlacesOf(handled) \cup (IF 1 \in Queued THEN {rx[1].pos} ELSE {})
    <2>1. CASE 1 \in Queued
      <3>1. handled' = Append(handled, rx[1]) /\ Len(handled) \in Nat
        BY <1>1, <1>2, <1>6, <2>1 DEF can_if_receive_poll
      <3>2. /\ DOMAIN handled' = DOMAIN handled \cup {Len(handled) + 1}
            /\ handled'[Len(handled) + 1] = rx[1]
            /\ \A k \in DOMAIN handled : handled'[k] = handled[k]
        BY <1>1, <1>2, <3>1
      <3> QED
        BY <2>1, <3>2 DEF PlacesOf
    <2>2. CASE 1 \notin Queued
      BY <1>2, <1>6, <2>2 DEF can_if_receive_poll, PlacesOf
    <2> QED
      BY <2>1, <2>2
  <1> QED
    BY <1>1, <1>5, <1>7, Zenon DEF DueInv, PlacesOf

LEMMA StopDue ==
    ASSUME BusInv, CanStops
    PROVE  DueInv'
  <1>1. /\ rx' = <<>> /\ handled' = handled /\ due' = due \ PlacesOf(rx)
        /\ due = PlacesOf(handled) \cup {rx[k].pos : k \in Queued}
    BY DEF CanStops, CanReset, BusInv, DueInv
  <1>2. PlacesOf(handled) \cap PlacesOf(rx) = {} /\ {rx[k].pos : k \in Queued} \subseteq PlacesOf(rx)
    BY PlacesDiffer DEF BusInv, PlacesOf, Queued
  <1>3. {rx'[k].pos : k \in Queued'} = {} /\ PlacesOf(handled') = PlacesOf(handled)
    BY <1>1 DEF Queued
  <1> QED
    BY <1>1, <1>2, <1>3 DEF DueInv, PlacesOf

LEMMA NextBus ==
    ASSUME BusInv, [BusNext]_canVars
    PROVE  BusInv'
  <1>1. CASE CanStarts \/ UNCHANGED canVars
    BY <1>1 DEF CanStarts, canVars, BusInv, PathInv, BusTypeOK, Passed, Meant, InOrder, Increasing,
                DueInv, PlacesOf, Queued
  <1>2. CASE CanStops
    BY <1>2, StopKeeps, StopDue DEF BusInv
  <1>3. CASE can_if_receive_poll
    BY <1>3, PollKeeps, PollDue DEF BusInv
  <1>4. ASSUME NEW f \in Traffic, BusCarries(f) PROVE BusInv'
    BY <1>4, CarriesKeeps, CarriesDue DEF BusInv
  <1> QED
    BY <1>1, <1>2, <1>3, <1>4 DEF BusNext

(* Whatever the bus carries, in whatever order, what reaches the packet    *)
(* handler was meant for it and is taken for what it was meant as          *)
(* (can_if.c:10-38, 92-115, bootloader.c:246-256).                         *)
THEOREM OnlyOwnFrames == BusSpec => []HandledAsMeant
  <1>1. BusInv => HandledAsMeant
    BY DEF BusInv, PathInv, BusTypeOK, Meant, HandledAsMeant
  <1> QED
    BY InitBus, NextBus, <1>1, PTL DEF BusSpec

(* The packet handler gets every frame of its uploader once and in order,  *)
(* but for those an overrun or a stop took, with a FIFO of any depth and   *)
(* any other traffic (can_if.c:10-38, 92-115).                             *)
THEOREM FramesArriveAsSent == BusSpec => []HandledAsSent
  <1>1. BusInv => HandledAsSent
    BY DEF BusInv, PathInv, BusTypeOK, InOrder, Increasing, HandledAsSent, DueInv
  <1> QED
    BY InitBus, NextBus, <1>1, PTL DEF BusSpec

(* An upload to another node never takes a place in the FIFO               *)
(* (can_if.c:10-38).                                                       *)
THEOREM OthersAreFiltered == BusSpec => OthersDoNotDisturb
  <1>1. \A f \in Traffic : f.node # BOOT_NODE_ID /\ BusCarries(f) => UNCHANGED rx
    BY PassedIsOwn DEF BusCarries
  <1> QED
    BY <1>1, PTL DEF OthersDoNotDisturb
=============================================================================
