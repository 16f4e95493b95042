------------------------------- MODULE CanIf -------------------------------
(***************************************************************************)
(* The CAN interface of one device: the identifiers of boot_config.h, the  *)
(* filters, the receive FIFO and the transmit mailboxes of the bxCAN as    *)
(* src/can_if.c sets them up and uses them.                                *)
(*                                                                         *)
(* rx is the receive FIFO.  mailbox[m] is empty or holds one answer that   *)
(* waits for the bus.                                                      *)
(***************************************************************************)
EXTENDS Naturals, Sequences, FiniteSetsExt

CONSTANTS
    BOOT_NODE_ID,     \* node number the device was built with
    FifoDepth,        \* frames the receive FIFO holds: 3
    Mailboxes         \* transmit mailboxes: 0 .. 2

VARIABLES rx, mailbox

BOOT_NODE_ID_MAX == 15

ASSUME NodeAssumption == BOOT_NODE_ID \in 0 .. BOOT_NODE_ID_MAX

ASSUME CanAssumption ==
    /\ FifoDepth \in Nat \ {0}
    /\ Mailboxes # {} /\ Mailboxes \subseteq Nat /\ IsFiniteSet(Mailboxes)

-----------------------------------------------------------------------------
(* Identifiers of node n.                                                  *)

CAN_HOST_CMD_ID(n)           == 256 + n         \* 0x100
CAN_HOST_DATA_ID(n)          == 272 + n         \* 0x110
CAN_BOOT_RESP_ID(n)          == 384 + n         \* 0x180
CAN_HOST_SEQ_DATA_BASE_ID(n) == 512 + 16 * n    \* 0x200

(* Mutant: a mask that leaves out the lowest bit of the node number.       *)
TwoNodesSeqDataId(id) ==
    id \div 32 = CAN_HOST_SEQ_DATA_BASE_ID(BOOT_NODE_ID) \div 32

(* id & 0x7F0 == CAN_HOST_SEQ_DATA_BASE_ID.                                *)
is_fast_seq_data_id(id) == id - (id % 16) = CAN_HOST_SEQ_DATA_BASE_ID(BOOT_NODE_ID)

(* Mutant: the bank of the raw frames stores into receive FIFO 1, which    *)
(* can_if_receive_poll does not read.                                      *)
RawFilterIntoFifo1(id) == id = CAN_HOST_CMD_ID(BOOT_NODE_ID) \/ is_fast_seq_data_id(id)

(* What comes into receive FIFO 0: the three filter banks of the           *)
(* bootloader, all of which store there, compare the eleven standard       *)
(* identifier bits, or the upper eleven of an extended identifier, and     *)
(* nothing else of the frame.                                              *)
can_if_configure_filter(id) ==
    \/ id = CAN_HOST_CMD_ID(BOOT_NODE_ID)
    \/ id = CAN_HOST_DATA_ID(BOOT_NODE_ID)
    \/ is_fast_seq_data_id(id)

(* How bootloader_handle_packet tells packets apart.                       *)
PacketKind(id) ==
    CASE id = CAN_HOST_DATA_ID(BOOT_NODE_ID) -> "RAW"
      [] is_fast_seq_data_id(id)             -> "FAST"
      [] id = CAN_HOST_CMD_ID(BOOT_NODE_ID)  -> "CMD"
      [] OTHER -> "NONE"

-----------------------------------------------------------------------------
(* The FIFO and the mailboxes.                                             *)

CanReset == rx' = <<>> /\ mailbox' = [m \in Mailboxes |-> <<>>]

(* ReceiveFifoLocked is disabled: a frame that finds the FIFO full takes   *)
(* the place of the newest one.                                            *)
FifoAdd(f) == IF Len(rx) < FifoDepth THEN Append(rx, f) ELSE [rx EXCEPT ![FifoDepth] = f]

(* An answer takes the free mailbox with the lowest number, and is dropped *)
(* when there is none.                                                     *)
can_if_send_response(r) ==
    LET free == {m \in Mailboxes : mailbox[m] = <<>>}
    IN  mailbox' = IF free = {} THEN mailbox ELSE [mailbox EXCEPT ![Min(free)] = <<r>>]

(* TransmitFifoPriority is disabled and all answers carry one identifier:  *)
(* the lowest mailbox is sent first, whichever answer is the oldest.       *)
Pending  == {m \in Mailboxes : mailbox[m] # <<>>}
NextSent == mailbox[Min(Pending)][1]
SendNext == Pending # {} /\ mailbox' = [mailbox EXCEPT ![Min(Pending)] = <<>>]
=============================================================================
