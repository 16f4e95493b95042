------------------------------- MODULE CanBus -------------------------------
(***************************************************************************)
(* One bus with several devices and a host for each of them, seen from the *)
(* receiver of one device: which frames reach bootloader_handle_packet, as *)
(* what, and in which order.                                               *)
(***************************************************************************)
EXTENDS CanIf

CONSTANTS
    Hosts,        \* nodes some uploader is talking to
    Seqs,         \* numbers of data frames they send
    MaxFrames     \* frames on the bus in a behaviour

VARIABLES
    can_started,
    carried,      \* number of frames the bus has carried
    handled,      \* frames given to bootloader_handle_packet, oldest first
    due           \* history: places on the bus of the frames it should get

canVars == <<rx, mailbox, can_started, carried, handled, due>>

ASSUME BusAssumption ==
    /\ Hosts \subseteq 0 .. BOOT_NODE_ID_MAX
    /\ Seqs \subseteq Nat
    /\ MaxFrames \in Nat

-----------------------------------------------------------------------------
(* Frames.  node, kind and seq say what the sender means.                  *)

DataFrame(id, node, kind, seq) ==
    [id |-> id, ide |-> "STD", rtr |-> FALSE, node |-> node, kind |-> kind, seq |-> seq]

(* The identifiers as CanBootClient computes them.                         *)
host_cmd_id(node)           == 256 + node         \* HOST_CMD_BASE_ID
host_data_id(node)          == 272 + node         \* HOST_DATA_BASE_ID
host_seq_data_id(node, seq) == 512 + node * 16 + (seq % 16)

(* What CanBootClient sends to its node: a command, a raw data frame, and  *)
(* a data frame with the low bits of its number in the identifier.         *)
CommandFrame(node)   == DataFrame(host_cmd_id(node), node, "CMD", 0)
RawFrame(node)       == DataFrame(host_data_id(node), node, "RAW", 0)
FastFrame(node, seq) == DataFrame(host_seq_data_id(node, seq), node, "FAST", seq)

(* What the other devices send.                                            *)
AnswerFrame(node) == DataFrame(CAN_BOOT_RESP_ID(node), node, "ANSWER", 0)

HostFrames ==
    {CommandFrame(n) : n \in Hosts} \cup {RawFrame(n) : n \in Hosts}
    \cup {FastFrame(n, s) : n \in Hosts, s \in Seqs}

DeviceFrames == {AnswerFrame(n) : n \in Hosts}

(* Remote frames, and extended frames whose upper bits look the same.      *)
Lookalikes ==
    {[f EXCEPT !.rtr = TRUE] : f \in HostFrames} \cup {[f EXCEPT !.ide = "EXT"] : f \in HostFrames}

Traffic == HostFrames \cup DeviceFrames \cup Lookalikes

-----------------------------------------------------------------------------
BusInit ==
    /\ rx = <<>>
    /\ mailbox = [m \in Mailboxes |-> <<>>]
    /\ can_started = FALSE
    /\ carried = 0
    /\ handled = <<>>
    /\ due = {}

(* can_if_start, when it succeeds.                                         *)
CanStarts ==
    /\ ~can_started
    /\ can_started' = TRUE
    /\ UNCHANGED <<rx, mailbox, carried, handled, due>>

PlacesOf(s) == {s[k].pos : k \in DOMAIN s}

(* HAL_CAN_DeInit before the application starts, or a reset.               *)
CanStops ==
    /\ can_started
    /\ can_started' = FALSE
    /\ CanReset
    /\ due' = due \ PlacesOf(rx)
    /\ UNCHANGED <<carried, handled>>

(* A frame for this node goes into its FIFO.  It is due at the handler     *)
(* when an uploader sent it; one that finds the FIFO full ends the claim   *)
(* of the newest there.                                                    *)
Addressed(f) == f.node = BOOT_NODE_ID /\ f \notin DeviceFrames

Overrun == IF Len(rx) = FifoDepth THEN {rx[FifoDepth].pos} ELSE {}

DueAfter(f) ==
    IF can_started /\ Addressed(f)
    THEN (due \ Overrun) \cup (IF f \in HostFrames THEN {carried + 1} ELSE {})
    ELSE due

(* The bus carries frame f, the carried-th of the behaviour.               *)
BusCarries(f) ==
    /\ carried < MaxFrames
    /\ carried' = carried + 1
    /\ rx' = IF can_started /\ can_if_configure_filter(f.id)
             THEN FifoAdd([frame |-> f, pos |-> carried + 1]) ELSE rx
    /\ due' = DueAfter(f)
    /\ UNCHANGED <<mailbox, can_started, handled>>

(* Mutant: identifiers are compared, the kind of the frame is not.         *)
IsStandardDataAny(f) == TRUE

IsStandardData(f) == f.ide = "STD" /\ ~f.rtr

(* can_if_receive_poll: a frame is read, and given to the packet handler   *)
(* unless it is an extended or a remote one.                               *)
can_if_receive_poll ==
    /\ can_started
    /\ rx # <<>>
    /\ rx' = Tail(rx)
    /\ handled' = IF IsStandardData(Head(rx).frame) THEN Append(handled, Head(rx)) ELSE handled
    /\ UNCHANGED <<mailbox, can_started, carried, due>>

BusNext ==
    \/ CanStarts \/ CanStops \/ can_if_receive_poll
    \/ \E f \in Traffic : BusCarries(f)

BusSpec == BusInit /\ [][BusNext]_canVars

-----------------------------------------------------------------------------
(* Properties.                                                             *)

MeantFor(f) ==
    /\ f \in HostFrames
    /\ f.node = BOOT_NODE_ID
    /\ PacketKind(f.id) = f.kind
    /\ f.kind = "FAST" => f.id % 16 = f.seq % 16

(* What the packet handler gets was sent by an uploader of this node, and  *)
(* the handler takes it for what the uploader meant, whatever the nodes,   *)
(* the numbers and the other traffic (can_uploader.py:116-119, 204-211     *)
(* against boot_config.h:35-48, can_if.c:10-38, bootloader.c:246-256).     *)
HandledAsMeant == \A i \in DOMAIN handled : MeantFor(handled[i].frame)

(* What the packet handler gets is what the uploader of this node sent:    *)
(* each frame once, in the order of the bus, and none missing but those    *)
(* that an overrun or a stop of the peripheral took, whatever other nodes  *)
(* send in between.  Raw data, which has no number, relies on it           *)
(* (can_if.c:10-38, 92-115, main.c:83).                                    *)
Queued == {k \in DOMAIN rx : rx[k].frame \in HostFrames}

HandledAsSent ==
    /\ \A i, j \in DOMAIN handled : i < j => handled[i].pos < handled[j].pos
    /\ due = PlacesOf(handled) \cup {rx[k].pos : k \in Queued}

(* Traffic of other nodes takes no place in the FIFO: an upload to one     *)
(* device cannot push the frames of another one out (can_if.c:10-38).      *)
OthersDoNotDisturb ==
    [][\A f \in Traffic : f.node # BOOT_NODE_ID /\ BusCarries(f) => UNCHANGED rx]_canVars
=============================================================================
