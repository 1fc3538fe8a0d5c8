---------------------------- MODULE RpcChannel ----------------------------
(***************************************************************************)
(* The console device between the libvirt-sandbox library on the host and  *)
(* libvirt-sandbox-init-common in the guest, and what travels over it: the *)
(* single handshake bytes WAIT and SYNC of libvirt-sandbox-protocol.x and  *)
(* the packets that libvirt-sandbox-rpcpacket.c frames.                    *)
(*                                                                         *)
(* A packet is cut into two units, its length word and the rest (header    *)
(* and payload), because both ends read it in these two steps and because  *)
(* a stream may accept only a part of a packet.  Payload bytes are numbers *)
(* that only say which byte of the stream it is.                           *)
(***************************************************************************)
EXTENDS Naturals, Sequences

CONSTANT Cap           \* units the device holds in each direction

ASSUME CapAssumption == Cap \in Nat \ {0}

VARIABLES toGuest,     \* units written by the host, not yet read by the guest
          toHost       \* units written by the guest, not yet read by the host

Procs == {"STDIN", "STDOUT", "STDERR", "EXIT", "QUIT"}

Byte(b) == [part |-> "byte", proc |-> b, data |-> << >>]

Wait  == Byte("WAIT")
Sync  == Byte("SYNC")
Noise == Byte("NOISE")  \* a byte that is part of no protocol element

Packet(proc, data) ==
  << [part |-> "length", proc |-> proc, data |-> << >>],
     [part |-> "body",   proc |-> proc, data |-> data] >>

(* An EXIT packet carries the status of the application.                   *)
Unit == {u \in [part : {"byte", "length", "body"},
                proc : Procs \cup {"WAIT", "SYNC", "NOISE"},
                data : Seq(Nat)] :
           u.part = "body" /\ u.proc = "EXIT" => u.data # << >>}

(* The rest of what a packet buffer still has to send: << >> is NULL.      *)
TxBuffer == Seq(Unit)

(* What a receive buffer is ready for: a handshake byte, the length word   *)
(* of a packet or the rest of one; "none" is NULL.                         *)
RxBuffer == {"none", "byte", "length", "body"}

HasRoom(chan) == Len(chan) < Cap

(* A sequence of bytes first..last of a stream.                            *)
Bytes(first, last) == [i \in 1 .. (last - first + 1) |-> first + i - 1]

ChannelTypeOK == toGuest \in Seq(Unit) /\ toHost \in Seq(Unit)
===========================================================================
