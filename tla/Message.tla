------------------------------- MODULE Message -------------------------------
(***************************************************************************)
(* The datagram of lib/include/message.h and the conversions of            *)
(* lib/src/message.c, for a little-endian host.                            *)
(*                                                                         *)
(* A message is a record with the fields of struct Message.  The same      *)
(* record type stands for the bytes on the wire: an integer field then     *)
(* holds what a little-endian host reads from those bytes, so that a field *)
(* is in network order exactly when htons or htonl has been applied.       *)
(***************************************************************************)
EXTENDS Naturals

\* enum paxos_type
phase0  == 0
phase1a == 1
phase1b == 2
phase2a == 3
phase2b == 4

Uint16 == 0 .. 65535
Int32  == {x \in Nat : x \div 16777216 < 128}   \* of int cur_inst, never negative

(***************************************************************************)
(* The 32 bytes of paxosval, told apart as the C string functions see      *)
(* them: head stands for the bytes before the first NUL, tail for the      *)
(* bytes after it.  For struct request, head is the request id (one        *)
(* byte, then NULs) and tail the command.  0 stands for zeroed bytes.      *)
(***************************************************************************)
Paxosval == [head : Nat, tail : Nat]
ZeroVal  == [head |-> 0, tail |-> 0]

\* strcpy(dst, src) stops at the first NUL of src and leaves dst's tail.
strcpy(dst, src) == [dst EXCEPT !.head = src.head]

\* A zeroed struct sockaddr_in; the clients' addresses are positive.
NoAddr == 0

Message == [inst : Nat, rnd : Uint16, vrnd : Uint16, acptid : Uint16,
            msgtype : Uint16, paxosval : Paxosval, client : Nat]

\* What calloc leaves in a message buffer.
ZeroMessage == [inst |-> 0, rnd |-> 0, vrnd |-> 0, acptid |-> 0,
                msgtype |-> phase0, paxosval |-> ZeroVal, client |-> NoAddr]

\* htons and htonl swap the bytes; ntohs and ntohl are the same functions.
htons(x) == (x % 256) * 256 + x \div 256
htonl(x) == (x % 256) * 16777216 + ((x \div 256) % 256) * 65536
              + ((x \div 65536) % 256) * 256 + x \div 16777216

\* pack and unpack convert every integer field and leave value and client.
pack(m) == [m EXCEPT !.inst = htonl(@), !.rnd = htons(@), !.vrnd = htons(@),
                     !.acptid = htons(@), !.msgtype = htons(@)]
unpack(w) == [w EXCEPT !.inst = htonl(@), !.rnd = htons(@), !.vrnd = htons(@),
                       !.acptid = htons(@), !.msgtype = htons(@)]

\* initialize_message leaves the client for the caller to set.
initialize_message(msgtype) == [ZeroMessage EXCEPT !.msgtype = msgtype]

=============================================================================
