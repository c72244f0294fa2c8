------------------------------- MODULE Proto -------------------------------
(***************************************************************************)
(* The message codec: the templates of codegen/proto_gen_cpp.py, the       *)
(* classes they generate in proto/cgate_msg_pb.cc and node_msg_pb.cc, and  *)
(* the header macros of core/ax_proto_msg.h.                               *)
(*                                                                         *)
(* A class is what it declares and two lists of field operations, those of *)
(* pack and those of unpack.  A byte has Byte values; a char has a sign,   *)
(* as on the machines the code is written for.                             *)
(***************************************************************************)
EXTENDS Integers, Sequences, SequencesExt, FiniteSetsExt

CONSTANTS Byte   \* number of values of a byte

VARIABLES msg    \* the message that is packed and unpacked

(* The value of v in n bytes, without and with a sign.                     *)
Unsigned(v, n) == v % Byte ^ n
Signed(v, n) ==
  LET u == Unsigned(v, n) IN IF u >= Byte ^ n \div 2 THEN u - Byte ^ n ELSE u

(* The C types of fields.                                                  *)
INT8 == [size |-> 1, signed |-> TRUE]
INT16 == [size |-> 2, signed |-> TRUE]
INT32 == [size |-> 4, signed |-> TRUE]
UINT16 == [size |-> 2, signed |-> FALSE]
UINT32 == [size |-> 4, signed |-> FALSE]
UINT64 == [size |-> 8, signed |-> FALSE]

Cast(v, t) == IF t.signed THEN Signed(v, t.size) ELSE Unsigned(v, t.size)

(* PACK_INT8 ... PACK_INT64: the bytes of v, the lowest first.             *)
PackInt(v, size) == [i \in 1 .. size |-> (v \div Byte ^ (i - 1)) % Byte]

(* A short or int read from memory.                                        *)
ReadInt(p, at, size) ==
  Signed(MapThenSumSet(LAMBDA i : p[at + i] * Byte ^ (i - 1), 1 .. size), size)

(* The bitwise or of a set of numbers, in n bytes.                         *)
OrAll(S, n) ==
  MapThenSumSet(LAMBDA i : 2 ^ i,
    {i \in 0 .. 24 : 2 ^ i < Byte ^ n /\ \E v \in S : (Unsigned(v, n) \div 2 ^ i) % 2 = 1})

(* *(p + i) << 8 * (i % 4), an int: the char brings its sign with it.      *)
ShiftedChar(p, at, i) == Signed(Signed(p[at + i + 1], 1) * Byte ^ (i % 4), 4)

(* Mutant of UnpackInt: every field is read as a short.                    *)
BugUnpackInt(p, at, size) == ReadInt(p, at, Min({size, 2}))

(* UNPACK_INT8 ... UNPACK_INT64: both halves of 64 bits go to the low one. *)
UnpackInt(p, at, size) ==
  IF size = 8 THEN OrAll({ShiftedChar(p, at, i) : i \in 0 .. 7}, 8)
  ELSE ReadInt(p, at, size)

(* PACK_HEADER writes proto and pl_len, two bytes each; UNPACK_HEADER      *)
(* reads each of them back as *p | *(p + 1) << 8, from chars.              *)
PackHeader(h) == PackInt(h.proto, 2) \o PackInt(h.pl_len, 2)

UnpackHeader(p) ==
  LET half(at) == OrAll({ShiftedChar(p, at, 0), ShiftedChar(p, at, 1)}, 2)
  IN  [proto |-> half(0), pl_len |-> half(2)]

-----------------------------------------------------------------------------
pb_conn_notify == [fd |-> INT32, hid |-> INT32, action |-> INT8]
pb_conn_notify_size == 9
pb_conn_notify_unpack == << <<"fd", 4>>, <<"hid", 4>>, <<"action", 1>> >>
pb_conn_notify_pack == << <<"fd", 4>>, <<"hid", 4>>, <<"action", 1>> >>

pb_cgate_newconn == [fd |-> INT32, hid |-> UINT32, ip |-> UINT64, port |-> UINT16]
pb_cgate_newconn_size == 18
pb_cgate_newconn_unpack == << <<"fd", 4>>, <<"hid", 4>>, <<"ip", 8>>, <<"port", 2>> >>
pb_cgate_newconn_pack == << <<"fd", 4>>, <<"hid", 4>>, <<"ip", 8>>, <<"port", 2>> >>

pb_conn_ctrl == [fd |-> INT32, hid |-> INT32, action |-> INT8]
pb_conn_ctrl_size == 9
pb_conn_ctrl_unpack == << <<"fd", 4>>, <<"hid", 4>>, <<"action", 1>> >>
pb_conn_ctrl_pack == << <<"fd", 4>>, <<"hid", 4>>, <<"action", 1>> >>

pb_worker_ctrl == [cmd |-> INT16, lparam |-> INT32]
pb_worker_ctrl_size == 6
pb_worker_ctrl_unpack == << <<"cmd", 2>>, <<"lparam", 4>> >>
pb_worker_ctrl_pack == << <<"cmd", 2>>, <<"lparam", 4>> >>

pb_worker_notify == [cmd |-> INT16, lparam |-> INT32, wparam |-> INT16]
pb_worker_notify_size == 8
pb_worker_notify_unpack == << <<"cmd", 2>>, <<"lparam", 4>>, <<"wparam", 2>> >>
pb_worker_notify_pack == << <<"cmd", 2>>, <<"lparam", 4>>, <<"wparam", 2>> >>

pb_client_unicast == [hid |-> INT32, main_proto |-> INT16, sub_proto |-> INT16]
pb_client_unicast_size == 8
pb_client_unicast_unpack == << <<"hid", 4>>, <<"main_proto", 2>>, <<"sub_proto", 2>> >>
pb_client_unicast_pack == << <<"hid", 4>>, <<"main_proto", 2>>, <<"sub_proto", 2>> >>

pb_client_req == [hid |-> INT32, main_proto |-> INT16, sub_proto |-> INT16]
pb_client_req_size == 8
pb_client_req_unpack == << <<"hid", 4>>, <<"main_proto", 2>>, <<"sub_proto", 2>> >>
pb_client_req_pack == << <<"hid", 4>>, <<"main_proto", 2>>, <<"sub_proto", 2>> >>

pb_cgate_ctrl == [cmd |-> INT16]
pb_cgate_ctrl_size == 2
pb_cgate_ctrl_unpack == << <<"cmd", 2>> >>
pb_cgate_ctrl_pack == << <<"cmd", 2>> >>

Class(decl, size, unpack, pack) == [decl |-> decl, size |-> size, unpack |-> unpack, pack |-> pack]

Classes ==
  {Class(pb_conn_notify, pb_conn_notify_size, pb_conn_notify_unpack, pb_conn_notify_pack),
   Class(pb_cgate_newconn, pb_cgate_newconn_size, pb_cgate_newconn_unpack, pb_cgate_newconn_pack),
   Class(pb_conn_ctrl, pb_conn_ctrl_size, pb_conn_ctrl_unpack, pb_conn_ctrl_pack),
   Class(pb_worker_ctrl, pb_worker_ctrl_size, pb_worker_ctrl_unpack, pb_worker_ctrl_pack),
   Class(pb_worker_notify, pb_worker_notify_size, pb_worker_notify_unpack, pb_worker_notify_pack),
   Class(pb_client_unicast, pb_client_unicast_size, pb_client_unicast_unpack, pb_client_unicast_pack),
   Class(pb_client_req, pb_client_req_size, pb_client_req_unpack, pb_client_req_pack),
   Class(pb_cgate_ctrl, pb_cgate_ctrl_size, pb_cgate_ctrl_unpack, pb_cgate_ctrl_pack)}

(* pack: the bytes written; none when avail is too small for fixed_len.    *)
Pack(class, fields, avail) ==
  IF avail < class.size THEN <<>>
  ELSE FoldLeft(LAMBDA p, op : p \o PackInt(fields[op[1]], op[2]), <<>>, class.pack)

(* unpack of a fresh message from the bytes p; -1 is an error.             *)
Unpack(class, p) ==
  IF Len(p) < class.size THEN [at |-> -1, fields |-> [f \in DOMAIN class.decl |-> 0]]
  ELSE FoldLeft(LAMBDA s, op :
                  [at |-> s.at + op[2],
                   fields |-> [s.fields EXCEPT
                                 ![op[1]] = Cast(UnpackInt(p, s.at, op[2]), class.decl[op[1]])]],
                [at |-> 0, fields |-> [f \in DOMAIN class.decl |-> 0]], class.unpack)

-----------------------------------------------------------------------------
(* Values at the borders of a type, and one with a different byte at every *)
(* place.                                                                  *)
Borders(t) ==
  {Cast(v, t) : v \in {0, 1, Byte ^ t.size \div 2 - 1, Byte ^ t.size \div 2, -1,
                       MapThenSumSet(LAMBDA i : ((i + 1) % Byte) * Byte ^ i, 0 .. t.size - 1)}}

NoMsg == [class |-> [name |-> "none"]]

HeaderClass == [name |-> "header"]

ProtoInit == msg = NoMsg

(* A sender fills in a message.                                            *)
Fill(class) ==
  /\ msg = NoMsg
  /\ \E fields \in [DOMAIN class.decl -> UNION {Borders(class.decl[f]) : f \in DOMAIN class.decl}] :
       /\ \A f \in DOMAIN class.decl : fields[f] \in Borders(class.decl[f])
       /\ msg' = [class |-> class, fields |-> fields]

(* Or a header for one.                                                    *)
FillHeader(proto, len) ==
  /\ msg = NoMsg
  /\ msg' = [class |-> HeaderClass, fields |-> [proto |-> proto, pl_len |-> len]]

ProtoNext ==
  \/ \E class \in Classes : Fill(class)
  \/ \E proto, len \in Borders(UINT16) : FillHeader(proto, len)

(* A value whose bytes all have the sign bit clear, in four bytes.         *)
Plain(v) == v < Byte ^ 4 /\ \A i \in 1 .. 4 : PackInt(v, 4)[i] < Byte \div 2

(* The receiver gets the fields the sender filled in, and pack writes, and *)
(* unpack consumes, as many bytes as cal_size() promises, with no room to  *)
(* spare.  The exception is a 64-bit field, which arrives only if it needs *)
(* four bytes with their sign bits clear.  A header arrives if the low     *)
(* bytes of its two numbers have their sign bit clear, as those of the     *)
(* lengths and ids the two threads exchange do.                            *)
MessageArrives ==
  LET p == Pack(msg.class, msg.fields, msg.class.size)
      r == Unpack(msg.class, p)
  IN  IF msg = NoMsg THEN TRUE
      ELSE IF msg.class = HeaderClass
      THEN (\A f \in DOMAIN msg.fields : Unsigned(msg.fields[f], 1) < Byte \div 2) =>
             UnpackHeader(PackHeader(msg.fields)) = msg.fields
      ELSE /\ Len(p) = msg.class.size /\ r.at = msg.class.size
           /\ \A f \in DOMAIN msg.class.decl :
                (msg.class.decl[f] = UINT64 => Plain(msg.fields[f])) =>
                  r.fields[f] = msg.fields[f]
=============================================================================
