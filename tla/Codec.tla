------------------------------- MODULE Codec --------------------------------
(***************************************************************************)
(* The packets of the danmu protocol (bilibili/codec.go).  A frame of the  *)
(* WebSocket is packets one after another, and the body of one may be a    *)
(* compressed frame, for which ParsePacket calls itself.                   *)
(*                                                                         *)
(* A frame is a sequence of cells: a header (16 bytes in the code), the    *)
(* two halves of a JSON text, a popularity, or a compressed frame.  The    *)
(* header holds the packet's length, itself included; bilibili's are right *)
(* and at least one.                                                       *)
(***************************************************************************)
EXTENDS Integers, Sequences

CONSTANTS Names,    \* commands of JSON texts
          Frames    \* the frames bilibili sends, or compresses in a packet

VARIABLE calls   \* the calls of ParsePacket under way, the outermost first

OpHeartbeatReply == 3
OpSendMsgReply == 5
OpAuthReply == 8
ProtoVerNormal == 0
ProtoVerHeartbeat == 1
ProtoVerDeflate == 2
ProtoVerBrotli == 3
ProtoVerUnknown == 4
Formats == {ProtoVerDeflate, ProtoVerBrotli}

-----------------------------------------------------------------------------
(* What bilibili puts into a frame: packets, each with what it says.       *)

MakePacket(op, ver, body, says) ==
  [header |-> [len |-> 1 + Len(body), op |-> op, ver |-> ver], body |-> body, says |-> says]
Commands == Names \cup {"_HEARTBEAT", "UNKNOWN"}
Json(name) == <<[text |-> name, half |-> 1], [text |-> name, half |-> 2]>>
\* The frame a cell is decompressed to; an error for one of another format.
Packed(ver, frame) == <<[zip |-> ver, frame |-> frame]>>

Simple ==
  {MakePacket(OpSendMsgReply, ProtoVerNormal, Json(n), <<n>>) : n \in Names} \cup
  {MakePacket(OpSendMsgReply, ProtoVerNormal, <<>>, <<>>),
   MakePacket(OpSendMsgReply, ProtoVerUnknown, Json("any"), <<>>),
   MakePacket(OpHeartbeatReply, ProtoVerHeartbeat, <<[popularity |-> 1]>>, <<"_HEARTBEAT">>),
   MakePacket(OpAuthReply, ProtoVerHeartbeat, Json("any"), <<>>)}
\* A frame compressed in a format, and announced in the same or the other.
AllOf(frame) == frame.said[Len(frame.said)]
Compressed(frame, v, ver) ==
  MakePacket(OpSendMsgReply, v, Packed(ver, frame), IF v = ver THEN AllOf(frame) ELSE <<>>)
Packets == Simple \cup {Compressed(f, v, ver) : f \in Frames, v \in Formats, ver \in Formats}

\* What is known of a frame besides its cells: its packets; start[i], the offset
\* of the i-th and, after the last, of the end; said[i], what those before it say.
WellPacked(f) ==
  LET n == Len(f.packets)
  IN /\ f.packets \in Seq(Packets)
     /\ f.cells \in Seq({f.cells[i] : i \in DOMAIN f.cells})
     /\ f.start \in Seq(0..Len(f.cells)) /\ Len(f.start) = n + 1
     /\ f.start[1] = 0 /\ f.start[n + 1] = Len(f.cells)
     /\ \A i, j \in 1..(n + 1) : i < j => f.start[i] < f.start[j]
     /\ f.said \in Seq(Seq(Commands)) /\ Len(f.said) = n + 1 /\ f.said[1] = <<>>
     /\ \A i \in 1..n :
          LET p == f.packets[i]
          IN /\ f.start[i + 1] = f.start[i] + p.header.len
             /\ f.cells[f.start[i] + 1] = p.header
             /\ SubSeq(f.cells, f.start[i] + 2, f.start[i + 1]) = p.body
             /\ f.said[i + 1] = f.said[i] \o p.says

ASSUME FrameAssumption == \A f \in Frames : WellPacked(f)

-----------------------------------------------------------------------------
(* ParsePacket: a loop over the packets of the cells it is given, which    *)
(* appends the messages of each and moves its offset behind it.            *)

Call(frame, end) == [of |-> frame, end |-> end, offset |-> 0, messages |-> <<>>]
Current == calls[Len(calls)]
Done(c) == c.offset >= c.end

Header(c) == c.of.cells[c.offset + 1]
Cut(m, n) == IF m > n THEN n ELSE m
Body(c) == SubSeq(c.of.cells, c.offset + 2, Cut(c.offset + Header(c).len, c.end))
Passed(c, found) ==
  [c EXCEPT !.offset = @ + Header(c).len, !.messages = @ \o found]

ParseJSONMessage(body) ==
  IF Len(body) = 2 THEN <<body[1].text>> ELSE <<"UNKNOWN">>
\* An error of the body skips the packet, not the frame.
ParseBody(header, body) ==
  CASE header.op = OpHeartbeatReply -> IF body = <<>> THEN <<>> ELSE <<"_HEARTBEAT">>
    [] header.op = OpSendMsgReply /\ header.ver = ProtoVerNormal ->
         IF body = <<>> THEN <<>> ELSE ParseJSONMessage(body)
    [] OTHER -> <<>>
Decompresses(header, body) ==
  /\ header.op = OpSendMsgReply /\ header.ver \in Formats
  /\ Len(body) = 1 /\ body[1].zip = header.ver

ParseNext ==
  LET c == Current
  IN /\ calls # <<>> /\ ~Done(c) /\ ~Decompresses(Header(c), Body(c))
     /\ calls' = [calls EXCEPT ![Len(calls)] = Passed(c, ParseBody(Header(c), Body(c)))]
\* parseMessageBody calls ParsePacket with all that comes out of the packet.
ParseFirstInner ==
  LET c == Current
      inner == Body(c)[1].frame
  IN /\ calls # <<>> /\ ~Done(c) /\ Decompresses(Header(c), Body(c))
     /\ calls' = Append(calls, Call(inner, IF inner.cells = <<>> THEN 0 ELSE inner.cells[1].len))
ParseInner ==
  LET c == Current
      inner == Body(c)[1].frame
  IN /\ calls # <<>> /\ ~Done(c) /\ Decompresses(Header(c), Body(c))
     /\ calls' = Append(calls, Call(inner, Len(inner.cells)))
ReturnInner ==
  LET n == Len(calls) - 1
  IN /\ n > 0 /\ Done(Current)
     /\ calls' = [SubSeq(calls, 1, n) EXCEPT ![n] = Passed(@, Current.messages)]

\* A message of the WebSocket, whole or ending early, is read and unpacked, and
\* its messages are handed on; then the next is read.
ReadMessage ==
  /\ calls = <<>>
  /\ \E f \in Frames : \E end \in 0..Len(f.cells) : calls' = <<Call(f, end)>>
HandOn == Len(calls) = 1 /\ Done(Current) /\ calls' = <<>>

CodecInit == calls = <<>>
CodecNext == ReadMessage \/ ParseNext \/ ParseInner \/ ReturnInner \/ HandOn

-----------------------------------------------------------------------------
(* Properties.                                                             *)

\* Every message of a frame is found once and in order, whatever packets are
\* between and however they are nested, and a packet that cannot be read costs
\* no other; of a frame that ends early the whole packets are read, and a text
\* that was cut is at most one unknown command more.
Unpacks ==
  LET c == calls[1]
      f == c.of
  IN calls # <<>> /\ Done(c) =>
       \E k \in DOMAIN f.start :
         /\ f.start[k] <= c.end /\ \A j \in DOMAIN f.start : k < j => c.end < f.start[j]
         /\ \/ c.messages = f.said[k]
            \/ c.end < Len(f.cells) /\ c.messages = Append(f.said[k], "UNKNOWN")
=============================================================================
