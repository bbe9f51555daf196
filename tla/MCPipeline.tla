----------------------------- MODULE MCPipeline -----------------------------
(* The frames of DanmuPipeline for TLC.                                     *)
EXTENDS DanmuPipeline
LOCAL INSTANCE SequencesExt

Frame(ps) ==
  LET cells == [i \in DOMAIN ps |-> <<ps[i].header>> \o ps[i].body]
  IN [packets |-> ps,
      cells |-> FlattenSeq(cells),
      start |-> [i \in 1..(Len(ps) + 1) |-> Len(FlattenSeq(SubSeq(cells, 1, i - 1)))],
      said |-> [i \in 1..(Len(ps) + 1) |-> FlattenSeq([j \in 1..(i - 1) |-> ps[j].says])]]

Zipped(frames) == {Compressed(f, v, ver) : f \in frames, v \in Formats, ver \in Formats}
\* Each packet alone, before or after a text.
Beside(kinds) ==
  LET t == MakePacket(OpSendMsgReply, ProtoVerNormal, Json("a"), <<"a">>)
  IN UNION {{Frame(<<p>>), Frame(<<p, t>>), Frame(<<t, p>>)} : p \in kinds}

\* Two packets side by side, compressed, and compressed again.
Flat == {Frame(ps) : ps \in UNION {[1..k -> Simple] : k \in 0..2}}
Nested == Beside(Zipped(Flat))
MCFrames == Flat \cup Nested \cup Beside({Compressed(f, ProtoVerBrotli, ProtoVerBrotli) : f \in Nested})
=============================================================================
