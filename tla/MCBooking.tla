------------------------------ MODULE MCBooking ------------------------------
(***************************************************************************)
(* Instances of BookingServers for TLC: one or two servers, two            *)
(* connections each, one or two records, ints of six bits.                 *)
(***************************************************************************)
EXTENDS BookingServers

\* What the lines of these instances mean.
MCIdOf == [l \in Line |->
    CASE l = "id0" -> 0
      [] l = "id1" /\ NumRecords > 1 -> 1
      [] OTHER -> NoId]

MCArgs == [l \in Line |->
    CASE l = "add"  -> <<9, 0, 1>>
      [] l = "sub"  -> <<-9, 0, -1>>
      [] l = "huge" -> <<31, 29, 1>>
      [] l = "one"  -> <<1, NoToken, NoToken>>
      [] l = "id0"  -> <<29, NoToken, NoToken>>
      [] l = "id1"  -> <<30, NoToken, NoToken>>
      [] l = "blank" -> <<NoToken, NoToken, NoToken>>
      [] OTHER      -> <<BadToken, NoToken, NoToken>>]

MCLine == {"id0", "id1", "exit", "blank", "garbled", "add", "sub", "huge", "one"}

MCInitFile == [r \in Record |-> <<0, 2, 0>>]

\* Two clients of a read server and one of a write server.
MCMaxConn == [s \in Server |-> IF s \in Reader THEN 2 ELSE 1]
MCMaxConn2 == [s \in Server |-> 2]
\* What clients send: ids, the end of a read session and commands.
MCChunk == [s \in Server |-> IF s \in Reader THEN {"id0", "exit"}
                                            ELSE {"id0", "add"}]
\* A write server alone: every kind of line, two records.
MCChunkWriter == [s \in Server |->
    {"id0", "id1", "exit", "add", "sub", "one", "fragment", "interrupt"}]

\* Both servers, whose clients send ids and end their sessions by hanging up, or
\* end the write server with a command of one token.
MCChunkFair == [s \in Server |-> {"id0"}]

\* A write server whose clients ask for more than a C int can hold.
MCChunkHuge == [s \in Server |-> {"id0", "huge"}]
=============================================================================
