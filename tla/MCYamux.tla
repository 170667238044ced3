------------------------------ MODULE MCYamux ------------------------------
(* Instances of Yamux for TLC.                                             *)
EXTENDS YamuxIds, SequencesExt

\* Bytes of one kind that are in flight for stream s in the frames of p.
InFlight(p, type, s) ==
    FoldSeq(LAMBDA f, sum : IF f.type = type /\ f.sid = s THEN sum + f.len ELSE sum,
            0, wire[p])

\* Credit is neither lost nor created: as long as neither side has reset a
\* stream, the writer's window, the data in flight, the unread bytes and the
\* window updates in flight add up to kInitialStreamWindow (write_stream_data,
\* try_read, update_receive_window, handle_frame).
CreditConserved ==
    \A p \in Side : \A s \in streams[p] \ (reset[p] \cup reset[Peer(p)]) :
        sendWindow[p][s] + InFlight(p, "Data", s) + Len(recvBuf[Peer(p)][s])
            + InFlight(Peer(p), "WindowUpdate", s) = Window
=============================================================================
