------------------------------ MODULE MCWsFrames ------------------------------
(* Instances of WsFrames for TLC. *)
EXTENDS WsFrames

Frame(op, fin, len) == [op |-> op, fin |-> fin, len |-> len]

\* Texts of each kind of length, a fragmented one, and the control frames.
MCClientFrames ==
    {Frame("TEXT", TRUE, 1), Frame("TEXT", TRUE, 2), Frame("TEXT", TRUE, 4),
     Frame("TEXT", FALSE, 1), Frame("CONT", TRUE, 1),
     Frame("CLOSE", TRUE, 0), Frame("PING", TRUE, 1), Frame("PONG", TRUE, 0)}
=============================================================================
