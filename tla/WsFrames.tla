------------------------------ MODULE WsFrames ------------------------------
(***************************************************************************)
(* RFC 6455 as the Forwarder implements it twice: ManualWsServer's upgrade *)
(* and its functions _recv_frame and _send_frame (ws/manual_server.py), and*)
(* RawWebSocket with encode_frame and decode_frame (ws/raw_ws.py).  A      *)
(* client writes frames to a TCP stream, and each recv takes as many of    *)
(* the bytes as TCP happens to have, at least one and at most as many as   *)
(* were asked for.                                                         *)
(*                                                                         *)
(* A byte on the stream is <<k, i>>, the i-th byte of the k-th frame: its  *)
(* opcode, its length code, length digits, the masking key and the payload.*)
(* <<0, i>> are the parts of the HTTP request: request line,               *)
(* sec-websocket-key and the blank line.  A reader that has lost the frame *)
(* boundaries sees bytes whose meaning is lost, too: "astray".  The sizes  *)
(* 256, 126, 8, 16384 and 4096 of the code are constants.                  *)
(***************************************************************************)
EXTENDS Naturals, Sequences

CONSTANTS
    Base,          \* 256, the number of values of a byte
    Inline,        \* 126, the shortest payload whose length has bytes of its own
    WideDigits,    \* 8, the bytes of the longest length field
    ManualChunk,   \* 16384, what _recv_frame asks for at most
    RawChunk,      \* 4096, what RawWebSocket.recv asks for
    ClientFrames,  \* the frames the client may write: [op, fin, len]
    ReplyLengths,  \* lengths of the texts the server sends
    MaxFrames,     \* bound on the frames the client writes
    MaxReplies     \* bound on the frames the server writes

\* BINARY is received like TEXT.
Opcodes == {"TEXT", "CONT", "CLOSE", "PING", "PONG"}

ASSUME FramesAssumption ==
    /\ {Base, Inline, WideDigits, ManualChunk, RawChunk} \subseteq Nat \ {0, 1}
    /\ ClientFrames \subseteq [op : Opcodes, fin : BOOLEAN, len : Nat]
    /\ ReplyLengths \subseteq Nat
    /\ MaxFrames \in Nat /\ MaxReplies \in Nat

Long == Base * Base  \* 65536, the first length that two bytes do not hold

VARIABLES
    impl,     \* the implementation at work: "manual" or "raw"
    sent,     \* frames the client has written
    wire,     \* bytes written and not yet read
    reader,   \* where the reader is
    current,  \* _recv_frame: the frame being read
    need,     \* _recv_frame: payload bytes still to come
    buf,      \* RawWebSocket: bytes read since the last frame
    spilled,  \* RawWebSocket: bytes beyond a frame were thrown away with it
    handed,   \* numbers of the frames whose payload was handed on
    written   \* headers of the frames the server wrote

framesVars == <<impl, sent, wire, reader, current, need, buf, spilled, handed, written>>
client == <<impl, sent, written>>

Header == [code : Nat, digits : Seq(0 .. Base - 1), len : Nat]

FramesTypeOK ==
    /\ impl \in {"manual", "raw"}
    /\ sent \in Seq(ClientFrames)
    /\ wire \in Seq(Nat \X Nat) /\ buf \in Seq(Nat \X Nat)
    /\ reader \in {"upgrade", "head", "digits", "key", "payload", "astray", "ended"}
    /\ current \in 0 .. Len(sent) /\ need \in Nat
    /\ spilled \in BOOLEAN
    /\ handed \in Seq(1 .. Len(sent))
    /\ written \in Seq(Header)

FramesInit ==
    /\ impl \in {"manual", "raw"}
    /\ sent = <<>> /\ wire = <<<<0, 1>>, <<0, 2>>, <<0, 3>>>>
    /\ reader = "upgrade" /\ current = 0 /\ need = 0
    /\ buf = <<>> /\ spilled = FALSE
    /\ handed = <<>> /\ written = <<>>

-----------------------------------------------------------------------------
(* The client                                                              *)

\* The length code of a header, and the length digits it announces.
Code(len) == IF len < Inline THEN len ELSE IF len < Long THEN Inline ELSE Inline + 1
DigitsOf(code) == IF code < Inline THEN 0 ELSE IF code = Inline THEN 2 ELSE WideDigits

KeyBytes == 4

FrameLen(fr) == 2 + DigitsOf(Code(fr.len)) + KeyBytes + fr.len

\* A message may be cut into fragments: after one without fin follow CONT
\* frames up to one with fin, control frames in between.
Fragmented ==
    LET IsData(fr) == fr.op \in {"TEXT", "CONT"}
        data == SelectSeq(sent, IsData)
    IN  data # <<>> /\ ~ data[Len(data)].fin

ClientSends(fr) ==
    /\ reader # "upgrade" /\ Len(sent) < MaxFrames
    /\ \A k \in DOMAIN sent : sent[k].op # "CLOSE"
    /\ fr.op = "CONT" => Fragmented
    /\ fr.op = "TEXT" => ~ Fragmented
    /\ sent' = Append(sent, fr)
    /\ wire' = wire \o [i \in 1 .. FrameLen(fr) |-> <<Len(sent) + 1, i>>]
    /\ UNCHANGED <<impl, reader, current, need, buf, spilled, handed, written>>

-----------------------------------------------------------------------------
(* Reading from the socket                                                 *)

\* recv(n) may return k bytes.
Gets(n, k) == k \in 1 .. (IF n < Len(wire) THEN n ELSE Len(wire))

Took(k) == SubSeq(wire, 1, k)
Takes(k) == wire' = SubSeq(wire, k + 1, Len(wire))

\* The end of the stream, a reset and, for the manual server, 30 s without data
\* end the connection wherever the reader is.
ConnectionLost ==
    /\ reader # "ended"
    /\ reader' = "ended"
    /\ UNCHANGED <<client, wire, current, need, buf, spilled, handed>>

-----------------------------------------------------------------------------
(* ManualWsServer                                                          *)

\* One recv for the whole request: without the key the connection is closed;
\* with the key but not the end, the rest is still to be read.
ManualUpgrade(k) ==
    /\ impl = "manual" /\ reader = "upgrade"
    /\ Gets(3, k) /\ Takes(k)
    /\ reader' = IF k < 2 THEN "ended" ELSE "head"
    /\ UNCHANGED <<client, current, need, buf, spilled, handed>>

\* A frame is complete.  CLOSE ends the I/O loop.  The payload of anything but a
\* whole text is no envelope: from_json raises, which ends it as well.
Complete(c) ==
    IF sent[c].op = "TEXT" /\ sent[c].fin
    THEN reader' = "head" /\ handed' = Append(handed, c)
    ELSE reader' = "ended" /\ UNCHANGED handed

\* recv(2); one byte is taken for the end.
ManualHead(k) ==
    /\ impl = "manual" /\ reader = "head"
    /\ Gets(2, k) /\ Takes(k)
    /\ LET c == wire[1][1] IN
       IF k < 2 THEN reader' = "ended" /\ UNCHANGED <<current, need>>
       ELSE IF Took(2) # <<<<c, 1>>, <<c, 2>>>> THEN reader' = "astray" /\ UNCHANGED <<current, need>>
       ELSE /\ reader' = IF DigitsOf(Code(sent[c].len)) = 0 THEN "key" ELSE "digits"
            /\ current' = c /\ need' = sent[c].len
    /\ UNCHANGED <<client, buf, spilled, handed>>

\* recv(2) or recv(8), whose result is not checked: with fewer digits the length
\* is wrong and everything after it shifts; the reader goes on astray.
ManualDigits(k) ==
    /\ impl = "manual" /\ reader = "digits"
    /\ LET n == DigitsOf(Code(sent[current].len)) IN
       /\ Gets(n, k) /\ Takes(k)
       /\ reader' = IF k < n THEN "astray" ELSE "key"
    /\ UNCHANGED <<client, current, need, buf, spilled, handed>>

\* recv(4), whose result is not checked either: with a shorter key the payload
\* shifts and is unmasked with other bytes, or with an index that does not exist.
ManualKey(k) ==
    /\ impl = "manual" /\ reader = "key"
    /\ Gets(KeyBytes, k) /\ Takes(k)
    /\ IF k < KeyBytes THEN reader' = "astray" /\ UNCHANGED handed
       ELSE IF need > 0 THEN reader' = "payload" /\ UNCHANGED handed
       ELSE Complete(current)
    /\ UNCHANGED <<client, current, need, buf, spilled>>

\* Faulty variant of Wanted: recv asks for a full chunk.
WantedChunk == ManualChunk

\* What the payload loop asks recv for: min(length - len(payload), 16384).
Wanted == IF need < ManualChunk THEN need ELSE ManualChunk

\* One turn of the payload loop.
ManualPayload(k) ==
    /\ impl = "manual" /\ reader = "payload"
    /\ Gets(Wanted, k) /\ Takes(k)
    /\ IF k < need THEN need' = need - k /\ UNCHANGED <<reader, handed>>
       ELSE need' = 0 /\ Complete(current)
    /\ UNCHANGED <<client, current, buf, spilled>>

\* _recv_frame goes on with a wrong length, key or boundary and returns what it
\* then takes for a frame.  Its payload is a piece of a text, or begins inside
\* one, and wrongly unmasked: no envelope, so that the I/O loop ends when it
\* decodes and parses it, as it does when the unmasking raises.
ManualAstray(k) ==
    /\ impl = "manual" /\ reader = "astray"
    /\ Takes(k)
    /\ reader' \in {"astray", "ended"}
    /\ UNCHANGED <<client, current, need, buf, spilled, handed>>

-----------------------------------------------------------------------------
(* RawWebSocket                                                            *)

\* from_upgrade reads on until the blank line is there.
RawUpgrade(k) ==
    /\ impl = "raw" /\ reader = "upgrade"
    /\ Gets(3, k) /\ Takes(k)
    /\ LET data == buf \o Took(k) IN
       IF Len(data) < 3 THEN buf' = data /\ UNCHANGED reader
                        ELSE buf' = <<>> /\ reader' = "head"
    /\ UNCHANGED <<client, current, need, spilled, handed>>

\* Faulty variant of decode_frame: a frame counts as complete with one byte more.
decode_frame_late(data) ==
    LET c == data[1][1] IN
    IF Len(data) < 2 THEN "incomplete"
    ELSE IF data[1][2] # 1 THEN "astray"
    ELSE IF sent[c].op = "CONT" THEN "raises"
    ELSE IF Len(data) <= FrameLen(sent[c]) THEN "incomplete"
    ELSE sent[c].op

\* Opcode() raises for continuation frames, before the rest of the frame is
\* looked at.  Fin is not looked at.
decode_frame(data) ==
    LET c == data[1][1] IN
    IF Len(data) < 2 THEN "incomplete"
    ELSE IF data[1][2] # 1 THEN "astray"
    ELSE IF sent[c].op = "CONT" THEN "raises"
    ELSE IF Len(data) < FrameLen(sent[c]) THEN "incomplete"
    ELSE sent[c].op

\* What is left of a length when its j lowest digits are cut off, up to n of them.
Shifted(len, n) ==
    LET rest[j \in 0 .. n] == IF j = 0 THEN len ELSE rest[j - 1] \div Base IN rest

\* Faulty variant of Digits: the high digits stay in each digit.
DigitsUnmasked(len, n) == [i \in 1 .. n |-> Shifted(len, n)[n - i]]

\* A length as n bytes, the high ones first.
Digits(len, n) == [i \in 1 .. n |-> Shifted(len, n)[n - i] % Base]

\* The widest field holds every length: 2^64 bytes fit nowhere.
ASSUME LengthsAssumption ==
    \A len \in ReplyLengths \cup {fr.len : fr \in ClientFrames} :
        Shifted(len, WideDigits)[WideDigits] = 0

\* Faulty variant of encode_frame: 126 is still written as it is.
encode_frame_inclusive(len) ==
    IF len <= Inline THEN [code |-> len, digits |-> <<>>, len |-> len]
    ELSE IF len < Long THEN [code |-> Inline, digits |-> Digits(len, 2), len |-> len]
    ELSE [code |-> Inline + 1, digits |-> Digits(len, WideDigits), len |-> len]

\* The header of a frame from the server, which has no masking key.
encode_frame(len) ==
    IF len < Inline THEN [code |-> len, digits |-> <<>>, len |-> len]
    ELSE IF len < Long THEN [code |-> Inline, digits |-> Digits(len, 2), len |-> len]
    ELSE [code |-> Inline + 1, digits |-> Digits(len, WideDigits), len |-> len]

\* A turn of recv's loop: read, try the buffer, and after a frame start with an
\* empty one, also when the chunk went beyond the frame.  Fragments are returned
\* like whole texts.
RawRecv(k) ==
    /\ impl = "raw" /\ reader = "head"
    /\ Gets(RawChunk, k) /\ Takes(k)
    /\ LET data == buf \o Took(k)
           c    == data[1][1]
           r    == decode_frame(data)
       IN
       /\ buf' = IF r = "incomplete" THEN data ELSE <<>>
       /\ spilled' = (spilled \/ (r \in Opcodes /\ Len(data) > FrameLen(sent[c])))
       /\ reader' = CASE r = "astray" -> "astray"
                      [] r \in {"raises", "CLOSE"} -> "ended"
                      [] OTHER -> "head"
       /\ handed' = IF r = "TEXT" THEN Append(handed, c) ELSE handed
       /\ IF r = "PING" THEN written' = Append(written, encode_frame(sent[c].len))
                        ELSE UNCHANGED written
    /\ UNCHANGED <<impl, sent, current, need>>

-----------------------------------------------------------------------------
(* The server's own frames                                                 *)

Upgraded == reader \notin {"upgrade", "ended"}

\* _send_frame: to_bytes(2) raises for 65536 and more, and nothing is written.
ManualSend(len) ==
    /\ impl = "manual" /\ Upgraded /\ Len(written) < MaxReplies
    /\ len < Long
    /\ written' = Append(written,
         IF len < Inline THEN [code |-> len, digits |-> <<>>, len |-> len]
                         ELSE [code |-> Inline, digits |-> Digits(len, 2), len |-> len])
    /\ UNCHANGED <<impl, sent, wire, reader, current, need, buf, spilled, handed>>

\* RawWebSocket.send
RawSend(len) ==
    /\ impl = "raw" /\ Upgraded /\ Len(written) < MaxReplies
    /\ written' = Append(written, encode_frame(len))
    /\ UNCHANGED <<impl, sent, wire, reader, current, need, buf, spilled, handed>>

\* RawWebSocket.close: a CLOSE frame, then the writer is closed.
RawClose ==
    /\ impl = "raw" /\ Upgraded
    /\ written' = Append(written, encode_frame(0))
    /\ reader' = "ended"
    /\ UNCHANGED <<impl, sent, wire, current, need, buf, spilled, handed>>

-----------------------------------------------------------------------------
Read(k) ==
    \/ ManualUpgrade(k) \/ ManualHead(k) \/ ManualDigits(k) \/ ManualKey(k) \/ ManualPayload(k)
    \/ ManualAstray(k)
    \/ RawUpgrade(k) \/ RawRecv(k)

FramesNext ==
    \/ \E fr \in ClientFrames : ClientSends(fr)
    \/ \E k \in 1 .. Len(wire) : Read(k)
    \/ \E len \in ReplyLengths : ManualSend(len) \/ RawSend(len)
    \/ RawClose \/ ConnectionLost

FramesSpec == FramesInit /\ [][FramesNext]_framesVars

\* The reader's thread or task runs and TCP delivers what was written; the
\* manual server's socket has a timeout of 30 s.
FramesFairness ==
    /\ WF_framesVars(\E k \in 1 .. Len(wire) : Read(k))
    /\ WF_framesVars(impl = "manual" /\ ConnectionLost /\ wire = <<>>)

FramesFairSpec == FramesSpec /\ FramesFairness

-----------------------------------------------------------------------------
(* Properties                                                              *)

Texts == SelectSeq([k \in DOMAIN sent |-> k], LAMBDA k : sent[k].op = "TEXT")

\* Every text before frame c has been handed on.
AllHandedBefore(c) ==
    \A k \in 1 .. c - 1 : sent[k].op = "TEXT" => \E j \in DOMAIN handed : handed[j] = k

\* Payloads are handed on in the order they were sent, each once, and none is
\* left out: however TCP cuts the stream, and also when a length or a key comes
\* in pieces: what _recv_frame then returns is no envelope, which ends the
\* connection before the bytes of a later frame are taken for one.  RawWebSocket
\* throws bytes away when it reads beyond a frame; from then on texts may be
\* missing, but none is repeated or out of order (manual_server.py:301-331,
\* raw_ws.py:180-206).
InOrder ==
    /\ \A i, j \in DOMAIN handed : i < j => handed[i] < handed[j]
    /\ \A i \in DOMAIN handed :
         /\ sent[handed[i]].op = "TEXT"
         /\ spilled \/ AllHandedBefore(handed[i])

\* A text the client has sent is handed on, or the connection ends: a reader
\* that has lost the frame boundaries and waits for bytes that nobody will send
\* does not wait for ever (manual_server.py:229-239, 322-326, raw_ws.py:183-191).
ReadOrEnded ==
    \A k \in 1 .. MaxFrames :
        (k \in DOMAIN Texts) ~> (Len(handed) >= k \/ reader = "ended" \/ spilled)

\* The payload length that RFC 6455 gives to a header, and whether its digits are
\* as many as its code announces.
Value(digits) ==
    LET val[i \in 0 .. Len(digits)] == IF i = 0 THEN 0 ELSE val[i - 1] * Base + digits[i]
    IN  val[Len(digits)]
Readable(h) ==
    /\ Len(h.digits) = DigitsOf(h.code)
    /\ h.len = IF h.code < Inline THEN h.code ELSE Value(h.digits)

\* A client that follows RFC 6455 finds the boundaries of every frame the server
\* writes, at each edge of the length code (raw_ws.py:80-96,
\* manual_server.py:288-298).
RepliesReadable == \A i \in DOMAIN written : Readable(written[i])

\* The inductive invariant the proofs rest on.  What has been sent and not been
\* dealt with is the end of the stream of all frames: from every byte the rest of
\* its frame follows, then the next frame, up to the last byte of the last one.
Stream == buf \o wire

LenOf(frames, k) == IF k = 0 THEN 3 ELSE FrameLen(frames[k])

Ordered(s, frames) ==
    /\ \A p \in DOMAIN s : s[p][1] \in 0 .. Len(frames) /\ s[p][2] \in 1 .. LenOf(frames, s[p][1])
    /\ \A p \in DOMAIN s :
         LET last == p + LenOf(frames, s[p][1]) - s[p][2] IN
         /\ last <= Len(s)
         /\ \A q \in p .. last : s[q] = <<s[p][1], s[p][2] + (q - p)>>
         /\ IF last < Len(s) THEN s[last + 1] = <<s[p][1] + 1, 1>> ELSE s[p][1] = Len(frames)
    /\ \A p, q \in DOMAIN s : p <= q => s[p][1] <= s[q][1]

\* What was handed on lies before every byte still to come; of the HTTP request
\* at most the blank line is left.
StreamInOrder ==
    /\ Ordered(Stream, sent)
    /\ \A i \in DOMAIN handed, p \in DOMAIN Stream : handed[i] < Stream[p][1]
    /\ reader = "upgrade" =>
         Stream = <<<<0, 1>>, <<0, 2>>, <<0, 3>>>> /\ sent = <<>> /\ handed = <<>> /\ ~ spilled
    /\ reader \notin {"upgrade", "ended"} =>
         \A p \in DOMAIN Stream : Stream[p][1] = 0 => Stream[p] = <<0, 3>>
    /\ impl = "manual" => buf = <<>> /\ ~ spilled

\* A reader that is not astray is where the frames are: at the start of one, or
\* inside the frame current.
Front == IF Stream = <<>> THEN Len(sent) + 1 ELSE Stream[1][1]

Offset ==
    LET fr == sent[current] IN
    CASE reader = "digits" -> 3
      [] reader = "key" -> 3 + DigitsOf(Code(fr.len))
      [] reader = "payload" -> FrameLen(fr) - need + 1

AtABoundary ==
    reader = "head" /\ ~ spilled =>
        /\ AllHandedBefore(Front)
        /\ Stream # <<>> => Stream[1] = <<Front, 1>> \/ Stream[1] = <<0, 3>>

InsideAFrame ==
    reader \in {"digits", "key", "payload"} =>
        /\ impl = "manual" /\ current # 0 /\ AllHandedBefore(current)
        /\ wire # <<>> /\ wire[1] = <<current, Offset>>
        /\ reader = "digits" => DigitsOf(Code(sent[current].len)) # 0
        /\ need <= sent[current].len
        /\ IF reader = "payload" THEN need > 0 ELSE need = sent[current].len

FramesInv == FramesTypeOK /\ InOrder /\ RepliesReadable /\ StreamInOrder /\ AtABoundary /\ InsideAFrame

=============================================================================
