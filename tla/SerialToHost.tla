---------------------------- MODULE SerialToHost ----------------------------
(***************************************************************************)
(* The way of a message from the board to the event queue of the host:     *)
(* send_buffer() puts its bytes into a ring, Tx_interrupt() takes them     *)
(* from there to the wire (SEM/main.cpp), and serial_rx_thread() puts them *)
(* together again (SEM/prgsem-main.c).                                     *)
(*                                                                         *)
(* A byte knows the message it is from, its place in it and the length     *)
(* that message has; a receiver that meets the first byte of a message     *)
(* learns the length (get_message_size), and any other byte taken for a    *)
(* first one may name any length, or none.  Bytes parse (parse_message_buf)*)
(* when they are one whole message: that the sum of other bytes is 255 by  *)
(* accident is left out.                                                   *)
(***************************************************************************)
EXTENDS Naturals, Sequences

CONSTANTS BufSize,      \* BUF_SIZE
          Lengths,      \* the lengths of the messages, as get_message_size knows them
          MaxMessages,  \* bound: messages sent
          MaxOnWire,    \* bound: bytes sent and not yet read by the host
          MaxLost       \* bound: bytes lost on the wire

ASSUME BufSizeAssumption == BufSize \in Nat /\ BufSize >= 2
ASSUME LengthAssumption == Lengths \subseteq Nat \ {0, 1} /\ Lengths # {}
ASSUME BoundAssumption == MaxMessages \in Nat

VARIABLES tx_buffer, tx_in, tx_out,  \* the ring
          txeie,    \* the transmit interrupt is enabled in the UART
          sender,   \* where send_buffer is; the interrupt is masked in "put"
          sent,     \* the number of the message being sent, or sent last
          n, i,     \* its length (size), and how many of its bytes are in the ring
          wire,     \* the bytes on the way to serial_getc_timeout
          host,     \* serial_rx_thread: "discard", "read" or "exited"
          msg_buf,  \* msg_buf[0 .. i-1] of the host
          len,      \* len of the host
          discarded, \* the last message of which a byte has been thrown away
          got,      \* the last message that has been pushed, or Unparsed
          lost      \* for the bound

boardVars == <<tx_buffer, tx_in, tx_out, txeie, sender, sent, n, i>>
hostVars == <<host, msg_buf, len, discarded, got>>
vars == <<boardVars, wire, hostVars, lost>>

Unparsed == MaxMessages + 1
Byte(m, k, size) == [message |-> m, place |-> k, size |-> size]
NoByte == Byte(0, 0, 0)

NextSlot(x) == (x + 1) % BufSize
Empty == tx_in = tx_out
\* Mutated form: the last free slot is used too.
FullOffByOne == FALSE

Full == NextSlot(tx_in) = tx_out

Init ==
    /\ tx_buffer = [x \in 0 .. BufSize - 1 |-> NoByte] /\ tx_in = 0 /\ tx_out = 0
    /\ txeie = FALSE
    /\ sender = "idle" /\ sent = 0 /\ n \in Lengths /\ i = n
    /\ wire = <<>> /\ lost = 0
    /\ host = "discard" /\ msg_buf = <<>> /\ len = 0 /\ discarded = 0 /\ got = 0

-----------------------------------------------------------------------------
(* The board: send_buffer.                                                 *)

SendMessage(size) ==
    /\ sender = "idle"
    /\ sent < MaxMessages
    /\ sent' = sent + 1
    /\ n' = size /\ i' = 0
    /\ sender' = "put"
    /\ UNCHANGED <<tx_buffer, tx_in, tx_out, txeie, wire, hostVars, lost>>

\* Mutated form: the interrupt is not enabled after the last byte.
PutByteSilent ==
    /\ sender = "put"
    /\ ~Full
    /\ tx_buffer' = [tx_buffer EXCEPT ![tx_in] = Byte(sent, i, n)]
    /\ tx_in' = NextSlot(tx_in)
    /\ i' = i + 1
    /\ sender' = IF i + 1 < n THEN "put" ELSE "idle"
    /\ UNCHANGED <<tx_out, txeie, sent, n, wire, hostVars, lost>>

\* One byte; with the last one the interrupt is enabled, then unmasked.
PutByte ==
    /\ sender = "put"
    /\ ~Full
    /\ tx_buffer' = [tx_buffer EXCEPT ![tx_in] = Byte(sent, i, n)]
    /\ tx_in' = NextSlot(tx_in)
    /\ i' = i + 1
    /\ IF i + 1 < n THEN UNCHANGED <<txeie, sender>>
                    ELSE txeie' = TRUE /\ sender' = "idle"
    /\ UNCHANGED <<tx_out, sent, n, wire, hostVars, lost>>

\* No room: the interrupt is unmasked, then enabled ...
Unmask ==
    /\ sender = "put"
    /\ Full
    /\ sender' = "unmasked"
    /\ UNCHANGED <<tx_buffer, tx_in, tx_out, txeie, sent, n, i, wire, hostVars, lost>>

EnableTx ==
    /\ sender = "unmasked"
    /\ txeie' = TRUE
    /\ sender' = "spin"
    /\ UNCHANGED <<tx_buffer, tx_in, tx_out, sent, n, i, wire, hostVars, lost>>

\* ... until there is room, when it is masked again.
SpinEnd ==
    /\ sender = "spin"
    /\ ~Full
    /\ sender' = "put"
    /\ UNCHANGED <<tx_buffer, tx_in, tx_out, txeie, sent, n, i, wire, hostVars, lost>>

Sender == PutByte \/ Unmask \/ EnableTx \/ SpinEnd

\* The UART can take a byte.
Tx_interrupt ==
    /\ sender # "put"
    /\ txeie
    /\ Len(wire) < MaxOnWire
    /\ IF Empty THEN txeie' = FALSE /\ UNCHANGED <<wire, tx_out>>
       ELSE /\ wire' = Append(wire, tx_buffer[tx_out])
            /\ tx_out' = NextSlot(tx_out)
            /\ UNCHANGED txeie
    /\ UNCHANGED <<tx_buffer, tx_in, sender, sent, n, i, hostVars, lost>>

LoseByte ==
    /\ lost < MaxLost
    /\ wire # <<>>
    /\ wire' = Tail(wire)
    /\ lost' = lost + 1
    /\ UNCHANGED <<boardVars, hostVars>>

-----------------------------------------------------------------------------
(* The host: serial_rx_thread.                                             *)

\* "discard garbage", until nothing has been read for SERIAL_READ_TIMOUT_MS.
Discard ==
    /\ host = "discard"
    /\ wire # <<>>
    /\ wire' = Tail(wire)
    /\ discarded' = Head(wire).message
    /\ UNCHANGED <<boardVars, host, msg_buf, len, got, lost>>

\* Mutated form: nothing is waited for.
DiscardEndAtOnce ==
    /\ host = "discard"
    /\ host' = "read"
    /\ UNCHANGED <<boardVars, wire, msg_buf, len, discarded, got, lost>>

\* The timeout is long for the board: it does not pause in a message, and
\* what is in its ring is on the wire by then.  That the timeout meets such a
\* silence is presumed: a board that computes all the time leaves none.
DiscardEnd ==
    /\ host = "discard"
    /\ wire = <<>> /\ Empty /\ sender = "idle"
    /\ host' = "read"
    /\ UNCHANGED <<boardVars, wire, msg_buf, len, discarded, got, lost>>

\* get_message_size of the first byte read.
Recognised(b) == IF b.place = 0 THEN {b.size} ELSE Lengths

WholeMessage(s) == \A k \in DOMAIN s : s[k] = Byte(s[1].message, k - 1, Len(s))

\* One byte more; when there are len of them, they are parsed, and pushed
\* whether they parse or not.
Read(size) ==
    /\ host = "read"
    /\ wire # <<>>
    /\ wire' = Tail(wire)
    /\ size \in IF msg_buf = <<>> THEN Recognised(Head(wire)) ELSE {len}
    /\ len' = size
    /\ LET bytes == Append(msg_buf, Head(wire))
       IN  IF size <= Len(bytes)
           THEN /\ got' = IF WholeMessage(bytes) THEN bytes[1].message ELSE Unparsed
                /\ msg_buf' = <<>>
           ELSE msg_buf' = bytes /\ UNCHANGED got
    /\ UNCHANGED <<boardVars, host, discarded, lost>>

\* The first byte names no message: the thread ends.
ReadUnknown ==
    /\ host = "read"
    /\ wire # <<>> /\ msg_buf = <<>> /\ Head(wire).place # 0
    /\ wire' = Tail(wire)
    /\ host' = "exited"
    /\ UNCHANGED <<boardVars, msg_buf, len, discarded, got, lost>>

Host == Discard \/ DiscardEnd \/ ReadUnknown \/ \E size \in Lengths : Read(size)

Next == Sender \/ Tx_interrupt \/ LoseByte \/ Host \/ \E size \in Lengths : SendMessage(size)

\* The firmware and the host's thread run, an enabled interrupt is taken, and
\* a read times out; the board need not send anything.
Fairness == WF_vars(Sender) /\ WF_vars(Tx_interrupt) /\ WF_vars(Host)

Spec == Init /\ [][Next]_vars /\ Fairness

-----------------------------------------------------------------------------
TypeOK ==
    /\ tx_in \in 0 .. BufSize - 1 /\ tx_out \in 0 .. BufSize - 1
    /\ txeie \in BOOLEAN
    /\ sender \in {"idle", "put", "unmasked", "spin"}
    /\ host \in {"discard", "read", "exited"}
    /\ n \in Lengths /\ i \in 0 .. n
    /\ got \in 0 .. Unparsed /\ discarded \in 0 .. MaxMessages

\* The bytes in the ring, oldest first.
Ring == [k \in 1 .. (tx_in + BufSize - tx_out) % BufSize |->
            tx_buffer[(tx_out + k - 1) % BufSize]]

Follows(b, a) ==
    IF a.place + 1 < a.size THEN b = Byte(a.message, a.place + 1, a.size)
                            ELSE b.message = a.message + 1 /\ b.place = 0

\* While no byte is lost, there is one stream of bytes from the host's buffer
\* over the wire to the ring, each following the one before, up to the one put
\* last; and what the host will take for the first byte of a message is one.
StreamIntact ==
    LET stream == msg_buf \o wire \o Ring
    IN  lost = 0 /\ stream # <<>> =>
          /\ \A k \in 1 .. Len(stream) - 1 : Follows(stream[k + 1], stream[k])
          /\ i > 0 => stream[Len(stream)] = Byte(sent, i - 1, n)
          /\ host = "read" => stream[1].place = 0

\* Bytes are never left in the ring with the transmitter off and send_buffer
\* gone, and send_buffer never waits for an interrupt that is off.
TransmitterOn ==
    /\ ~Empty /\ sender \in {"idle", "spin"} => txeie
    /\ sender = "spin" /\ Full => txeie

\* The last message that is on the way no more: pushed, or thrown away at least
\* in part before the host listened.
Gone == IF got = 0 THEN discarded ELSE got

\* MessageLink, what SemSystem takes the serial line for.  A message is on the
\* way from the call of send_buffer to the last byte read, or the first one
\* thrown away; only what has been read and pushed counts as taken.
Link == INSTANCE MessageLink
          WITH Messages <- 1 .. MaxMessages, NoMessage <- 0,
               transit <- [k \in 1 .. sent - Gone |-> Gone + k], taken <- got,
               listening <- host # "discard", broken <- lost > 0
LinkSpec == Link!Spec

\* "puts the parsed message to the queue": what is pushed has been parsed.
OnlyParsed == got # Unparsed
=============================================================================
