----------------------------- MODULE SerialLine -----------------------------
(***************************************************************************)
(* Both directions of the serial line.  To SerialToHost this adds the way  *)
(* from send_message() of the host (SEM/prgsem-main.c) over Rx_interrupt() *)
(* and its ring to receive_message() of the board (SEM/main.cpp), and what *)
(* the directions share there: one main loop, which either sends or        *)
(* receives, and one interrupt, which each of the two masks in turn.       *)
(*                                                                         *)
(* The host keeps the mutex while it sends, so its messages do not mix.    *)
(***************************************************************************)
EXTENDS SerialToHost

CONSTANTS MaxOrders  \* bound: messages the host sends; MaxLost bounds both directions

ASSUME OrderBoundAssumption == MaxOrders \in Nat

VARIABLES orders, hn, hi,  \* messages begun by the host; length and bytes sent of the last
          rxWire,          \* bytes on the way to the board
          rx_buffer, rx_in, rx_out,  \* the ring
          receiver,        \* receive_message: "idle", "copy" (masked), "spin"
          order, orderLen, \* its msg_buf[0 .. i-1] and *len
          received,        \* the last message received, or NotParsed
          deaf,            \* receive_message has met an unknown message type
          orderLost

hostSendVars == <<orders, hn, hi>>
ringVars == <<rx_buffer, rx_in, rx_out>>
receiveVars == <<receiver, order, orderLen, received, deaf>>
boardInVars == <<hostSendVars, rxWire, ringVars, receiveVars, orderLost>>
lineVars == <<vars, boardInVars>>

NotParsed == MaxOrders + 1

LineInit ==
    /\ Init
    /\ orders = 0 /\ hn \in Lengths /\ hi = hn
    /\ rxWire = <<>> /\ orderLost = 0
    /\ rx_buffer = [x \in 0 .. BufSize - 1 |-> NoByte] /\ rx_in = 0 /\ rx_out = 0
    /\ receiver = "idle" /\ order = <<>> /\ orderLen = 0 /\ received = 0 /\ deaf = FALSE

\* Mutated form: the interrupt is not enabled while receive_message waits.
UnmaskedIfIdle == sender # "put" /\ receiver = "idle"

Unmasked == sender # "put" /\ receiver # "copy"

-----------------------------------------------------------------------------
\* send_message of the host, one serial_putc at a time.
BeginOrder(size) ==
    /\ orders < MaxOrders /\ hi = hn
    /\ orders' = orders + 1 /\ hn' = size /\ hi' = 0
    /\ UNCHANGED <<vars, rxWire, ringVars, receiveVars, orderLost>>

PutOrderByte ==
    /\ hi < hn /\ Len(rxWire) < MaxOnWire
    /\ rxWire' = Append(rxWire, Byte(orders, hi, hn))
    /\ hi' = hi + 1
    /\ UNCHANGED <<vars, orders, hn, ringVars, receiveVars, orderLost>>

LoseOrderByte ==
    /\ lost + orderLost < MaxLost /\ rxWire # <<>>
    /\ rxWire' = Tail(rxWire)
    /\ orderLost' = orderLost + 1
    /\ UNCHANGED <<vars, hostSendVars, ringVars, receiveVars>>

\* Mutated form: a full ring is written over.
RingFullNever == FALSE

RxFull == NextSlot(rx_in) = rx_out

\* A byte stays in the UART while the ring is full.
Rx_interrupt ==
    /\ Unmasked /\ rxWire # <<>> /\ ~RxFull
    /\ rx_buffer' = [rx_buffer EXCEPT ![rx_in] = Head(rxWire)]
    /\ rx_in' = NextSlot(rx_in)
    /\ rxWire' = Tail(rxWire)
    /\ UNCHANGED <<vars, hostSendVars, rx_out, receiveVars, orderLost>>

-----------------------------------------------------------------------------
(* receive_message                                                         *)

BeginReceive ==
    /\ receiver = "idle" /\ sender = "idle"
    /\ rx_in # rx_out /\ ~deaf
    /\ receiver' = "copy"
    /\ order' = <<>> /\ orderLen' = 0
    /\ UNCHANGED <<vars, hostSendVars, rxWire, ringVars, received, deaf, orderLost>>

\* The loop over the bytes, up to the test i != *len.
CopyByte(size) ==
    /\ receiver = "copy" /\ rx_in # rx_out
    /\ size \in IF order = <<>> THEN Recognised(rx_buffer[rx_out]) ELSE {orderLen}
    /\ orderLen' = size
    /\ order' = Append(order, rx_buffer[rx_out])
    /\ rx_out' = NextSlot(rx_out)
    /\ IF Len(order') = size
       THEN /\ receiver' = "idle"
            /\ received' = IF WholeMessage(order') THEN order'[1].message ELSE NotParsed
       ELSE UNCHANGED <<receiver, received>>
    /\ UNCHANGED <<vars, hostSendVars, rxWire, rx_buffer, rx_in, deaf, orderLost>>

\* An unknown type is left in the ring, where each call meets it again: the
\* board neither receives nor computes any more, as a byte is always there.
UnknownType ==
    /\ receiver = "copy" /\ rx_in # rx_out /\ order = <<>>
    /\ rx_buffer[rx_out].place # 0
    /\ deaf' = TRUE
    /\ receiver' = "idle"
    /\ UNCHANGED <<vars, hostSendVars, rxWire, ringVars, order, orderLen, received, orderLost>>

\* No byte: the interrupt is enabled until one has come.
BeginSpin ==
    /\ receiver = "copy" /\ rx_in = rx_out
    /\ receiver' = "spin"
    /\ UNCHANGED <<vars, hostSendVars, rxWire, ringVars, order, orderLen, received, deaf, orderLost>>

EndSpin ==
    /\ receiver = "spin" /\ rx_in # rx_out
    /\ receiver' = "copy"
    /\ UNCHANGED <<vars, hostSendVars, rxWire, ringVars, order, orderLen, received, deaf, orderLost>>

Receiver == BeginReceive \/ UnknownType \/ BeginSpin \/ EndSpin \/ \E size \in Lengths : CopyByte(size)

-----------------------------------------------------------------------------
LineSendMessage(size) == receiver = "idle" /\ SendMessage(size) /\ UNCHANGED boardInVars
LineSender == Sender /\ UNCHANGED boardInVars
LineTx == Unmasked /\ Tx_interrupt /\ UNCHANGED boardInVars
LineHost == Host /\ UNCHANGED boardInVars
LineLose == lost + orderLost < MaxLost /\ LoseByte /\ UNCHANGED boardInVars

\* Bytes that no thread reads any more do not keep the board from sending.
Unread ==
    /\ host = "exited" /\ wire # <<>>
    /\ wire' = Tail(wire)
    /\ UNCHANGED <<boardVars, hostVars, lost, boardInVars>>

LineNext ==
    \/ LineSender \/ LineTx \/ LineHost \/ LineLose \/ Unread
    \/ PutOrderByte \/ Rx_interrupt \/ Receiver \/ LoseOrderByte
    \/ \E size \in Lengths : LineSendMessage(size) \/ BeginOrder(size)

\* As in SerialToHost.  An interrupt that is pending is taken as soon as it is
\* unmasked; the main loop returns to receive_message while bytes are there.
LineFairness ==
    /\ WF_lineVars(LineSender) /\ SF_lineVars(LineTx) /\ WF_lineVars(LineHost \/ Unread)
    /\ WF_lineVars(PutOrderByte) /\ SF_lineVars(Rx_interrupt) /\ SF_lineVars(Receiver)

LineSpec == LineInit /\ [][LineNext]_lineVars /\ LineFairness

-----------------------------------------------------------------------------
RxRing == [k \in 1 .. (rx_in + BufSize - rx_out) % BufSize |-> rx_buffer[(rx_out + k - 1) % BufSize]]

\* While no byte is lost, the bytes from receive_message over the ring and the
\* wire to serial_putc are one stream, and the byte that receive_message takes
\* for a type is one: the board never goes deaf.
OrdersIntact ==
    LET begun == IF receiver = "idle" THEN <<>> ELSE order
        stream == begun \o RxRing \o rxWire
    IN  orderLost = 0 =>
          /\ ~deaf
          /\ stream # <<>> => stream[1].place = 0
          /\ \A k \in 1 .. Len(stream) - 1 : Follows(stream[k + 1], stream[k])
          /\ stream # <<>> /\ hi > 0 => stream[Len(stream)] = Byte(orders, hi - 1, hn)

\* MessageLink, the other way: what the host sends arrives whole, in order and
\* once, in the end all of it, whatever the board is sending meanwhile.
BoardLink == INSTANCE MessageLink
               WITH Messages <- 1 .. MaxOrders, NoMessage <- 0,
                    transit <- [k \in 1 .. orders - received |-> received + k],
                    taken <- received, listening <- TRUE, broken <- orderLost > 0
BoardLinkSpec == BoardLink!Spec
=============================================================================
