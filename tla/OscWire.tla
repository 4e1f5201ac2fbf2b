------------------------------ MODULE OscWire ------------------------------
(***************************************************************************)
(* What OSC messages become on a TCP connection or a serial line: tinyosc  *)
(* writes a message into bytes, OscConnector frames them with SLIP, the    *)
(* bytes arrive in pieces of any size, the decoder at the other end cuts   *)
(* them into packets and OscRoot reads messages and bundles from these.    *)
(*                                                                         *)
(* The GUI's connector objects survive their connection: what the decoder  *)
(* had of a broken packet is still there when the next connection opens.   *)
(* Packets of external clients may be bundles, and may hold arguments of   *)
(* types that are skipped.  A byte is a number; sockets are external.      *)
(***************************************************************************)
EXTENDS Integers, SequencesExt

CONSTANTS
    Message,   \* [address : Seq(byte), arguments : Seq([type, bytes])]
    MaxSize,   \* oscOutputMaxSize
    MaxSent,   \* bound: packets sent on a connection
    MaxNull,   \* bound: null messages after one another
    MaxBreaks  \* bound: connections that break

NUL == 0
COMMA == 44
END == 192
ESC == 219
ESC_END == 220
ESC_ESC == 221
Char == [s |-> 115, i |-> 105, f |-> 102, T |-> 84, F |-> 70, h |-> 104, d |-> 100, t |-> 116, m |-> 109]
TypeOf(char) == CHOOSE t \in DOMAIN Char : Char[t] = char

-----------------------------------------------------------------------------
(* tinyosc: writing. *)

\* tosc_writeNextString(): terminated, and padded to words of four bytes.
WriteNextString(s) == s \o [i \in 1..(4 - (Len(s) % 4)) |-> NUL]

ArgumentBytes(a) == IF a.type = "s" THEN WriteNextString(a.bytes) ELSE a.bytes

\* OscRoot::sendMessage(): address, types, then the values of those that have one.
WriteMessage(m) ==
    LET types == [k \in DOMAIN m.arguments |-> Char[m.arguments[k].type]]
    IN  WriteNextString(m.address) \o WriteNextString(<<COMMA>> \o types)
            \o FlattenSeq([k \in DOMAIN m.arguments |-> ArgumentBytes(m.arguments[k])])

BundleId == <<35, 98, 117, 110, 100, 108, 101, NUL>>
Int32(n) == <<n \div 16777216, (n \div 65536) % 256, (n \div 256) % 256, n % 256>>
Number(b, at) ==
    16777216 * b[at] + 65536 * b[at + 1] + 256 * b[at + 2] + b[at + 3]

\* A client's bundle: the identifier, a time tag, then each message after its length.
WriteBundle(messages) ==
    BundleId \o [i \in 1..8 |-> 0]
        \o FlattenSeq([k \in DOMAIN messages |->
               Int32(Len(WriteMessage(messages[k]))) \o WriteMessage(messages[k])])

-----------------------------------------------------------------------------
(* tinyosc: reading.  Positions are counted from 1. *)

\* The first x from a position on, or one past the end.
Find(b, x, from) ==
    LET found == {i \in from..Len(b) : b[i] = x}
    IN  IF found = {} THEN Len(b) + 1 ELSE Min(found)

\* The position after the padding of the string that ends at i.
NextWord(i) == 4 * ((i + 3) \div 4) + 1

\* tosc_parseMessage(): the places of the types and of the first argument; it fails
\* without a comma or without the end of the types.
ParseMessage(b) ==
    LET comma == Find(b, COMMA, Find(b, NUL, 1))
        end == Find(b, NUL, comma)
    IN  [parsed |-> comma <= Len(b) /\ end <= Len(b), comma |-> comma, end |-> end]

Width(type) ==
    CASE type \in {"i", "f", "m"} -> 4
      [] type \in {"h", "d", "t"} -> 8
      [] OTHER -> 0

\* tosc_getNext...(): values without a type of DAMC are skipped, and nobody looks
\* whether the packet is long enough for a number.
NextArgument(b, type, marker) ==
    LET last == IF type = "s" THEN Find(b, NUL, marker) - 1 ELSE marker + Width(type) - 1
        within == (IF type = "s" THEN last + 1 ELSE last) <= Len(b)
    IN  [argument |-> [type |-> type,
                       bytes |-> IF within /\ type \in {"s", "i", "f"} THEN SubSeq(b, marker, last) ELSE <<>>],
         within |-> within,
         marker |-> IF type = "s" THEN NextWord(last + 1) ELSE last + 1]

\* What is read past the end of a packet, or from a message that was not parsed, is
\* not modelled.
Unreadable == [address |-> <<>>, arguments |-> <<>>]

\* OscRoot::executeMessage().
ReadMessage(b) ==
    LET p == ParseMessage(b)
        read[k \in 0..(p.end - p.comma - 1)] ==
            IF k = 0 THEN [arguments |-> <<>>, marker |-> NextWord(p.end), within |-> TRUE]
            ELSE IF ~read[k - 1].within THEN read[k - 1]
            ELSE LET a == NextArgument(b, TypeOf(b[p.comma + k]), read[k - 1].marker)
                 IN  [arguments |-> Append(read[k - 1].arguments, a.argument),
                      marker |-> a.marker, within |-> a.within]
        all == read[p.end - p.comma - 1]
    IN  IF all.within
        THEN [address |-> SubSeq(b, 1, Find(b, NUL, 1) - 1), arguments |-> all.arguments]
        ELSE Unreadable

Legible(b) ==
    LET p == ParseMessage(b)
    IN  p.parsed /\ \A k \in (p.comma + 1)..(p.end - 1) : \E t \in DOMAIN Char : Char[t] = b[k]

\* The elements of a bundle, of which each starts with its length.
Elements(b) ==
    LET marker[k \in 0..Len(b)] ==
            IF k = 0 THEN 17
            ELSE IF marker[k - 1] + 3 > Len(b) THEN Len(b) + 1
            ELSE marker[k - 1] + 4 + Number(b, marker[k - 1])
        number == Cardinality({k \in 0..Len(b) : marker[k] <= Len(b)})
    IN  [k \in 1..number |-> SubSeq(b, marker[k - 1] + 4, Min({marker[k] - 1, Len(b)}))]

\* A packet that is not parsed is not executed.  Of an element of a bundle nobody looks
\* whether it was: what the former one left in the message is executed.
IsExecuted(b, inBundle) == Legible(b) \/ (inBundle /\ ~ParseMessage(b).parsed)

MessageOf(b) == IF Legible(b) THEN ReadMessage(b) ELSE Unreadable

\* onOscPacketReceived(): the messages that are executed.
PacketReceived(b) ==
    LET inBundle == IsPrefix(BundleId, b)
        elements == IF inBundle THEN Elements(b) ELSE <<b>>
        read[k \in 0..Len(elements)] ==
            IF k = 0 THEN <<>>
            ELSE IF IsExecuted(elements[k], inBundle)
            THEN Append(read[k - 1], MessageOf(elements[k]))
            ELSE read[k - 1]
    IN  read[Len(elements)]

-----------------------------------------------------------------------------
(* SLIP. *)

\* Mutant: ESC is not escaped.
EncodeEndOnly(b) ==
    LET escaped == [i \in DOMAIN b |-> IF b[i] = END THEN <<ESC, ESC_END>> ELSE <<b[i]>>]
    IN  <<END>> \o FlattenSeq(escaped) \o <<END>>

\* sendOscMessage(): END before and after, and neither END nor ESC in between.
Encode(b) ==
    LET escaped == [i \in DOMAIN b |-> CASE b[i] = END -> <<ESC, ESC_END>>
                                         [] b[i] = ESC -> <<ESC, ESC_ESC>>
                                         [] OTHER -> <<b[i]>>]
    IN  <<END>> \o FlattenSeq(escaped) \o <<END>>

\* The loop of onOscDataReceived(), over one byte.
DecodeByte(d, c) ==
    LET byte == CASE d.escaping /\ c = ESC_END -> END
                  [] d.escaping /\ c = ESC_ESC -> ESC
                  [] OTHER -> c
    IN  CASE ~d.escaping /\ c = ESC -> [d EXCEPT !.escaping = TRUE]
          [] ~d.escaping /\ c = END ->
                [d EXCEPT !.input = <<>>,
                          !.received = IF d.input = <<>> THEN @ ELSE @ \o PacketReceived(d.input)]
          [] OTHER -> [d EXCEPT !.escaping = FALSE, !.input = Append(@, byte)]

-----------------------------------------------------------------------------
VARIABLES
    connected,
    serial,   \* the link is a serial line, on which null messages are sent
    wire,     \* the bytes on their way
    decoder,  \* oscIsEscaping, oscInputBuffer and the messages executed since the connection
    before,   \* history: the decoder when the connection opened
    sent,     \* history: the messages sent since the connection
    breaks
vars == <<connected, serial, wire, decoder, before, sent, breaks>>

Fresh == [escaping |-> FALSE, input |-> <<>>, received |-> <<>>]

Init ==
    /\ connected = TRUE /\ serial \in BOOLEAN
    /\ wire = <<>>
    /\ decoder = Fresh /\ before = Fresh
    /\ sent = <<>> /\ breaks = 0

\* A message too long for the buffer of OscRoot is dropped.
Send(m) ==
    /\ connected /\ Len(sent) < MaxSent
    /\ Len(WriteMessage(m)) <= MaxSize
    /\ wire' = wire \o Encode(WriteMessage(m))
    /\ sent' = Append(sent, m)
    /\ UNCHANGED <<connected, serial, decoder, before, breaks>>

\* A client that is not DAMC.
SendBundle(messages) ==
    /\ connected /\ Len(sent) + Len(messages) <= MaxSent
    /\ wire' = wire \o Encode(WriteBundle(messages))
    /\ sent' = sent \o messages
    /\ UNCHANGED <<connected, serial, decoder, before, breaks>>

NullMessage == <<47, 0, 0, 0, COMMA, 0, 0, 0>>

\* onCheckSerialPortAlive() writes a message without a frame.
SendNull ==
    /\ connected /\ serial
    /\ wire = <<>> /\ Len(decoder.input) < MaxNull * Len(NullMessage)
    /\ wire' = wire \o NullMessage
    /\ UNCHANGED <<connected, serial, decoder, before, sent, breaks>>

\* Bytes may arrive one by one: a longer piece is several of these steps.
Receive ==
    /\ wire # <<>>
    /\ decoder' = DecodeByte(decoder, Head(wire))
    /\ wire' = Tail(wire)
    /\ UNCHANGED <<connected, serial, before, sent, breaks>>

Break ==
    /\ connected /\ breaks < MaxBreaks
    /\ connected' = FALSE
    /\ wire' = <<>>
    /\ breaks' = breaks + 1
    /\ UNCHANGED <<serial, decoder, before, sent>>

\* The connector of the GUI is used again; the server makes a new one.
Connect(new) ==
    /\ ~connected
    /\ connected' = TRUE
    /\ decoder' = IF new THEN Fresh ELSE [decoder EXCEPT !.received = <<>>]
    /\ before' = decoder'
    /\ sent' = <<>>
    /\ UNCHANGED <<serial, wire, breaks>>

Next ==
    \/ \E m \in Message : Send(m)
    \/ \E m, n \in Message : SendBundle(<<m, n>>)
    \/ SendNull
    \/ Receive \/ Break
    \/ \E new \in BOOLEAN : Connect(new)

Spec == Init /\ [][Next]_vars

-----------------------------------------------------------------------------
TypeOK ==
    /\ {connected, serial, decoder.escaping} \subseteq BOOLEAN
    /\ wire \in Seq(0..255) /\ decoder.input \in Seq(0..255)
    /\ sent \in Seq(Message) /\ breaks \in 0..MaxBreaks

\* What DAMC makes of a message: it has no value for the types it skips.
Understood(m) ==
    [m EXCEPT !.arguments = [k \in DOMAIN @ |->
        IF @[k].type \in {"s", "i", "f"} THEN @[k] ELSE [@[k] EXCEPT !.bytes = <<>>]]]

\* The messages that a node gets: the address of a null message is that of none.
Executed(received) ==
    LET kept[k \in 0..Len(received)] ==
            IF k = 0 THEN <<>>
            ELSE IF received[k].address # <<47>> THEN Append(kept[k - 1], received[k])
            ELSE kept[k - 1]
    IN  kept[Len(received)]

\* Whatever the pieces in which the bytes arrive, and whatever was left of a packet
\* when the former connection broke, the messages of a connection are executed as
\* they were sent, each once and in order, null messages in between or not.  If the
\* former connection broke inside an escape, the first packet of the new one is lost.
DeliveredAsSent ==
    LET executed == Executed(decoder.received)
        expected == [k \in DOMAIN sent |-> Understood(sent[k])]
    IN  connected /\ wire = <<>> /\ decoder.input = <<>> /\ sent # <<>>
            => IF ~before.escaping
               THEN /\ IsSuffix(expected, executed)
                    /\ before.input = <<>> => executed = expected
               ELSE \E lost \in 1..2 : IsSuffix(SubSeq(expected, lost + 1, Len(sent)), executed)
=============================================================================
