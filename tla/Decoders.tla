------------------------------- MODULE Decoders -------------------------------
(***************************************************************************)
(* The market-data decoders: NASDAQ ITCH 5.0 messages (adapters/itch50)    *)
(* and CME MDP 3.0 datagrams (adapters/cme_mdp3).                          *)
(***************************************************************************)
EXTENDS Integers, SequencesExt, FiniteSetsExt

CONSTANTS
    CmeBlocks,      \* root block lengths a CME message may declare
    CmeEntries,     \* entry lengths it may declare
    CmeCounts       \* entry counts it may declare

-----------------------------------------------------------------------------
(* ITCH messages: the packed structs of itch50_messages.hpp, as sequences  *)
(* of members and widths.                                                  *)

Common == <<<<"message_type", 1>>, <<"stock_locate", 2>>, <<"tracking_number", 2>>, <<"timestamp", 6>>>>
Order == Common \o <<<<"order_reference_number", 8>>>>
Executed == Order \o <<<<"executed_shares", 4>>, <<"match_number", 8>>>>
AddOrder == Order \o <<<<"buy_sell_indicator", 1>>, <<"shares", 4>>, <<"stock", 8>>, <<"price", 4>>>>

Layout ==
    [S |-> Common \o <<<<"event_code", 1>>>>, A |-> AddOrder, F |-> AddOrder \o <<<<"attribution", 4>>>>,
     E |-> Executed, C |-> Executed \o <<<<"printable", 1>>, <<"execution_price", 4>>>>,
     X |-> Order \o <<<<"cancelled_shares", 4>>>>, D |-> Order,
     U |-> Common \o <<<<"original_order_reference_number", 8>>, <<"new_order_reference_number", 8>>, <<"shares", 4>>, <<"price", 4>>>>]

MessageType == DOMAIN Layout
OffsetOf(type, n) == MapThenSumSet(LAMBDA i : Layout[type][i][2], 1..(n - 1))
SizeOf(type) == OffsetOf(type, Len(Layout[type]) + 1)

(* A value is the sequence of its bytes, the least significant first; byte *)
(* k of member f is <<f, k>>.                                              *)
ValueOf(f, width) == [k \in 1..width |-> <<f, k>>]
Zero == <<>>

\* put_be16 .. put_be64, put_be48_ns and be16toh_field .. be48toh_ns: the most
\* significant byte comes first on the wire.
bswap(v) == Reverse(v)
put_be(v) == bswap(v)
be_to_host(bytes) == bswap(bytes)

\* What the generators write: member, offset, width.
CommonWritten == {<<"message_type", 0, 1>>, <<"stock_locate", 1, 2>>, <<"tracking_number", 3, 2>>, <<"timestamp", 5, 6>>}
OrderWritten == CommonWritten \cup {<<"order_reference_number", 11, 8>>}
AddWritten == OrderWritten \cup {<<"buy_sell_indicator", 19, 1>>, <<"shares", 20, 4>>, <<"stock", 24, 8>>, <<"price", 32, 4>>}
ExecutedWritten == OrderWritten \cup {<<"executed_shares", 19, 4>>, <<"match_number", 23, 8>>}

Generator ==
    [S |-> CommonWritten \cup {<<"event_code", 11, 1>>}, A |-> AddWritten, F |-> AddWritten \cup {<<"attribution", 36, 4>>},
     E |-> ExecutedWritten, C |-> ExecutedWritten \cup {<<"printable", 31, 1>>, <<"execution_price", 32, 4>>},
     X |-> OrderWritten \cup {<<"cancelled_shares", 19, 4>>}, D |-> OrderWritten,
     U |-> CommonWritten \cup {<<"original_order_reference_number", 11, 8>>, <<"new_order_reference_number", 19, 8>>, <<"shares", 27, 4>>, <<"price", 31, 4>>}]

\* The generator of itch50_shm_bridge knows three of the types.
BridgeGenerator == [A |-> AddWritten, E |-> ExecutedWritten, D |-> OrderWritten]

\* stock and attribution are copied as they are; the rest is big-endian.
WireBytes(f, width) == IF f \in {"stock", "attribution"} THEN ValueOf(f, width) ELSE put_be(ValueOf(f, width))

\* The bytes written, from offset 0; every byte has one writer.
generate(writes, type) ==
    [i \in 0..(SizeOf(type) - 1) |->
        LET w == CHOOSE w \in writes : w[2] <= i /\ i < w[2] + w[3]
        IN  WireBytes(w[1], w[3])[i - w[2] + 1]]

\* What decode reads for each type: frame field, offset, width.
decode_common_header == {<<"stock_locate", 1, 2>>, <<"itch_timestamp_ns", 5, 6>>}
DecodedOrder == decode_common_header \cup {<<"order_ref_number", 11, 8>>}
DecodedAdd == DecodedOrder \cup {<<"side_or_flag", 19, 1>>, <<"shares", 20, 4>>, <<"stock_ticker_raw", 24, 8>>, <<"price_ticks", 32, 4>>}

\* Mutant: the executed shares are read one byte too far.
DecodedExecution_OffByOne == DecodedOrder \cup {<<"shares", 20, 4>>, <<"secondary_ref_number", 23, 8>>}

DecodedExecution == DecodedOrder \cup {<<"shares", 19, 4>>, <<"secondary_ref_number", 23, 8>>}

DecodedFields ==
    [S |-> decode_common_header \cup {<<"side_or_flag", 11, 1>>}, A |-> DecodedAdd, F |-> DecodedAdd,
     E |-> DecodedExecution, C |-> DecodedExecution \cup {<<"side_or_flag", 31, 1>>, <<"price_ticks", 32, 4>>},
     X |-> DecodedOrder \cup {<<"shares", 19, 4>>}, D |-> DecodedOrder,
     U |-> DecodedOrder \cup {<<"secondary_ref_number", 19, 8>>, <<"shares", 27, 4>>, <<"price_ticks", 31, 4>>}]

ItchFrame == {"itch_timestamp_ns", "order_ref_number", "secondary_ref_number", "stock_ticker_raw", "price_ticks", "shares", "stock_locate", "side_or_flag"}

\* decode of the first wire_len bytes, type being the first: no bytes (or no
\* buffer), an unknown type and too few bytes are refused, fields the type
\* does not carry are zero.
decode(type, wire, wire_len) ==
    IF wire_len = 0 \/ type \notin MessageType THEN [ok |-> FALSE]
    ELSE IF wire_len < SizeOf(type) THEN [ok |-> FALSE]
    ELSE [ok |-> TRUE,
          frame |-> [f \in ItchFrame |->
              IF \E d \in DecodedFields[type] : d[1] = f
              THEN LET d == CHOOSE d \in DecodedFields[type] : d[1] = f
                       bytes == [k \in 1..d[3] |-> wire[d[2] + k - 1]]
                   IN  IF f = "stock_ticker_raw" THEN bytes ELSE be_to_host(bytes)
              ELSE Zero]]

\* The member that a field of the frame is documented to carry.
Carries ==
    [itch_timestamp_ns |-> {"timestamp"}, stock_locate |-> {"stock_locate"}, stock_ticker_raw |-> {"stock"},
     order_ref_number |-> {"order_reference_number", "original_order_reference_number"},
     secondary_ref_number |-> {"match_number", "new_order_reference_number"},
     price_ticks |-> {"price", "execution_price"}, shares |-> {"shares", "executed_shares", "cancelled_shares"},
     side_or_flag |-> {"buy_sell_indicator", "printable", "event_code"}]

Expected(type, f) ==
    LET members == {n \in DOMAIN Layout[type] : Layout[type][n][1] \in Carries[f]}
    IN  IF members = {} THEN Zero ELSE LET n == CHOOSE n \in members : TRUE IN ValueOf(Layout[type][n][1], Layout[type][n][2])

\* The three descriptions of an ITCH message agree -- the packed structs, the
\* offsets the generators write to and the offsets decode reads from: a
\* message that is generated decodes to a frame that carries each member in
\* its field and zero elsewhere, and the same message cut short anywhere or
\* under an unknown type is refused, so decode never reads past the buffer.
ItchRoundTripOf(type) ==
    \A g \in {h \in {Generator, BridgeGenerator} : type \in DOMAIN h} :
        LET wire == generate(g[type], type)
        IN  /\ \A n \in DOMAIN Layout[type] :
                 LET f == Layout[type][n][1]  width == Layout[type][n][2]
                 IN  [k \in 1..width |-> wire[OffsetOf(type, n) + k - 1]] = WireBytes(f, width)
            /\ decode(type, wire, SizeOf(type)).ok
            /\ \A f \in ItchFrame : decode(type, wire, SizeOf(type)).frame[f] = Expected(type, f)
            /\ \A cut \in 0..(SizeOf(type) - 1) : ~decode(type, [i \in 0..(cut - 1) |-> wire[i]], cut).ok
            /\ ~decode("unknown", wire, SizeOf(type)).ok

-----------------------------------------------------------------------------
(* CME datagrams: a packet header, then messages that declare their own    *)
(* lengths, cut off anywhere.                                              *)

PacketHeader == 12
SbeMessageHeader == 8
GroupSizeEncoding == 3
MDIncrementalRefreshBook46 == 9
MDEntry46 == 27

CmeMessage == [template_id : {46, 27}, block_length : CmeBlocks, entry_length : CmeEntries, num_in_group : CmeCounts]

\* SbeRepeatingGroupView: how long the group is, and where its entries start.
byte_length(m) == GroupSizeEncoding + m.num_in_group * m.entry_length
EntryAt(m, group_start, e) == group_start + GroupSizeEncoding + e * m.entry_length

Fresh == [offset |-> PacketHeader, left |-> FALSE, reads |-> {<<0, PacketHeader>>}, malformed |-> 0, skipped |-> 0, entries |-> 0]

\* The datagram is given up here, for the reason that is counted.
Leaves(st, reads, malformed, skipped) ==
    [st EXCEPT !.left = TRUE, !.reads = @ \cup reads, !.malformed = @ + malformed, !.skipped = @ + skipped]

\* Mutant: the declared length of the group is not compared with the datagram.
GroupFits_Trusted(m, group_start, len) == TRUE

GroupFits(m, group_start, len) == group_start + byte_length(m) <= len

\* One turn of decode_packet_into_ring's loop, with the bytes it reads.
decode_message(st, m, len) ==
    LET root_start == st.offset + SbeMessageHeader
        group_start == root_start + m.block_length
        header == {<<st.offset, root_start>>}
        root == {<<root_start, root_start + MDIncrementalRefreshBook46>>}
        group == {<<group_start, group_start + GroupSizeEncoding>>}
        entries == {<<EntryAt(m, group_start, e), EntryAt(m, group_start, e) + MDEntry46>> : e \in 0..(m.num_in_group - 1)}
    IN  IF st.left \/ root_start > len THEN [st EXCEPT !.left = TRUE]
        ELSE IF group_start > len THEN Leaves(st, header, 1, 0)
        ELSE IF m.template_id # 46 THEN Leaves(st, header, 0, 1)
        ELSE IF m.block_length < MDIncrementalRefreshBook46 THEN Leaves(st, header, 1, 0)
        ELSE IF group_start + GroupSizeEncoding > len THEN Leaves(st, header \cup root, 1, 0)
        ELSE IF m.entry_length < MDEntry46 THEN Leaves(st, header \cup root \cup group, 1, 0)
        ELSE IF ~GroupFits(m, group_start, len) THEN Leaves(st, header \cup root \cup group, 1, 0)
        ELSE [st EXCEPT !.offset = group_start + byte_length(m), !.entries = @ + m.num_in_group, !.reads = @ \cup header \cup root \cup group \cup entries]

decode_packet(messages, len) ==
    IF len < PacketHeader THEN [Fresh EXCEPT !.reads = {}, !.malformed = 1]
    ELSE FoldLeft(LAMBDA st, m : decode_message(st, m, len), Fresh, messages)

MessageLength(m) == SbeMessageHeader + m.block_length + byte_length(m)
EndOf(messages, n) == PacketHeader + MapThenSumSet(LAMBDA i : MessageLength(messages[i]), 1..n)

\* The messages a decoder can use: whole, of the known template, wide enough.
Usable(messages, n, len) ==
    /\ EndOf(messages, n) <= len /\ messages[n].template_id = 46
    /\ messages[n].block_length >= MDIncrementalRefreshBook46 /\ messages[n].entry_length >= MDEntry46

\* Whatever a datagram declares and wherever it is cut, decode reads no byte
\* outside it, gives it up at most once with one reason counted, and delivers
\* the entries of exactly the usable messages before the first unusable one.
CmeExactOn(messages) ==
    \A len \in 0..EndOf(messages, 2) :
        LET result == decode_packet(messages, len)
            prefix == {n \in 1..2 : \A k \in 1..n : Usable(messages, k, len)}
        IN  /\ \A r \in result.reads : 0 <= r[1] /\ r[2] <= len
            /\ result.malformed + result.skipped <= 1
            /\ result.entries = MapThenSumSet(LAMBDA n : messages[n].num_in_group, prefix)
=============================================================================
