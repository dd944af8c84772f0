-------------------------- MODULE SerializationMux --------------------------
(***************************************************************************)
(* eestv/serial: MultiplexingSerializer writes records of several types    *)
(* into one LinearBuffer, DemultiplexingDeserializer reads them from       *)
(* another one, and the bytes get from the first to the second in pieces   *)
(* (TcpConnection).  A frame is a header of three bytes, the type index    *)
(* and the payload size, and the payload: the fields of the record.        *)
(*                                                                         *)
(* A byte holds a number below ByteSize.  Everything the code derives from *)
(* the width of a byte is derived from ByteSize, so that with a small one  *)
(* both size bytes are used and the largest payload can be exceeded.       *)
(***************************************************************************)
EXTENDS LinearBuffer, SequencesExt

CONSTANTS ByteSize,                 \* 2^bits_per_byte
          FieldSizes,               \* Types...: for each type the sizeof of its fields
          OutCapacity, InCapacity,  \* sizes of the two buffers
          MaxRecords                \* bound: calls of serialize that find room for a header

max_types        == ByteSize - 1
header_size      == 3
max_payload_size == ByteSize * ByteSize - 1

ASSUME MuxAssumption ==
    /\ ByteSize \in Nat /\ ByteSize > 1
    /\ FieldSizes \in Seq(Seq(Nat \ {0}))
    /\ Len(FieldSizes) \in 1 .. max_types
    /\ OutCapacity \in Nat /\ InCapacity \in Nat /\ MaxRecords \in Nat

VARIABLES
    out,        \* the buffer of the MultiplexingSerializer
    in,         \* the buffer of the DemultiplexingDeserializer
    calls,      \* calls of serialize so far
    accepted,   \* the records for which serialize returned true
    delivered,  \* the records which deserialize returned with success
    slips       \* what went wrong so far without undoing itself

vars == <<out, in, calls, accepted, delivered, slips>>

Bytes == 0 .. ByteSize - 1

\* A field is the sequence of its bytes, a record its type index and its fields.
Record(type, fields) == [type |-> type, fields |-> fields]

\* The value in the n-th call has fields that differ from byte to byte and call to call.
FieldsOf(type, n) ==
    [i \in DOMAIN FieldSizes[type + 1] |->
        [j \in 1 .. FieldSizes[type + 1][i] |-> (n + i + j) % ByteSize]]

Slips == {"truncated", "too_large", "header_taken", "unknown_type", "size_mismatch"}

TypeOK ==
    /\ out \in Buffer(Bytes, OutCapacity) /\ WellFormed(out)
    /\ in \in Buffer(Bytes, InCapacity) /\ WellFormed(in)
    /\ calls \in 0 .. MaxRecords
    /\ Len(accepted) <= calls
    /\ \A r \in Range(accepted) \cup Range(delivered) : r.type < Len(FieldSizes)
    /\ slips \subseteq Slips

Init ==
    /\ out = NewBuffer(OutCapacity) /\ in = NewBuffer(InCapacity)
    /\ calls = 0 /\ accepted = << >> /\ delivered = << >> /\ slips = {}

-----------------------------------------------------------------------------
(***************************************************************************)
(* MultiplexingSerializer and Serializer.                                  *)
(***************************************************************************)

\* Serializer::serialize_value of one arithmetic field: a field for which there is no
\* room is left out, the ones after it are tried all the same.
serialize_value(ser, bytes) ==
    LET head == get_write_head(ser.buffer) IN
    IF head.ptr # NullPtr /\ head.len >= Len(bytes)
    THEN [buffer        |-> commit(fill(ser.buffer, head.ptr, bytes), Len(bytes)),
          bytes_written |-> ser.bytes_written + Len(bytes)]
    ELSE ser

\* ser & value, for a new Serializer on the buffer b.
Serialized(b, fields) ==
    LET ser[i \in 0 .. Len(fields)] ==
            IF i = 0 THEN [buffer |-> b, bytes_written |-> 0]
            ELSE serialize_value(ser[i - 1], fields[i])
    IN  ser[Len(fields)]

\* Mutated: the high byte first.
SizeBytes_swapped(n) == <<(n \div ByteSize) % ByteSize, n % ByteSize>>

\* The two size bytes of a header, low byte first.
SizeBytes(n) == <<n % ByteSize, (n \div ByteSize) % ByteSize>>

\* MultiplexingSerializer::serialize, when there is room for a header.  The header is
\* committed with a size of 0, which is patched once the payload is written.  The call
\* returns true if the size fits in two bytes, whether or not all fields were written.
serialize(type) ==
    LET head   == get_write_head(out)
        ser    == Serialized(commit(fill(out, head.ptr, <<type, 0, 0>>), header_size),
                             FieldsOf(type, calls))
        record == Record(type, FieldsOf(type, calls))
    IN
    /\ calls < MaxRecords /\ calls' = calls + 1
    /\ head.ptr # NullPtr /\ head.len >= header_size
    /\ \/ /\ ser.bytes_written > max_payload_size
          /\ out' = ser.buffer
          /\ slips' = slips \cup {"too_large"}
          /\ UNCHANGED accepted
       \/ /\ ser.bytes_written <= max_payload_size
          /\ out' = fill(ser.buffer, head.ptr + 1, SizeBytes(ser.bytes_written))
          /\ accepted' = Append(accepted, record)
          /\ slips' = IF ser.bytes_written = Len(FlattenSeq(record.fields)) THEN slips
                      ELSE slips \cup {"truncated"}
    /\ UNCHANGED <<in, delivered>>

\* Without room for a header the call returns false and leaves everything alone.
serialize_refused ==
    /\ get_write_head(out).len < header_size
    /\ UNCHANGED vars

-----------------------------------------------------------------------------
\* The connection takes a byte from the one buffer to the other.  A larger piece is
\* several of these steps: the buffers get into the same states.  (The sets with one
\* element give names to values that TLC then computes once.)
transfer ==
    /\ out.size > 0 /\ get_write_head(in).len > 0
    /\ out' = consume(out, 1)
    /\ \E byte \in {BytesAt(out, out.tail, 1)}, ptr \in {get_write_head(in).ptr} :
       \E b \in {fill(in, ptr, byte)} : in' = commit(b, 1)
    /\ UNCHANGED <<calls, accepted, delivered, slips>>

-----------------------------------------------------------------------------
(***************************************************************************)
(* DemultiplexingDeserializer and Deserializer.                            *)
(***************************************************************************)

\* Mutated: the last field of the buffer is left.
deserialize_value_strict(deser, width) ==
    LET head == get_read_head(deser.buffer) IN
    IF head.ptr # NullPtr /\ head.len > width
    THEN [buffer |-> consume(deser.buffer, width),
          fields |-> Append(deser.fields, BytesAt(deser.buffer, head.ptr, width))]
    ELSE [buffer |-> deser.buffer,
          fields |-> Append(deser.fields, [i \in 1 .. width |-> 0])]

\* Deserializer::deserialize_value of one arithmetic field: a field for which there are
\* not enough bytes keeps the 0 it was initialised with.
deserialize_value(deser, width) ==
    LET head == get_read_head(deser.buffer) IN
    IF head.ptr # NullPtr /\ head.len >= width
    THEN [buffer |-> consume(deser.buffer, width),
          fields |-> Append(deser.fields, BytesAt(deser.buffer, head.ptr, width))]
    ELSE [buffer |-> deser.buffer,
          fields |-> Append(deser.fields, [i \in 1 .. width |-> 0])]

\* deser & value, for a new Deserializer on the buffer b.
Deserialized(b, type) ==
    LET widths == FieldSizes[type + 1]
        deser[i \in 0 .. Len(widths)] ==
            IF i = 0 THEN [buffer |-> b, fields |-> << >>]
            ELSE deserialize_value(deser[i - 1], widths[i])
    IN  deser[Len(widths)]

\* Mutated: one byte more than the header is asked for.
header_available_strict(b) ==
    get_read_head(b).ptr # NullPtr /\ get_read_head(b).len > header_size

\* The test read_header begins with.
header_available(b) ==
    get_read_head(b).ptr # NullPtr /\ get_read_head(b).len >= header_size

\* read_header: what the header says, and the buffer b without it.
read_header(b) ==
    LET header == BytesAt(b, get_read_head(b).ptr, header_size) IN
    [type |-> header[1], payload_size |-> header[2] + header[3] * ByteSize,
     rest |-> consume(b, header_size)]

\* deserialize_type: the record, and whether as many bytes were consumed as announced.
\* A payload of 0 bytes is not checked.
deserialize_type(b, type, payload_size) ==
    LET deser == Deserialized(b, type) IN
    [record  |-> Record(type, deser.fields), rest |-> deser.buffer,
     success |-> payload_size = 0 \/ b.size - deser.buffer.size = payload_size]

\* DemultiplexingDeserializer::deserialize, when there is a header.  The header is
\* consumed first, and for good: the failures that follow leave the stream without it.
deserialize ==
    /\ header_available(in)
    /\ \E h \in {read_header(in)} :
       \/ /\ h.type >= Len(FieldSizes)
          /\ in' = h.rest
          /\ slips' = slips \cup {"unknown_type"}
          /\ UNCHANGED delivered
       \/ /\ h.type < Len(FieldSizes)
          /\ h.payload_size > 0 /\ h.rest.size < h.payload_size
          /\ in' = h.rest
          /\ slips' = slips \cup {"header_taken"}
          /\ UNCHANGED delivered
       \/ /\ h.type < Len(FieldSizes)
          /\ h.payload_size = 0 \/ h.rest.size >= h.payload_size
          /\ \E result \in {deserialize_type(h.rest, h.type, h.payload_size)} :
             /\ in' = result.rest
             /\ IF result.success
                THEN delivered' = Append(delivered, result.record) /\ UNCHANGED slips
                ELSE slips' = slips \cup {"size_mismatch"} /\ UNCHANGED delivered
    /\ UNCHANGED <<out, calls, accepted>>

\* Without a header the call returns no success and leaves everything alone.
deserialize_waits == ~header_available(in) /\ UNCHANGED vars

Writer == (\E type \in 0 .. Len(FieldSizes) - 1 : serialize(type)) \/ serialize_refused
Reader == deserialize \/ deserialize_waits

Next == Writer \/ transfer \/ Reader

Spec == Init /\ [][Next]_vars

(***************************************************************************)
(* Fairness.  The connection delivers what is written for as long as there *)
(* is room, and the reader calls deserialize again and again.              *)
(***************************************************************************)
FairSpec == Spec /\ WF_vars(transfer) /\ WF_vars(deserialize)

-----------------------------------------------------------------------------
\* Properties.

\* The frame of a record as the format is documented ("[1 byte: type_index] [2 bytes:
\* payload_size] [N bytes: serialized_payload]", multiplexing_serializer.hpp line 17).
Frame(r) ==
    LET payload == FlattenSeq(r.fields) IN
    <<r.type, Len(payload) % ByteSize, Len(payload) \div ByteSize>> \o payload

\* The buffers are well formed.  As long as no payload was truncated or too large and no
\* header was taken before its payload had arrived, what deserialize has returned are
\* the first records serialize has accepted, with the same values, and the bytes in
\* the two buffers are exactly the frames of the others, however the connection cuts the
\* stream.
InStep ==
    /\ TypeOK
    /\ slips = {} =>
          LET n == Len(delivered) IN
          /\ n <= Len(accepted)
          /\ delivered = SubSeq(accepted, 1, n)
          /\ Contents(in) \o Contents(out) =
                FlattenSeq([i \in 1 .. Len(accepted) - n |-> Frame(accepted[n + i])])

\* deserialize finds an unknown type or a wrong size only in a stream that lost its step
\* before: a payload was truncated or too large, or a header was taken too early.
FailureHasCause ==
    slips \cap {"unknown_type", "size_mismatch"} # {} =>
        slips \cap {"truncated", "too_large", "header_taken"} # {}

\* Every accepted record is delivered, unless the stream got out of step, or the
\* receiving buffer is used up to its end by an incomplete header: such a buffer is never
\* emptied and so never reset.
AcceptedIsDelivered ==
    \A n \in 1 .. MaxRecords :
        Len(accepted) >= n ~> \/ Len(delivered) >= n
                              \/ slips # {}
                              \/ get_write_head(in).ptr = NullPtr /\ in.size < header_size
=============================================================================
