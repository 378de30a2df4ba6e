---- MODULE BinaryCoder ----
(* The messages of the pipes, base/src/binary_coder_extended.c: fields behind a
   header of two bytes that holds the length of the whole message.  Each field
   has a type, a length of 16 bits and its bytes.  A buffer is a sequence of
   bytes; what aroop_txt_length says of it is its Len. *)
EXTENDS Integers, Sequences

CONSTANTS Ints,      \* the integers packed: pids, tokens, ports, flags, all of 32 bits
          Lengths,   \* the lengths of the strings packed: hooks, keys, values
          Caps,      \* the capacities of the senders' buffers
          RecvCap,   \* the capacity of the receiver's buffer
          MaxFields  \* bound: fields of a message

ASSUME IntsAssumption == \A v \in Ints : v \in Int /\ v >= -2147483647 - 1 /\ v <= 2147483647

\* A buffer has room for the header of the message, and its length fits into 16 bits.
ASSUME BuffersAssumption ==
    Lengths \subseteq Nat /\ RecvCap \in Nat /\ \A cap \in Caps : cap \in Nat /\ cap >= 2 /\ cap <= 65535

STRING_TYPE == 1
INTEGER_TYPE == 2
HeaderLen == 3

High(n) == (n \div 256) % 256
Low(n) == n % 256

\* A buffer whose base header says how long it is.
Sealed(buffer) == [buffer EXCEPT ![1] = High(Len(buffer)), ![2] = Low(Len(buffer))]

Reset == <<0, 2>>

\* binary_pack_string_helper: a field that does not fit is refused, which no
\* caller looks at.
Fits(buffer, x, cap) == Len(x) + Len(buffer) + HeaderLen <= cap
Pack(buffer, x, type, cap) ==
    IF Fits(buffer, x, cap)
    THEN Sealed(buffer \o <<type, High(Len(x)), Low(Len(x))>> \o x)
    ELSE buffer

\* binary_pack_int: four bytes from 0xFFFF on, two below, and so two of a negative int:
\* the token -1 of a request that nobody is to answer (async_db.c:77, room.c:45,
\* room_master.c:135, user.c:42) is packed as FF FF.
\* Fault: four bytes only from 0x1FFFF on.
IntBytesLate(v) ==
    IF v >= 131071 THEN <<(v \div 16777216) % 256, (v \div 65536) % 256, High(v), Low(v)>>
    ELSE <<High(v), Low(v)>>
IntBytes(v) ==
    IF v >= 65535 THEN <<(v \div 16777216) % 256, (v \div 65536) % 256, High(v), Low(v)>>
    ELSE <<High(v), Low(v)>>

\* binary_unpack_int: up to four bytes, the most significant first.
TwoOf(x) == x[1] * 256 + x[2]
IntOf(x) ==
    IF Len(x) = 0 THEN 0
    ELSE IF Len(x) = 1 THEN x[1]
    ELSE IF Len(x) = 2 THEN TwoOf(x)
    ELSE IF Len(x) = 4 THEN (TwoOf(x) * 256 + x[3]) * 256 + x[4]
    ELSE TwoOf(x) * 256 + x[3]

\* Fault: the length of the buffer is trusted.
ClaimedTrust(buffer) == Len(buffer)
\* The length the message itself claims: "do not trust the blen use my blen".
Claimed(buffer) == buffer[1] * 256 + buffer[2]
FieldLen(buffer, pos) == buffer[pos + 2] * 256 + buffer[pos + 3]

\* Fault: a field is taken to begin where the one before it ends without its header.
NextPosBody(buffer, pos) == (pos + FieldLen(buffer, pos) + HeaderLen - 1) % 256
\* The position behind the field at pos, 8 bits wide as mychar_t is.
NextPos(buffer, pos) == (pos + FieldLen(buffer, pos) + HeaderLen) % 256

Broken(buffer, pos) == pos + FieldLen(buffer, pos) > Claimed(buffer)

Nothing == [ok |-> TRUE, x |-> <<>>]
Failure == [ok |-> FALSE, x |-> <<>>]

\* binary_unpack_string_helper, one turn of its loop that skips a field: the position
\* of the next, -1 at the end, -2 after an error.
Move(buffer, pos) ==
    IF pos < 0 THEN pos
    ELSE IF Broken(buffer, pos) THEN -2
    ELSE IF NextPos(buffer, pos) < Claimed(buffer) THEN NextPos(buffer, pos) ELSE -1

Position(buffer, skip) ==
    LET Walk[k \in 0 .. skip] == IF k = 0 THEN 2 ELSE Move(buffer, Walk[k - 1])
    IN  Walk[skip]

\* binary_unpack_string_helper: a message that claims more than the buffer holds is an
\* error (and an assertion), as a field that does; past the last field there is nothing,
\* which is no error.
Unpack(buffer, skip, type) ==
    LET pos == Position(buffer, skip)
        start == (pos + HeaderLen) % 256
    IN  IF Len(buffer) = HeaderLen - 1 THEN Nothing
        ELSE IF Claimed(buffer) > Len(buffer) THEN Failure
        ELSE IF pos = -1 THEN Nothing
        ELSE IF pos = -2 \/ Broken(buffer, pos) \/ buffer[pos + 1] # type THEN Failure
        ELSE [ok |-> TRUE, x |-> SubSeq(buffer, start + 1, start + FieldLen(buffer, pos))]

\* recvmsg into a buffer that is used for every message: what is behind the
\* message stays, and the length is set to the capacity (iov_len is not what was
\* received).
Received(old, buffer) == [i \in 1 .. Len(old) |-> IF i <= Len(buffer) THEN buffer[i] ELSE old[i]]

\* binary_coder_fixup, for the messages that say how long they are.
Fixup(buffer) == SubSeq(buffer, 1, Claimed(buffer))
----
(* A handler packs a message, field by field, and what is sent of it is read. *)

VARIABLES fields,   \* the fields that the handler wanted in the message, in order
          buffer    \* buffer[cap]: the message, in a buffer of that capacity

coderVars == <<fields, buffer>>

\* A field: an integer, or a string of some length.
Fields == [type : {INTEGER_TYPE}, val : Ints] \union [type : {STRING_TYPE}, val : Lengths]
\* Letters tell the strings of a message apart.
Letter(i) == 96 + i
Bytes(f, i) == IF f.type = INTEGER_TYPE THEN IntBytes(f.val) ELSE [j \in 1 .. f.val |-> Letter(i)]

CoderInit == fields = <<>> /\ buffer = [cap \in Caps |-> Reset]

\* binary_coder_reset: the next message.
ResetBuffer == fields # <<>> /\ fields' = <<>> /\ buffer' = [cap \in Caps |-> Reset]

PackField(f) ==
    /\ Len(fields) < MaxFields
    /\ fields' = Append(fields, f)
    /\ buffer' = [cap \in Caps |-> Pack(buffer[cap], Bytes(f, Len(fields')), f.type, cap)]
PackInt == \E v \in Ints : PackField([type |-> INTEGER_TYPE, val |-> v])
PackString == \E n \in Lengths : PackField([type |-> STRING_TYPE, val |-> n])

Coding == ResetBuffer \/ PackInt \/ PackString
CoderSpec == CoderInit /\ [][Coding]_coderVars
----
(* The reference: a message is the sequence of the fields that fitted. *)

NoFields == [index |-> <<>>, at |-> <<>>, size |-> HeaderLen - 1]

\* What becomes of m when f, the n-th field wanted, is packed.
With(m, f, n, cap) ==
    LET size == m.size + HeaderLen + Len(Bytes(f, n))
    IN  IF size > cap THEN m
        ELSE [index |-> Append(m.index, n), at |-> Append(m.at, m.size), size |-> size]

\* The indices of the fields that fitted, where each begins, and the size of the whole.
Accepted(fs, cap) ==
    LET Message[n \in 0 .. Len(fs)] == IF n = 0 THEN NoFields ELSE With(Message[n - 1], fs[n], n, cap)
    IN  Message[Len(fs)]

\* What an earlier message has left in the receiver's buffer.
Leftover == [i \in 1 .. RecvCap |-> 255]

\* Every field that fitted and begins within the reach of a position of 8 bits is
\* read back, from the sender's buffer as from the receiver's, in which an older
\* and longer message was: a field that was refused makes the later ones move up
\* (binary_pack_string_helper, binary_unpack_string_helper).
FieldsReadBack ==
    fields # <<>> => \A cap \in Caps :
        LET acc == Accepted(fields, cap)
            got == Received(Leftover, buffer[cap])
        IN  /\ Len(buffer[cap]) = acc.size /\ Claimed(buffer[cap]) = acc.size /\ acc.size <= cap
            /\ acc.size <= RecvCap => Fixup(got) = buffer[cap]
            /\ \A k \in 1 .. Len(acc.index) :
                  LET n == acc.index[k]
                      want == [ok |-> TRUE, x |-> Bytes(fields[n], n)]
                  IN  acc.at[k] + HeaderLen < 256 =>
                        /\ Unpack(buffer[cap], k - 1, fields[n].type) = want
                        /\ acc.size <= RecvCap => Unpack(got, k - 1, fields[n].type) = want

\* A field that is asked for and was not sent is empty, whatever the buffer held
\* before: on_bubbles (pipeline.c:186) asks every message for its command and calls
\* nothing if there is none, join.c:85 and welcome.c:26 ask for a value.
MissingIsEmpty ==
    \A cap \in Caps :
        LET acc == Accepted(fields, cap)
        IN  acc.size < 256 /\ acc.size <= RecvCap /\ acc.size > 2 =>
                \A more \in 0 .. 2, type \in {STRING_TYPE, INTEGER_TYPE} :
                    Unpack(Received(Leftover, buffer[cap]), Len(acc.index) + more, type) = Nothing

\* What a reader gets of an int: a negative one loses its sign and its upper half.
Heard(v) == IF v >= 0 THEN v ELSE v % 65536

\* An integer that is not negative reads back as it was, in two bytes as in four; a
\* negative one as 65536 more, modulo 65536: the token -1 reaches the master as 65535
\* (binary_pack_int, binary_unpack_int).
IntsReadBack ==
    \A i \in DOMAIN fields :
        fields[i].type = INTEGER_TYPE => IntOf(Bytes(fields[i], i)) = Heard(fields[i].val)
====
