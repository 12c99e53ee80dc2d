----------------------------------- MODULE Wire -----------------------------------
(* The binary formats of signals, file announcements, profile answers, key exchanges *)
(* and messages: each encoder, and the decoder that reads it with its length checks.  *)
(* A byte is a digit below Base, an integer of w bytes is written in w digits, the    *)
(* highest first; a string is the sequence of its bytes.  With a small Base the       *)
(* largest length that a field can announce is within reach.                         *)
EXTENDS Integers, Sequences, SequencesExt

CONSTANTS Base,       \* 256
          IdSize,     \* bytes of a UUID
          KeySize,    \* bytes of a key
          TypeBytes,  \* TypeBytes[t]: the name of the signal type t
          Error,      \* an error is returned
          Panic       \* the goroutine panics

ASSUME WireAssumption ==
  /\ Base \in Nat \ {0, 1} /\ IdSize \in Nat \ {0} /\ KeySize \in Nat \ {0}
  /\ \A t, u \in DOMAIN TypeBytes : TypeBytes[t] = TypeBytes[u] => t = u

Marker == 1

----------------------------------------------------------------------------------
(* Integers and slices. *)

MaxUint(w) == Base ^ w - 1
MaxInt64 == (Base ^ 8) \div 2 - 1

\* binary.BigEndian: n in w bytes, and the w bytes of d after offset off.
PutUint(n, w) == [i \in 1 .. w |-> (n \div Base ^ (w - i)) % Base]

\* data[off : off+n]; a slice beyond the end panics, and so does an integer.
Slice(d, off, n) == IF off + n <= Len(d) THEN SubSeq(d, off + 1, off + n) ELSE Panic
Number(digits) == FoldLeft(LAMBDA n, b : n * Base + b, 0, digits)
Uint(d, off, w) == IF off + w <= Len(d) THEN Number(SubSeq(d, off + 1, off + w)) ELSE Panic

\* An int64 as a uint64, and back: what does not fit panics.
Put64(n) == IF n < 0 THEN Panic ELSE PutUint(n, 8)
ToInt64(n) == IF n = Panic THEN Panic ELSE IF n > MaxInt64 THEN Panic ELSE n

\* A field with its length in front of it, in w bytes; a longer field panics.
Prefixed(s, w) == IF Len(s) <= MaxUint(w) THEN PutUint(Len(s), w) \o s ELSE Panic

\* The fields one after the other, unless one of them panicked.
Buffer(fields) ==
  IF \E i \in DOMAIN fields : fields[i] = Panic THEN Panic ELSE FlattenSeq(fields)

----------------------------------------------------------------------------------
(* A decoder checks that the buffer holds a header, and then reads one field after    *)
(* another and moves its offset.  Each format below lists the fields as its decoder   *)
(* reads them: so many bytes; an int64; or a length of size bytes and a string, for    *)
(* which there must be room together with the room bytes that are read next.         *)

Fixed(name, size)      == [kind |-> "fixed", name |-> name, size |-> size, room |-> 0]
Signed(name)           == [kind |-> "int64", name |-> name, size |-> 8, room |-> 0]
Text(name, size, room) == [kind |-> "text", name |-> name, size |-> size, room |-> room]

Failed(c) == c \in {Error, Panic}

\* The value is that of the field, the offset moves by n.
Put(c, f, value, n) ==
  IF value = Panic THEN Panic
  ELSE [off |-> c.off + n,
        rec |-> [x \in DOMAIN c.rec \cup {f.name} |-> IF x = f.name THEN value ELSE c.rec[x]]]

ReadText(d, c, f, n) ==
  IF n = Panic THEN Panic
  ELSE IF Len(d) < c.off + f.size + n + f.room THEN Error
  ELSE Put(c, f, Slice(d, c.off + f.size, n), f.size + n)

ReadField(d, c, f) ==
  CASE f.kind = "fixed" -> Put(c, f, Slice(d, c.off, f.size), f.size)
    [] f.kind = "int64" -> Put(c, f, ToInt64(Uint(d, c.off, f.size)), f.size)
    [] f.kind = "text"  -> ReadText(d, c, f, Uint(d, c.off, f.size))

\* The fields of the format from offset off on, and the offset after them.
Read(d, off, format) ==
  IF Len(d) < off + format.header THEN Error
  ELSE FoldLeft(LAMBDA c, f : IF Failed(c) THEN c ELSE ReadField(d, c, f),
                [off |-> off, rec |-> <<>>], format.fields)

Record(c) == IF Failed(c) THEN c ELSE c.rec

----------------------------------------------------------------------------------
(* signal.New and signal.Parse. *)

\* A content that is too long is an error here, not a panic.
New(sig) ==
  IF Len(sig.content) > MaxUint(4) THEN Error
  ELSE Buffer(<<<<Marker>>, Prefixed(TypeBytes[sig.type], 2), sig.from, sig.id,
                Prefixed(sig.content, 4)>>)

\* Mutant: the length of the content may be missing.
SignalFormat_NoRoom ==
  [header |-> 2, fields |-> <<Text("type", 2, KeySize + IdSize), Fixed("from", KeySize),
                              Fixed("id", IdSize), Text("content", 4, 0)>>]

\* After the marker.
SignalFormat ==
  [header |-> 2, fields |-> <<Text("type", 2, KeySize + IdSize + 4), Fixed("from", KeySize),
                              Fixed("id", IdSize), Text("content", 4, 0)>>]

TypeOf(bytes) == CHOOSE t \in DOMAIN TypeBytes : TypeBytes[t] = bytes

Parse(d) ==
  IF Len(d) < 3 THEN Error
  ELSE IF d[1] # Marker THEN Error
  ELSE Record(Read(d, 1, SignalFormat))

----------------------------------------------------------------------------------
(* encodeFileMeta and decodeFileMeta. *)

EncodeFileMeta(m) == Buffer(<<Prefixed(m.name, 2), Put64(m.size), Prefixed(m.mime, 2)>>)

FileMetaFormat ==
  [header |-> 2, fields |-> <<Text("name", 2, 8 + 2), Signed("size"), Text("mime", 2, 0)>>]

(* encodeInfoResponse and decodeInfoResponse. *)

EncodeInfoResponse(r) == Buffer(<<Prefixed(r.name, 2), Prefixed(r.pic, 4)>>)

InfoResponseFormat == [header |-> 2, fields |-> <<Text("name", 2, 4), Text("pic", 4, 0)>>]

(* encodeKeyExchange and decodeKeyExchange. *)

EncodeKeyExchange(k) ==
  Buffer(<<k.pubKey, k.staticPubKey, Prefixed(k.name, 2), Prefixed(k.signature, 2)>>)

KeyExchangeFormat ==
  [header |-> 2 * KeySize + 2,
   fields |-> <<Fixed("pubKey", KeySize), Fixed("staticPubKey", KeySize),
                Text("name", 2, 2), Text("signature", 2, 0)>>]

----------------------------------------------------------------------------------
(* Message.Encode and message.ToMessage. *)

EncodeAttachment(a) ==
  Buffer(<<a.id, Prefixed(a.name, 2), Prefixed(a.mime, 2), Put64(a.size), Prefixed(a.data, 4)>>)

\* Mutant: the length of the data is read from two bytes.
AttachmentFormat_Short ==
  [header |-> IdSize + 2,
   fields |-> <<Fixed("id", IdSize), Text("name", 2, 2), Text("mime", 2, 8 + 4), Signed("size"),
                Text("data", 2, 0)>>]

AttachmentFormat ==
  [header |-> IdSize + 2,
   fields |-> <<Fixed("id", IdSize), Text("name", 2, 2), Text("mime", 2, 8 + 4), Signed("size"),
                Text("data", 4, 0)>>]

Encode(m) ==
  IF Len(m.attachments) > MaxUint(2) THEN Panic
  ELSE Buffer(<<m.id, m.from, Prefixed(m.to, 2), Prefixed(m.content, 4), Put64(m.time),
                Put64(m.created), Put64(m.updated), PutUint(Len(m.attachments), 2)>>
              \o [i \in DOMAIN m.attachments |-> EncodeAttachment(m.attachments[i])])

MessageFormat ==
  [header |-> IdSize + KeySize + 2,
   fields |-> <<Fixed("id", IdSize), Fixed("from", KeySize), Text("to", 2, 4),
                Text("content", 4, 3 * 8 + 2), Signed("time"), Signed("created"), Signed("updated")>>]

\* One more attachment.
NextAttachment(c, a) ==
  IF Failed(a) THEN a
  ELSE [off |-> a.off, rec |-> [c.rec EXCEPT !.attachments = Append(@, a.rec)]]

\* The attachments after the other fields, count of them; the first failure ends the loop.
ReadAttachments(d, c, count) ==
  IF count = Panic THEN Panic
  ELSE FoldLeft(LAMBDA r, i : IF Failed(r) THEN r ELSE NextAttachment(r, Read(d, r.off, AttachmentFormat)),
                Put(c, [name |-> "attachments"], <<>>, 2), [i \in 1 .. count |-> i])

ReadMessage(d, c) == IF Failed(c) THEN c ELSE ReadAttachments(d, c, Uint(d, c.off, 2))

ToMessage(d) == Record(ReadMessage(d, Read(d, 0, MessageFormat)))
==================================================================================
