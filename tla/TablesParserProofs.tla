------------------------- MODULE TablesParserProofs -------------------------
(* Theorems about TablesParser: whatever well-formed sections arrive, in   *)
(* whatever order and of whatever length, and however large the arrays.    *)
EXTENDS TablesParser, TLAPS

-----------------------------------------------------------------------------
(* The masks                                                               *)

(* The reserved bits of a field do not reach what is read under its mask.  *)
LEMMA MaskedField ==
  ASSUME NEW n \in Nat
  PROVE  /\ n < 8192 => (57344 + n) % 8192 = n
         /\ n < 4096 => (45056 + n) % 4096 = n /\ (61440 + n) % 4096 = n
  BY SMT

(* Nor do the flags above a length, whatever they are.                     *)
LEMMA MaskedLength ==
  ASSUME NEW flags \in Nat, NEW n \in Nat, n < 4096, NEW field, field = flags * 8192 + n
  PROVE  field % 4096 = n
  BY SMT

LEMMA Ranges ==
  /\ \A n \in Pid : n \in Nat /\ n < 8192
  /\ \A n \in Byte \cup Word \cup TwoDigits \cup Status : n \in Nat
  BY DEF Pid, Byte, Word, TwoDigits, Status

(* Two bits are kept of running_status.                                    *)
LEMMA MaskedStatus ==
  ASSUME NEW n \in Byte
  PROVE  (n \div 32) % 4 \in 0..3
  BY DEF Byte

LEMMA DecimalNat ==
  ASSUME NEW n \in Nat
  PROVE  Decimal(n) \in Nat
  BY DEF Decimal

(* An entry from offset a to offset c, k bytes and the descriptors whose   *)
(* length a field of the entry holds.                                      *)
LEMMA MaskedSize ==
  ASSUME NEW a \in Nat, NEW c \in Nat, NEW k \in Nat, c - a >= k, c <= 4094,
         NEW field \in Int,
         \/ field = 61440 + (c - a) - k
         \/ \E flags \in Nat : field = flags * 8192 + (c - a) - k
  PROVE  /\ field % 4096 \in Nat
         /\ c = a + k + (field % 4096)
  <1> DEFINE n == c - a - k
  <1>1. n \in Nat /\ n < 4096 /\ c = a + k + n
    OBVIOUS
  <1>2. field % 4096 = n
    <2>1. CASE field = 61440 + (c - a) - k
      <3>1. field = 61440 + n
        BY <2>1
      <3> HIDE DEF n
      <3> QED
        BY <1>1, <3>1, MaskedField
    <2>2. CASE \E flags \in Nat : field = flags * 8192 + (c - a) - k
      <3>1. PICK flags \in Nat : field = flags * 8192 + (c - a) - k
        BY <2>2
      <3>2. field = flags * 8192 + n
        BY <3>1
      <3> HIDE DEF n
      <3> QED
        BY <1>1, <3>2, MaskedLength
    <2> QED
      BY <2>1, <2>2
  <1> QED
    BY <1>1, <1>2

-----------------------------------------------------------------------------
(* What a well-formed section offers to the parser                         *)

Content(table) == CASE table = "PAT" -> Services
                    [] table = "PMT" -> Streams
                    [] OTHER         -> Events

LEMMA Layout ==
  ASSUME NEW s \in Received
  PROVE  /\ s.table \in {"PAT", "PMT", "EIT"}
         /\ s.content \in Seq(Content(s.table))
         /\ Len(s.content) \in Nat /\ DOMAIN s.content = 1..Len(s.content)
         /\ Len(s.bytes) \in Nat /\ Len(s.bytes) <= 4098
         /\ \A i \in 1..(Len(s.content) + 1) : s.starts[i] \in Nat
         /\ s.starts[Len(s.content) + 1] + 4 = Len(s.bytes)
         /\ \A i \in 1..Len(s.content) : s.starts[i] + 4 < Len(s.bytes)
  <1>1. WellFormed(s)
    BY ParserAssumption
  <1>2. s.table \in {"PAT", "PMT", "EIT"} /\ s.content \in Seq(Content(s.table))
    BY <1>1 DEF WellFormed, PatSent, PmtSent, EitSent, Content
  <1>3. Len(s.content) \in Nat /\ DOMAIN s.content = 1..Len(s.content)
    BY <1>2
  <1>4. Framed(s)
    BY <1>1 DEF WellFormed
  <1>5. Len(s.bytes) \in Nat
    BY <1>4 DEF Framed
  <1>6. \A i \in 1..(Len(s.content) + 1) : s.starts[i] \in Nat
    BY <1>4 DEF Framed
  <1>7. \A i \in 1..Len(s.content) : s.starts[i] + 4 < Len(s.bytes)
    <2>1. \A i \in DOMAIN s.content : s.starts[i] + 4 < Len(s.bytes)
      BY <1>4 DEF Framed
    <2> QED
      BY <1>3, <2>1
  <1>8. s.starts[Len(s.content) + 1] + 4 = Len(s.bytes)
    BY <1>4 DEF Framed
  <1>9. Len(s.bytes) <= 4098
    BY <1>4, <1>5 DEF Framed
  <1> QED
    BY <1>2, <1>3, <1>5, <1>6, <1>7, <1>8, <1>9

LEMMA ContentByIndex ==
  ASSUME NEW s \in Received
  PROVE  s.content = [i \in 1..Len(s.content) |-> s.content[i]]
  <1> DEFINE c == s.content
  <1>1. c \in Seq(Content(s.table))
    BY Layout
  <1> HIDE DEF c
  <1>2. c = [i \in 1..Len(c) |-> c[i]]
    BY <1>1
  <1> QED
    BY <1>2 DEF c

(* No entry is longer than a section.                                      *)
LEMMA Ahead ==
  ASSUME NEW s \in Received, NEW i \in 1..(Len(s.content) + 1)
  PROVE  s.starts[i] \in Nat /\ s.starts[i] + 4 <= Len(s.bytes) /\ s.starts[i] <= 4094
  <1>1. Len(s.content) \in Nat /\ Len(s.bytes) \in Nat /\ Len(s.bytes) <= 4098
    BY Layout
  <1>2. s.starts[i] \in Nat
    BY Layout
  <1>3. s.starts[i] + 4 <= Len(s.bytes)
    <2>1. CASE i = Len(s.content) + 1
      BY <1>1, <2>1, Layout
    <2>2. CASE i \in 1..Len(s.content)
      BY <1>1, <1>2, <2>2, Layout
    <2> QED
      BY <1>1, <2>1, <2>2
  <1> QED
    BY <1>1, <1>2, <1>3

(* The length field, and where the first entry starts.                     *)
LEMMA Header ==
  ASSUME NEW s \in Received
  PROVE  /\ FieldOf(s, 1) % 4096 = Len(s.bytes) - 3
         /\ TableOf(s.bytes[1]) = s.table
         /\ s.table = "PAT" => ByteOf(s, 0) = 0 /\ s.starts[1] = 8
         /\ s.table = "PMT" => ByteOf(s, 0) = 2 /\ s.starts[1] = 12 + (FieldOf(s, 10) % 4096)
         /\ s.table = "EIT" => ByteOf(s, 0) = 78 /\ s.starts[1] = 14
  <1>1. WellFormed(s)
    BY ParserAssumption
  <1>2. FieldOf(s, 1) % 4096 = Len(s.bytes) - 3
    <2>1. Len(s.bytes) - 3 \in Nat /\ Len(s.bytes) - 3 < 4096
      <3> DEFINE n == Len(s.bytes)
      <3>1. 1 \in 1..(Len(s.content) + 1)
        BY Layout
      <3>2. n \in Nat /\ n <= 4098
        BY Layout
      <3>3. s.starts[1] \in Nat /\ s.starts[1] + 4 <= n
        BY <3>1, Ahead
      <3> HIDE DEF n
      <3>4. n - 3 \in Nat /\ n - 3 < 4096
        BY <3>2, <3>3
      <3> QED
        BY <3>4 DEF n
    <2>2. FieldOf(s, 1) = 45056 + (Len(s.bytes) - 3)
      BY <1>1, Layout DEF WellFormed, Framed
    <2> QED
      BY <2>1, <2>2, MaskedField
  <1>3. TableOf(s.bytes[1]) = s.table
    BY <1>1 DEF WellFormed, PatSent, PmtSent, EitSent, ByteOf, TableOf
  <1>4. ASSUME s.table = "PMT"
        PROVE  s.starts[1] = 12 + (FieldOf(s, 10) % 4096)
    <2>1. s.starts[1] \in Nat /\ s.starts[1] >= 12 /\ FieldOf(s, 10) = 61440 + (s.starts[1] - 12)
      BY <1>1, <1>4, Layout DEF WellFormed, PmtSent
    <2>2. s.starts[1] - 12 \in Nat /\ s.starts[1] - 12 < 4096
      <3>1. Len(s.content) \in Nat /\ 1 \in 1..(Len(s.content) + 1)
        BY Layout
      <3>2. s.starts[1] <= 4094
        BY <3>1, Ahead
      <3> QED
        BY <2>1, <3>2
    <2> QED
      BY <2>1, <2>2, MaskedField
  <1> QED
    BY <1>1, <1>2, <1>3, <1>4 DEF WellFormed, PatSent, PmtSent, EitSent

(* An entry is read as it was sent, and the next one starts where the      *)
(* parser takes it to start.                                               *)
LEMMA PatEntryRead ==
  ASSUME NEW s \in Received, s.table = "PAT", NEW i \in 1..Len(s.content)
  PROVE  /\ s.starts[i + 1] = s.starts[i] + 4
         /\ FieldOf(s, s.starts[i]) = s.content[i].program
         /\ FieldOf(s, s.starts[i] + 2) % 8192 = s.content[i].pid
         /\ s.content[i] \in Services
  <1>1. PatSent(s)
    BY ParserAssumption DEF WellFormed
  <1>2. s.content[i] \in Services
    BY <1>1 DEF PatSent
  <1>3. i \in DOMAIN s.content /\ i + 1 \in 1..(Len(s.content) + 1)
    BY Layout
  <1>4. (57344 + s.content[i].pid) % 8192 = s.content[i].pid
    <2>1. s.content[i].pid \in Pid
      BY <1>2 DEF Services
    <2>2. s.content[i].pid \in Nat /\ s.content[i].pid < 8192
      BY <2>1, Ranges
    <2> QED
      BY <2>2, MaskedField
  <1>5. s.starts[i + 1] = s.starts[i] + 4
    <2> DEFINE a == s.starts[i]
               c == s.starts[i + 1]
    <2>1. a \in Nat /\ c \in Nat
      BY <1>3, Ahead
    <2>2. c - a = 4
      BY <1>1, <1>3 DEF PatSent, SizeOf
    <2> HIDE DEF a, c
    <2>3. c = a + 4
      BY <2>1, <2>2
    <2> QED
      BY <2>3 DEF a, c
  <1>6. FieldOf(s, s.starts[i]) = s.content[i].program
    BY <1>1, <1>3 DEF PatSent
  <1>7. FieldOf(s, s.starts[i] + 2) = 57344 + s.content[i].pid
    BY <1>1, <1>3 DEF PatSent
  <1> QED
    BY <1>2, <1>4, <1>5, <1>6, <1>7

LEMMA PmtEntryRead ==
  ASSUME NEW s \in Received, s.table = "PMT", NEW i \in 1..Len(s.content)
  PROVE  /\ s.starts[i + 1] = s.starts[i] + 5 + (FieldOf(s, s.starts[i] + 3) % 4096)
         /\ FieldOf(s, s.starts[i] + 3) % 4096 \in Nat
         /\ ByteOf(s, s.starts[i]) = s.content[i].type
         /\ FieldOf(s, s.starts[i] + 1) % 8192 = s.content[i].pid
         /\ s.content[i] \in Streams
  <1> DEFINE a == s.starts[i]
             c == s.starts[i + 1]
             field == FieldOf(s, a + 3)
  <1>1. i \in DOMAIN s.content /\ i + 1 \in 1..(Len(s.content) + 1)
    BY Layout
  <1>2. PmtSent(s)
    BY ParserAssumption DEF WellFormed
  <1>3. s.content[i] \in Streams
    BY <1>2 DEF PmtSent
  <1>4. a \in Nat
    BY <1>1, Layout
  <1>5. c \in Nat
    BY <1>1, Ahead
  <1>6. c <= 4094
    BY <1>1, Ahead
  <1>7. c - a >= 5
    BY <1>1, <1>2 DEF PmtSent, SizeOf
  <1>8. field = 61440 + (c - a) - 5
    BY <1>1, <1>2 DEF PmtSent, SizeOf
  <1>9. field % 4096 \in Nat /\ c = a + 5 + (field % 4096)
    <2> HIDE DEF a, c, field
    <2>1. field \in Int
      BY <1>4, <1>5, <1>8
    <2> QED
      BY <1>4, <1>5, <1>6, <1>7, <1>8, <2>1, MaskedSize
  <1>10. FieldOf(s, a + 1) % 8192 = s.content[i].pid
    <2>1. s.content[i].pid \in Pid
      BY <1>3 DEF Streams
    <2>2. s.content[i].pid \in Nat /\ s.content[i].pid < 8192
      BY <2>1, Ranges
    <2>3. FieldOf(s, a + 1) = 57344 + s.content[i].pid
      BY <1>1, <1>2 DEF PmtSent
    <2> QED
      BY <2>2, <2>3, MaskedField
  <1>11. ByteOf(s, a) = s.content[i].type
    BY <1>1, <1>2 DEF PmtSent
  <1> QED
    BY <1>3, <1>9, <1>10, <1>11

LEMMA EitEntryRead ==
  ASSUME NEW s \in Received, s.table = "EIT", NEW i \in 1..Len(s.content)
  PROVE  /\ s.starts[i + 1] = s.starts[i] + 12 + (FieldOf(s, s.starts[i] + 10) % 4096)
         /\ FieldOf(s, s.starts[i] + 10) % 4096 \in Nat
         /\ ByteOf(s, s.starts[i] + 7) = Decimal(s.content[i].hours)
         /\ ByteOf(s, s.starts[i] + 8) = Decimal(s.content[i].minutes)
         /\ ByteOf(s, s.starts[i] + 9) = Decimal(s.content[i].seconds)
         /\ ByteOf(s, s.starts[i] + 10) \in Byte
         /\ s.content[i] \in Events
  <1> DEFINE a == s.starts[i]
             c == s.starts[i + 1]
             field == FieldOf(s, a + 10)
             flags == s.content[i].status
  <1>1. i \in DOMAIN s.content /\ i + 1 \in 1..(Len(s.content) + 1)
    BY Layout
  <1>2. EitSent(s)
    BY ParserAssumption DEF WellFormed
  <1>3. s.content[i] \in Events
    BY <1>2 DEF EitSent
  <1>4. a \in Nat
    BY <1>1, Layout
  <1>5. c \in Nat
    BY <1>1, Ahead
  <1>6. c <= 4094
    BY <1>1, Ahead
  <1>7. c - a >= 12
    BY <1>1, <1>2 DEF EitSent, SizeOf
  <1>8. field = flags * 8192 + (c - a) - 12
    BY <1>1, <1>2 DEF EitSent, SizeOf
  <1>9. flags \in Nat
    <2>1. flags \in Status
      BY <1>3 DEF Events
    <2> QED
      BY <2>1, Ranges
  <1>10. field % 4096 \in Nat /\ c = a + 12 + (field % 4096)
    <2> HIDE DEF a, c, field, flags
    <2>1. field \in Int
      BY <1>4, <1>5, <1>8, <1>9
    <2> QED
      BY <1>4, <1>5, <1>6, <1>7, <1>8, <1>9, <2>1, MaskedSize
  <1>11. ByteOf(s, a + 10) \in Byte
    <2>1. s.bytes \in Seq(Byte)
      BY ParserAssumption DEF WellFormed, Framed
    <2>2. Len(s.bytes) \in Nat
      BY <2>1
    <2>3. c + 4 <= Len(s.bytes)
      BY <1>1, Ahead
    <2>4. a + 11 \in 1..Len(s.bytes)
      <3> HIDE DEF a, c
      <3> QED
        BY <1>4, <1>5, <1>7, <2>2, <2>3
    <2>5. ByteOf(s, a + 10) = s.bytes[a + 11]
      <3> HIDE DEF a
      <3> QED
        BY <1>4 DEF ByteOf
    <2> QED
      BY <2>1, <2>4, <2>5
  <1>12. /\ ByteOf(s, a + 7) = Decimal(s.content[i].hours)
         /\ ByteOf(s, a + 8) = Decimal(s.content[i].minutes)
         /\ ByteOf(s, a + 9) = Decimal(s.content[i].seconds)
    <2>1. i \in DOMAIN s.content
      BY <1>1
    <2> QED
      BY <1>2, <2>1 DEF EitSent
  <1> QED
    BY <1>3, <1>10, <1>11, <1>12
-----------------------------------------------------------------------------
(* The loop invariant                                                      *)

(* A section has been handed to the callback.                              *)
Begun == state # "idle" \/ result # "none"

(* Entries of the section parsed so far.                                   *)
Parsed == CASE section.table = "PAT" -> pat.count
            [] section.table = "PMT" -> pmt.count
            [] OTHER                 -> eit.count

(* Both cursors stand at the start of the next entry.                      *)
Cursors ==
  Begun => /\ state \in {"idle", section.table}
           /\ sectionLength = Len(section.bytes) - 3
           /\ Parsed <= Len(section.content)
           /\ position = section.starts[Parsed + 1]
           /\ parsedLength = position + 1

(* What has been parsed is what was sent.                                  *)
Decoded ==
  Begun =>
    /\ section.table = "PAT" => \A i \in 1..pat.count : pat.array[i - 1] = section.content[i]
    /\ section.table = "PMT" => \A i \in 1..pmt.count :
                                  /\ pmt.array[i - 1].type = section.content[i].type
                                  /\ pmt.array[i - 1].pid = section.content[i].pid
    /\ section.table = "EIT" => \A i \in 1..eit.count :
                                  LET e == section.content[i]
                                  IN  eit.array[i - 1].duration
                                        = Decimal(e.hours) * 65536 + Decimal(e.minutes) * 256
                                            + Decimal(e.seconds)

(* The parser leaves its loop at the CRC, or at the end of its array.      *)
Outcome ==
  /\ state # "idle" => result = "none"
  /\ result = "TABLES_PARSE_OK" => Parsed = Len(section.content)
  /\ result = "TABLES_PARSE_ERROR" => Capacity(section.table) < Len(section.content)

(* No event has ever been given a name.                                    *)
Unnamed == \A i \in 0..(MaxEit - 1) : eit.array[i].event = ZeroEvent

IInv == TypeOK /\ Cursors /\ Decoded /\ Outcome /\ Unnamed

(* Between two entries the loop goes on exactly while one is missing.      *)
LEMMA MoreIffMissing ==
  ASSUME IInv, state # "idle"
  PROVE  /\ MoreToParse <=> Parsed < Len(section.content)
         /\ Parsed \in Nat /\ Len(section.content) \in Nat
  <1>1. section \in Received /\ Parsed \in Nat
    BY DEF IInv, TypeOK, Parsed
  <1>2. Len(section.content) \in Nat /\ Len(section.bytes) \in Nat
    BY <1>1, Layout
  <1>3. /\ sectionLength = Len(section.bytes) - 3
        /\ Parsed <= Len(section.content)
        /\ position = section.starts[Parsed + 1]
        /\ parsedLength = position + 1
    BY DEF IInv, Cursors, Begun
  <1>4. position \in Nat
    BY DEF IInv, TypeOK
  <1>5. CASE Parsed = Len(section.content)
    <2>1. position + 4 = Len(section.bytes)
      BY <1>1, <1>3, <1>5, Layout
    <2>2. parsedLength = sectionLength /\ sectionLength \in Int
      BY <1>2, <1>3, <1>4, <2>1
    <2>3. ~MoreToParse
      BY <2>2 DEF MoreToParse
    <2> QED
      BY <1>1, <1>2, <1>5, <2>3
  <1>6. CASE Parsed < Len(section.content)
    <2>1. Parsed + 1 \in 1..Len(section.content)
      BY <1>1, <1>2, <1>6
    <2>2. position + 4 < Len(section.bytes)
      BY <1>1, <1>3, <2>1, Layout
    <2>3. parsedLength < sectionLength
      <3>1. parsedLength = position + 1 /\ sectionLength = Len(section.bytes) - 3
        BY <1>3
      <3> QED
        BY <1>2, <1>4, <2>2, <3>1
    <2>4. MoreToParse
      BY <2>3 DEF MoreToParse
    <2> QED
      BY <1>1, <1>2, <1>6, <2>4
  <1> QED
    BY <1>1, <1>2, <1>3, <1>5, <1>6

LEMMA HeaderKeepsIInv ==
  ASSUME IInv, NEW s \in Received, parseHeader(s)
  PROVE  IInv'
  <1> USE DEF parseHeader
  <1>1. /\ section' = s /\ result' = "none" /\ state' = s.table
        /\ s.table \in {"PAT", "PMT", "EIT"}
    BY Header, Layout
  <1>2. sectionLength' = Len(s.bytes) - 3 /\ Len(s.bytes) - 3 \in Nat
    <2>1. sectionLength' = FieldOf(s, 1) % 4096
      BY DEF Bits12, Bits16, b, FieldOf, ByteOf
    <2>2. FieldOf(s, 1) % 4096 = Len(s.bytes) - 3
      BY Header
    <2>3. Len(s.bytes) \in Nat
      BY Layout
    <2>4. 1 \in 1..(Len(s.content) + 1)
      BY Layout
    <2>5. s.starts[1] \in Nat /\ s.starts[1] + 4 <= Len(s.bytes)
      BY <2>4, Ahead
    <2> QED
      BY <2>1, <2>2, <2>3, <2>4, <2>5
  <1>3. HeaderSize' = s.starts[1] /\ s.starts[1] \in Nat
    <2>1. HeaderSize' = CASE ByteOf(s, 0) = 0 -> 8
                          [] ByteOf(s, 0) = 2 -> 12 + (FieldOf(s, 10) % 4096)
                          [] OTHER            -> 14
      BY <1>1 DEF HeaderSize, Bits12, Bits16, b, FieldOf, ByteOf
    <2>2. s.starts[1] \in Nat
      BY Layout
    <2> QED
      BY <1>1, <2>1, <2>2, Header
  <1>4. position' = s.starts[1] /\ parsedLength' = s.starts[1] + 1
    BY <1>3
  <1>5. Parsed' = 0
    BY <1>1 DEF Parsed, Emptied
  <1>6. TypeOK'
    <2>1. /\ pat'.count \in {0, pat.count} /\ pat'.array = pat.array
          /\ pmt'.count \in {0, pmt.count} /\ pmt'.array = pmt.array
          /\ eit'.count \in {0, eit.count} /\ eit'.array = eit.array
      BY DEF Emptied
    <2>2. position' \in Nat /\ parsedLength' \in Nat /\ sectionLength' \in Nat
      BY <1>2, <1>3, <1>4
    <2>3. 0 \in 0..MaxPat /\ 0 \in 0..MaxPmt /\ 0 \in 0..MaxEit
      BY ParserAssumption DEF MaxEit
    <2>4. /\ pat'.count \in 0..MaxPat /\ DOMAIN pat'.array = 0..(MaxPat - 1)
          /\ pmt'.count \in 0..MaxPmt /\ DOMAIN pmt'.array = 0..(MaxPmt - 1)
          /\ eit'.count \in 0..MaxEit /\ DOMAIN eit'.array = 0..(MaxEit - 1)
      BY <2>1, <2>3 DEF IInv, TypeOK
    <2> QED
      BY <1>1, <2>2, <2>4 DEF TypeOK
  <1>7. Cursors'
    BY <1>1, <1>2, <1>4, <1>5, Layout DEF Cursors
  <1>8. Decoded'
    BY <1>1 DEF Decoded, Emptied
  <1>9. Outcome'
    BY <1>1 DEF Outcome
  <1>10. Unnamed'
    BY DEF Unnamed, IInv, Emptied
  <1> QED
    BY <1>6, <1>7, <1>8, <1>9, <1>10 DEF IInv

(* An entry is stored behind the ones before it.                           *)
LEMMA StoredEntry ==
  ASSUME NEW table, NEW entry, NEW size \in Nat \ {0},
         table.count \in 0..size, DOMAIN table.array = 0..(size - 1), table.count < size
  PROVE  LET new == Stored(table, entry)
         IN  /\ new.count = table.count + 1 /\ new.count \in 0..size
             /\ DOMAIN new.array = 0..(size - 1)
             /\ new.array[table.count] = entry
             /\ \A i \in 1..table.count : new.array[i - 1] = table.array[i - 1]
  BY DEF Stored

(* What every turn of a loop does to the cursors, in terms of the section. *)
LEMMA AdvanceKeeps ==
  ASSUME IInv, state # "idle", NEW size \in Nat,
         Advance(size), MoreToParse,
         section.starts[Parsed + 2] = section.starts[Parsed + 1] + size,
         Parsed' = Parsed + 1
  PROVE  Cursors' /\ Outcome' /\ position' \in Nat /\ parsedLength' \in Nat
  <1>1. UNCHANGED <<section, state, result, sectionLength>>
    BY DEF Advance
  <1>2. /\ position' = position + size /\ parsedLength' = parsedLength + size
        /\ position \in Nat /\ parsedLength \in Nat
    BY DEF Advance, IInv, TypeOK
  <1>3. Parsed < Len(section.content) /\ Parsed \in Nat /\ Len(section.content) \in Nat
    BY MoreIffMissing
  <1>4. /\ state \in {"idle", section.table}
        /\ sectionLength = Len(section.bytes) - 3
        /\ position = section.starts[Parsed + 1]
        /\ parsedLength = position + 1
    BY DEF IInv, Cursors, Begun
  <1>5. Cursors'
    <2>1. Parsed' <= Len(section.content) /\ Parsed' + 1 = Parsed + 2
      BY <1>3
    <2>2. position' = section.starts[Parsed' + 1]
      BY <1>2, <1>4, <2>1
    <2>3. parsedLength' = position' + 1
      <3>1. parsedLength = position + 1
        BY <1>4
      <3> QED
        BY <1>2, <3>1
    <2> QED
      BY <1>1, <1>4, <2>1, <2>2, <2>3 DEF Cursors
  <1>6. Outcome'
    BY <1>1 DEF Outcome, IInv
  <1> QED
    BY <1>2, <1>5, <1>6

LEMMA PatEntryKeepsIInv ==
  ASSUME IInv, PatEntry
  PROVE  IInv'
  <1> DEFINE i == pat.count + 1
             entry == parsePatServiceInfo(position)
  <1>1. state = "PAT" /\ MoreToParse /\ Advance(4) /\ UNCHANGED <<section, pmt, eit>>
    BY DEF PatEntry, Advance
  <1>2. section \in Received /\ section.table = "PAT" /\ Parsed = pat.count
    BY <1>1 DEF IInv, TypeOK, Cursors, Begun, Parsed
  <1>3. /\ i \in 1..Len(section.content) /\ i + 1 = Parsed + 2
        /\ position = section.starts[i]
    BY <1>1, <1>2, MoreIffMissing DEF IInv, Cursors, Begun
  <1>4. entry = section.content[i]
    <2>1. entry = [program |-> section.content[i].program, pid |-> section.content[i].pid]
      BY <1>2, <1>3, PatEntryRead DEF parsePatServiceInfo, Bits13, Bits16
    <2>2. section.content[i] \in Services
      BY <1>2, <1>3, PatEntryRead
    <2> QED
      BY <2>1, <2>2 DEF Services
  <1>5. /\ pat'.count = i /\ pat'.count \in 0..MaxPat /\ DOMAIN pat'.array = 0..(MaxPat - 1)
        /\ pat'.array[pat.count] = entry
        /\ \A j \in 1..pat.count : pat'.array[j - 1] = pat.array[j - 1]
    <2>1. pat' = Stored(pat, entry) /\ pat.count < MaxPat
      BY DEF PatEntry
    <2>2. pat.count \in 0..MaxPat /\ DOMAIN pat.array = 0..(MaxPat - 1)
      BY DEF IInv, TypeOK
    <2>3. MaxPat \in Nat \ {0}
      BY ParserAssumption
    <2> HIDE DEF entry
    <2> QED
      BY <2>1, <2>2, <2>3, StoredEntry
  <1>6. Cursors' /\ Outcome' /\ position' \in Nat /\ parsedLength' \in Nat
    <2>1. section.starts[Parsed + 2] = section.starts[Parsed + 1] + 4
      BY <1>2, <1>3, PatEntryRead
    <2>2. Parsed' = Parsed + 1
      BY <1>1, <1>2, <1>5 DEF Parsed
    <2> QED
      BY <1>1, <2>1, <2>2, AdvanceKeeps
  <1>7. Decoded'
    <2>1. ASSUME NEW j \in 1..pat'.count
          PROVE  pat'.array[j - 1] = section.content[j]
      <3>1. pat.count \in Nat
        BY DEF IInv, TypeOK
      <3>2. CASE j = i
        BY <1>4, <1>5, <3>1, <3>2
      <3>3. CASE j \in 1..pat.count
        BY <1>1, <1>2, <1>5, <3>3 DEF IInv, Decoded, Begun
      <3> QED
        BY <1>5, <2>1, <3>1, <3>2, <3>3
    <2> QED
      BY <1>1, <1>2, <2>1 DEF Decoded
  <1>8. TypeOK'
    BY <1>1, <1>5, <1>6 DEF TypeOK, IInv, Advance
  <1>9. Unnamed'
    BY <1>1 DEF Unnamed, IInv
  <1> QED
    BY <1>6, <1>7, <1>8, <1>9 DEF IInv

LEMMA PmtEntryKeepsIInv ==
  ASSUME IInv, PmtEntry
  PROVE  IInv'
  <1> DEFINE i == pmt.count + 1
             entry == parsePmtElementaryInfo(position)
             size == 5 + Bits12(position + 3)
  <1>1. state = "PMT" /\ MoreToParse /\ Advance(size) /\ UNCHANGED <<section, pat, eit>>
    BY DEF PmtEntry, Advance
  <1>2. section \in Received /\ section.table = "PMT" /\ Parsed = pmt.count
    BY <1>1 DEF IInv, TypeOK, Cursors, Begun, Parsed
  <1>3. /\ i \in 1..Len(section.content) /\ i + 1 = Parsed + 2
        /\ position = section.starts[i]
    BY <1>1, <1>2, MoreIffMissing DEF IInv, Cursors, Begun
  <1>4. entry.type = section.content[i].type /\ entry.pid = section.content[i].pid
    <2>1. /\ entry.type = ByteOf(section, section.starts[i])
          /\ entry.pid = FieldOf(section, section.starts[i] + 1) % 8192
      BY <1>3 DEF parsePmtElementaryInfo, Bits13, Bits16, b
    <2>2. /\ ByteOf(section, section.starts[i]) = section.content[i].type
          /\ FieldOf(section, section.starts[i] + 1) % 8192 = section.content[i].pid
      <3>1. i \in 1..Len(section.content)
        BY <1>3
      <3> HIDE DEF i
      <3> QED
        BY <1>2, <3>1, PmtEntryRead
    <2> HIDE DEF entry, i
    <2> QED
      BY <2>1, <2>2
  <1>5. /\ pmt'.count = i /\ pmt'.count \in 0..MaxPmt /\ DOMAIN pmt'.array = 0..(MaxPmt - 1)
        /\ pmt'.array[pmt.count] = entry
        /\ \A j \in 1..pmt.count : pmt'.array[j - 1] = pmt.array[j - 1]
    <2>1. pmt' = Stored(pmt, entry) /\ pmt.count < MaxPmt
      BY DEF PmtEntry
    <2>2. pmt.count \in 0..MaxPmt /\ DOMAIN pmt.array = 0..(MaxPmt - 1)
      BY DEF IInv, TypeOK
    <2>3. MaxPmt \in Nat \ {0}
      BY ParserAssumption
    <2> HIDE DEF entry
    <2> QED
      BY <2>1, <2>2, <2>3, StoredEntry
  <1>6. Cursors' /\ Outcome' /\ position' \in Nat /\ parsedLength' \in Nat
    <2> DEFINE n == FieldOf(section, section.starts[i] + 3) % 4096
    <2>1. size = 5 + n
      BY <1>3 DEF Bits12, Bits16
    <2>2. n \in Nat
      BY <1>2, <1>3, PmtEntryRead
    <2>3. section.starts[i + 1] = section.starts[i] + 5 + n
      BY <1>2, <1>3, PmtEntryRead
    <2>4. section.starts[i] \in Nat
      BY <1>3 DEF IInv, TypeOK
    <2> HIDE DEF n, size
    <2>5. section.starts[i + 1] = section.starts[i] + size /\ size \in Nat
      BY <2>1, <2>2, <2>3, <2>4
    <2>6. section.starts[Parsed + 2] = section.starts[Parsed + 1] + size
      BY <1>2, <1>3, <2>5
    <2>7. Parsed' = Parsed + 1
      BY <1>1, <1>2, <1>5 DEF Parsed
    <2> QED
      BY <1>1, <2>5, <2>6, <2>7, AdvanceKeeps
  <1>7. Decoded'
    <2>1. ASSUME NEW j \in 1..pmt'.count
          PROVE  /\ pmt'.array[j - 1].type = section.content[j].type
                 /\ pmt'.array[j - 1].pid = section.content[j].pid
      <3>1. pmt.count \in Nat
        BY DEF IInv, TypeOK
      <3> HIDE DEF entry
      <3>2. CASE j = i
        BY <1>4, <1>5, <3>1, <3>2
      <3>3. CASE j \in 1..pmt.count
        BY <1>1, <1>2, <1>5, <3>3 DEF IInv, Decoded, Begun
      <3> QED
        BY <1>5, <2>1, <3>1, <3>2, <3>3
    <2> QED
      BY <1>1, <1>2, <2>1 DEF Decoded
  <1>8. TypeOK'
    BY <1>1, <1>5, <1>6 DEF TypeOK, IInv, Advance
  <1>9. Unnamed'
    BY <1>1 DEF Unnamed, IInv
  <1> QED
    BY <1>6, <1>7, <1>8, <1>9 DEF IInv

LEMMA EitEntryKeepsIInv ==
  ASSUME IInv, EitEntry
  PROVE  IInv'
  <1> DEFINE i == eit.count + 1
             entry == parseEitInfo(position, eit.array[eit.count].event)
             size == 12 + Bits12(position + 10)
  <1>1. state = "EIT" /\ MoreToParse /\ Advance(size) /\ UNCHANGED <<section, pat, pmt>>
    BY DEF EitEntry, Advance
  <1>2. section \in Received /\ section.table = "EIT" /\ Parsed = eit.count
    BY <1>1 DEF IInv, TypeOK, Cursors, Begun, Parsed
  <1>3. /\ i \in 1..Len(section.content) /\ i + 1 = Parsed + 2
        /\ position = section.starts[i]
    BY <1>1, <1>2, MoreIffMissing DEF IInv, Cursors, Begun
  <1> DEFINE e == section.content[i]
             seconds == Decimal(e.hours) * 65536 + Decimal(e.minutes) * 256 + Decimal(e.seconds)
  <1>4. entry.duration = seconds
    <2>1. entry.duration = ByteOf(section, position + 7) * 65536
                             + (ByteOf(section, position + 7 + 1) * 256
                                  + ByteOf(section, position + 7 + 1 + 1))
      BY DEF parseEitInfo, Bits24, Bits16, FieldOf, b
    <2>2. position \in Nat
      BY DEF IInv, TypeOK
    <2>3. position + 7 + 1 = position + 8 /\ position + 7 + 1 + 1 = position + 9
      BY <2>2
    <2>4. /\ ByteOf(section, position + 7) = Decimal(e.hours)
          /\ ByteOf(section, position + 8) = Decimal(e.minutes)
          /\ ByteOf(section, position + 9) = Decimal(e.seconds)
          /\ e \in Events
      <3> HIDE DEF i
      <3> QED
        BY <1>2, <1>3, EitEntryRead
    <2>5. e.hours \in TwoDigits /\ e.minutes \in TwoDigits /\ e.seconds \in TwoDigits
      BY <2>4 DEF Events
    <2>6. Decimal(e.hours) \in Nat /\ Decimal(e.minutes) \in Nat /\ Decimal(e.seconds) \in Nat
      BY <2>5, Ranges, DecimalNat
    <2> HIDE DEF e, entry
    <2> QED
      BY <2>1, <2>3, <2>4, <2>6
  <1>5. /\ eit'.count = i /\ eit'.count \in 0..MaxEit /\ DOMAIN eit'.array = 0..(MaxEit - 1)
        /\ eit'.array[eit.count] = entry
        /\ \A j \in 1..eit.count : eit'.array[j - 1] = eit.array[j - 1]
        /\ eit'.array = [eit.array EXCEPT ![eit.count] = entry]
    <2>1. eit' = Stored(eit, entry) /\ eit.count < MaxEit
      BY DEF EitEntry
    <2>2. eit.count \in 0..MaxEit /\ DOMAIN eit.array = 0..(MaxEit - 1)
      BY DEF IInv, TypeOK
    <2>3. MaxEit \in Nat \ {0}
      BY DEF MaxEit
    <2>4. eit'.array = [eit.array EXCEPT ![eit.count] = entry]
      BY <2>1 DEF Stored
    <2> HIDE DEF entry, MaxEit
    <2> QED
      BY <2>1, <2>2, <2>3, <2>4, StoredEntry
  <1>6. Cursors' /\ Outcome' /\ position' \in Nat /\ parsedLength' \in Nat
    <2> DEFINE n == FieldOf(section, section.starts[i] + 10) % 4096
    <2>1. size = 12 + n
      BY <1>3 DEF Bits12, Bits16
    <2>2. n \in Nat
      BY <1>2, <1>3, EitEntryRead
    <2>3. section.starts[i + 1] = section.starts[i] + 12 + n
      BY <1>2, <1>3, EitEntryRead
    <2>4. section.starts[i] \in Nat
      BY <1>3 DEF IInv, TypeOK
    <2> HIDE DEF n, size
    <2>5. section.starts[i + 1] = section.starts[i] + size /\ size \in Nat
      BY <2>1, <2>2, <2>3, <2>4
    <2>6. section.starts[Parsed + 2] = section.starts[Parsed + 1] + size
      BY <1>2, <1>3, <2>5
    <2>7. Parsed' = Parsed + 1
      BY <1>1, <1>2, <1>5 DEF Parsed
    <2> QED
      BY <1>1, <2>5, <2>6, <2>7, AdvanceKeeps
  <1>7. Decoded'
    <2> DEFINE Duration(c) == Decimal(c.hours) * 65536 + Decimal(c.minutes) * 256
                                + Decimal(c.seconds)
    <2>1. ASSUME NEW j \in 1..eit'.count
          PROVE  eit'.array[j - 1].duration = Duration(section.content[j])
      <3>1. eit.count \in Nat
        BY DEF IInv, TypeOK
      <3>2. \A k \in 1..eit.count : eit.array[k - 1].duration = Duration(section.content[k])
        BY <1>1, <1>2 DEF IInv, Decoded, Begun
      <3>3. entry.duration = Duration(section.content[i])
        BY <1>4
      <3> HIDE DEF entry, Duration
      <3>4. CASE j = i
        BY <1>5, <3>1, <3>3, <3>4
      <3>5. CASE j \in 1..eit.count
        BY <1>5, <3>2, <3>5
      <3> QED
        BY <1>5, <2>1, <3>1, <3>4, <3>5
    <2> QED
      BY <1>1, <1>2, <2>1 DEF Decoded
  <1>8. TypeOK'
    BY <1>1, <1>5, <1>6 DEF TypeOK, IInv, Advance
  <1>9. Unnamed'
    <2>1. RunningStatus(position) # 4
      <3>1. b(position + 10) \in Byte
        BY <1>2, <1>3, EitEntryRead DEF b
      <3>2. RunningStatus(position) \in 0..3
        BY <3>1, MaskedStatus DEF RunningStatus
      <3> QED
        BY <3>2
    <2>2. entry.event = eit.array[eit.count].event
      BY <2>1 DEF parseEitInfo
    <2>3. eit.count \in 0..(MaxEit - 1) /\ DOMAIN eit.array = 0..(MaxEit - 1)
      BY DEF EitEntry, IInv, TypeOK, MaxEit
    <2> HIDE DEF entry
    <2> QED
      BY <1>5, <2>2, <2>3 DEF Unnamed, IInv
  <1> QED
    BY <1>6, <1>7, <1>8, <1>9 DEF IInv

LEMMA ReturnKeepsIInv ==
  ASSUME IInv, Return
  PROVE  IInv'
  <1>1. /\ state # "idle" /\ state' = "idle" /\ Begun
        /\ UNCHANGED <<section, sectionLength, parsedLength, position, pat, pmt, eit>>
    BY DEF Return, Begun
  <1>2. state = section.table /\ section \in Received /\ Parsed' = Parsed
    BY <1>1 DEF IInv, TypeOK, Cursors, Parsed
  <1>3. Parsed <= Len(section.content)
    BY <1>1 DEF IInv, Cursors
  <1>4. TypeOK'
    BY <1>1 DEF IInv, TypeOK, Return
  <1>5. Cursors' /\ Decoded' /\ Unnamed'
    BY <1>1, <1>2 DEF IInv, Cursors, Decoded, Unnamed
  <1>6. Outcome'
    <2>1. ASSUME result' = "TABLES_PARSE_OK"
          PROVE  Parsed' = Len(section'.content)
      <3>1. ~MoreToParse
        BY <2>1 DEF Return
      <3> QED
        BY <1>1, <1>2, <1>3, <3>1, MoreIffMissing
    <2>2. ASSUME result' = "TABLES_PARSE_ERROR"
          PROVE  Capacity(section'.table) < Len(section'.content)
      <3>1. MoreToParse /\ TableFull
        BY <2>2 DEF Return
      <3>2. Parsed >= Capacity(section.table) /\ Capacity(section.table) \in Nat
        BY <1>2, <3>1, Layout, ParserAssumption DEF TableFull, Parsed, Capacity, MaxEit
      <3>3. Parsed < Len(section.content) /\ Parsed \in Nat /\ Len(section.content) \in Nat
        BY <1>1, <3>1, MoreIffMissing
      <3> QED
        BY <1>1, <3>2, <3>3
    <2> QED
      BY <1>1, <2>1, <2>2 DEF Outcome
  <1> QED
    BY <1>4, <1>5, <1>6 DEF IInv

LEMMA IInvInvariant == Spec => []IInv
  <1>1. Init => IInv
    <2> SUFFICES ASSUME Init PROVE IInv
      OBVIOUS
    <2>1. /\ pat.count = 0 /\ DOMAIN pat.array = 0..(MaxPat - 1)
          /\ pmt.count = 0 /\ DOMAIN pmt.array = 0..(MaxPmt - 1)
          /\ eit.count = 0 /\ DOMAIN eit.array = 0..(MaxEit - 1)
      BY DEF Init, EmptyTable
    <2>2. 0 \in 0..MaxPat /\ 0 \in 0..MaxPmt /\ 0 \in 0..MaxEit
      BY ParserAssumption DEF MaxEit
    <2>3. TypeOK
      BY <2>1, <2>2 DEF Init, TypeOK
    <2>4. Cursors /\ Decoded /\ Outcome
      BY DEF Init, Cursors, Decoded, Outcome, Begun
    <2>5. Unnamed
      BY DEF Init, EmptyTable, ZeroEntry, Unnamed
    <2> QED
      BY <2>3, <2>4, <2>5 DEF IInv
  <1>2. IInv /\ [Next]_vars => IInv'
    <2> SUFFICES ASSUME IInv, [Next]_vars PROVE IInv'
      OBVIOUS
    <2>1. CASE \E s \in Received : parseHeader(s)
      BY <2>1, HeaderKeepsIInv
    <2>2. CASE PatEntry
      BY <2>2, PatEntryKeepsIInv
    <2>3. CASE PmtEntry
      BY <2>3, PmtEntryKeepsIInv
    <2>4. CASE EitEntry
      BY <2>4, EitEntryKeepsIInv
    <2>5. CASE Return
      BY <2>5, ReturnKeepsIInv
    <2>6. CASE UNCHANGED vars
      BY <2>6 DEF vars, IInv, TypeOK, Cursors, Decoded, Outcome, Unnamed, Begun, Parsed
    <2> QED
      BY <2>1, <2>2, <2>3, <2>4, <2>5, <2>6 DEF Next
  <1> QED
    BY <1>1, <1>2, PTL DEF Spec

-----------------------------------------------------------------------------
(* The theorems                                                            *)

(* No well-formed section makes a parser write past the end of its array.  *)
THEOREM TypeCorrect == Spec => []TypeOK
  <1>1. IInv => TypeOK
    BY DEF IInv
  <1> QED
    BY <1>1, IInvInvariant, PTL

(* The two cursors of a parser never drift apart: an entry is taken only   *)
(* before the CRC, and a section that is accepted was read up to the CRC.  *)
THEOREM CursorsAgree == Spec => []StopsAtCrc
  <1>1. IInv => StopsAtCrc
    <2> SUFFICES ASSUME IInv PROVE StopsAtCrc
      OBVIOUS
    <2>1. section \in Received /\ position \in Nat
      BY DEF IInv, TypeOK
    <2>2. ASSUME state # "idle", MoreToParse
          PROVE  position + 4 < Len(section.bytes)
      <3>1. Parsed + 1 \in 1..Len(section.content)
        BY <2>2, MoreIffMissing
      <3>2. position = section.starts[Parsed + 1]
        BY <2>2 DEF IInv, Cursors, Begun
      <3> QED
        BY <2>1, <3>1, <3>2, Layout
    <2>3. ASSUME result = "TABLES_PARSE_OK"
          PROVE  position + 4 = Len(section.bytes)
      <3>1. position = section.starts[Parsed + 1] /\ Parsed = Len(section.content)
        BY <2>3 DEF IInv, Cursors, Outcome, Begun
      <3> QED
        BY <2>1, <3>1, Layout
    <2> QED
      BY <2>2, <2>3 DEF StopsAtCrc
  <1> QED
    BY <1>1, IInvInvariant, PTL

(* A parser reports an error only for a section that its array cannot hold.*)
THEOREM RefusesOnlyWhenFull == Spec => []RefusedOnlyWhenFull
  <1>1. IInv => RefusedOnlyWhenFull
    <2> SUFFICES ASSUME IInv, state = "idle", result # "none"
                 PROVE  result = "TABLES_PARSE_OK"
                          <=> Len(section.content) <= Capacity(section.table)
      BY DEF RefusedOnlyWhenFull
    <2>1. result \in {"TABLES_PARSE_OK", "TABLES_PARSE_ERROR"} /\ section \in Received
      BY DEF IInv, TypeOK
    <2>2. Len(section.content) \in Nat /\ section.table \in {"PAT", "PMT", "EIT"}
      BY <2>1, Layout
    <2>3. Parsed <= Capacity(section.table) /\ Capacity(section.table) \in Nat
      BY <2>2, ParserAssumption DEF IInv, TypeOK, Parsed, Capacity, MaxEit
    <2> QED
      BY <2>1, <2>2, <2>3 DEF IInv, Outcome
  <1> QED
    BY <1>1, IInvInvariant, PTL

(* The services of a PAT that was accepted are those that were sent.       *)
THEOREM DecodesPat == Spec => []PatDecoded
  <1>1. IInv => PatDecoded
    <2> SUFFICES ASSUME IInv, ParsedOK("PAT") PROVE Entries(pat) = section.content
      BY DEF PatDecoded
    <2>1. section \in Received /\ section.table = "PAT" /\ Begun
      BY DEF ParsedOK, IInv, TypeOK, Begun
    <2>2. pat.count = Len(section.content)
      BY <2>1 DEF ParsedOK, IInv, Outcome, Parsed
    <2>3. \A i \in 1..pat.count : pat.array[i - 1] = section.content[i]
      BY <2>1 DEF IInv, Decoded
    <2>4. section.content = [i \in 1..Len(section.content) |-> section.content[i]]
      BY <2>1, ContentByIndex
    <2> QED
      BY <2>2, <2>3, <2>4 DEF Entries
  <1> QED
    BY <1>1, IInvInvariant, PTL

(* The streams of a PMT that was accepted are those that were sent,        *)
(* whatever descriptors stand before and between them.                     *)
THEOREM DecodesPmt == Spec => []PmtDecoded
  <1>1. IInv => PmtDecoded
    <2> SUFFICES ASSUME IInv, ParsedOK("PMT")
                 PROVE  [i \in 1..pmt.count |-> [type |-> pmt.array[i - 1].type,
                                                 pid |-> pmt.array[i - 1].pid]]
                          = section.content
      BY DEF PmtDecoded
    <2>1. section \in Received /\ section.table = "PMT" /\ Begun
      BY DEF ParsedOK, IInv, TypeOK, Begun
    <2>2. pmt.count = Len(section.content)
      BY <2>1 DEF ParsedOK, IInv, Outcome, Parsed
    <2>3. ASSUME NEW i \in 1..pmt.count
          PROVE  [type |-> pmt.array[i - 1].type, pid |-> pmt.array[i - 1].pid]
                   = section.content[i]
      <3>1. /\ pmt.array[i - 1].type = section.content[i].type
            /\ pmt.array[i - 1].pid = section.content[i].pid
        BY <2>1 DEF IInv, Decoded
      <3>2. section.content[i] \in Streams
        BY <2>1, <2>2, PmtEntryRead
      <3> QED
        BY <3>1, <3>2 DEF Streams
    <2>4. section.content = [i \in 1..Len(section.content) |-> section.content[i]]
      BY <2>1, ContentByIndex
    <2> QED
      BY <2>2, <2>3, <2>4
  <1> QED
    BY <1>1, IInvInvariant, PTL

(* What the parser stores as a duration is the number of seconds for an    *)
(* event shorter than ten seconds, and for no other: the six digits are    *)
(* stored as they were sent.                                               *)
SecondsOnlyBelowTen ==
  ParsedOK("EIT") =>
    \A i \in 1..eit.count :
      LET e == section.content[i]
      IN  eit.array[i - 1].duration = 3600 * e.hours + 60 * e.minutes + e.seconds
            <=> e.hours = 0 /\ e.minutes = 0 /\ e.seconds < 10

LEMMA DigitsAsSeconds ==
  ASSUME NEW hours \in TwoDigits, NEW minutes \in TwoDigits, NEW seconds \in TwoDigits
  PROVE  Decimal(hours) * 65536 + Decimal(minutes) * 256 + Decimal(seconds)
             = 3600 * hours + 60 * minutes + seconds
           <=> hours = 0 /\ minutes = 0 /\ seconds < 10
  <1>1. ASSUME NEW n \in TwoDigits
        PROVE  /\ Decimal(n) \in Nat /\ Decimal(n) >= n
               /\ Decimal(n) = n <=> n < 10
    BY <1>1 DEF Decimal, TwoDigits
  <1> DEFINE h == Decimal(hours)
             m == Decimal(minutes)
             s == Decimal(seconds)
  <1>2. /\ h \in Nat /\ h >= hours /\ (h = hours <=> hours < 10)
        /\ m \in Nat /\ m >= minutes /\ (m = minutes <=> minutes < 10)
        /\ s \in Nat /\ s >= seconds /\ (s = seconds <=> seconds < 10)
    BY <1>1
  <1>3. hours \in Nat /\ minutes \in Nat /\ seconds \in Nat
    BY DEF TwoDigits
  <1> HIDE DEF h, m, s
  <1>4. h * 65536 + m * 256 + s = 3600 * hours + 60 * minutes + seconds
          <=> hours = 0 /\ minutes = 0 /\ seconds < 10
    BY <1>2, <1>3
  <1> QED
    BY <1>4 DEF h, m, s

(* DurationInSeconds fails for every event of ten seconds or more, not     *)
(* just for the one of run tp_duration.                                    *)
THEOREM DurationsAreDigits == Spec => []SecondsOnlyBelowTen
  <1>1. IInv => SecondsOnlyBelowTen
    <2> SUFFICES ASSUME IInv, ParsedOK("EIT"), NEW i \in 1..eit.count
                 PROVE  eit.array[i - 1].duration
                            = 3600 * section.content[i].hours + 60 * section.content[i].minutes
                                + section.content[i].seconds
                          <=> /\ section.content[i].hours = 0
                              /\ section.content[i].minutes = 0
                              /\ section.content[i].seconds < 10
      BY DEF SecondsOnlyBelowTen
    <2>1. section \in Received /\ section.table = "EIT" /\ Begun
      BY DEF ParsedOK, IInv, TypeOK, Begun
    <2>2. eit.count = Len(section.content)
      BY <2>1, Layout DEF ParsedOK, IInv, Outcome, Parsed
    <2>3. section.content[i] \in Events
      BY <2>1, <2>2, Layout DEF Content
    <2>4. /\ section.content[i].hours \in TwoDigits
          /\ section.content[i].minutes \in TwoDigits
          /\ section.content[i].seconds \in TwoDigits
      BY <2>3 DEF Events
    <2>5. eit.array[i - 1].duration
            = Decimal(section.content[i].hours) * 65536
                + Decimal(section.content[i].minutes) * 256 + Decimal(section.content[i].seconds)
      BY <2>1 DEF IInv, Decoded
    <2> QED
      BY <2>4, <2>5, DigitsAsSeconds
  <1> QED
    BY <1>1, IInvInvariant, PTL

(* running_status is read through a mask of two bits and then compared     *)
(* with 4: no well-formed section can give an event a name.                *)
THEOREM NamesNeverParsed == Spec => []Unnamed
  <1>1. IInv => Unnamed
    BY DEF IInv
  <1> QED
    BY <1>1, IInvInvariant, PTL
=============================================================================
