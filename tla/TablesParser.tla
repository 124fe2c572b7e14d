---------------------------- MODULE TablesParser ----------------------------
(***************************************************************************)
(* tables_parser.c, as sectionReceivedCallback calls it: the bytes of a    *)
(* PAT, PMT or EIT section become a PatTable, PmtTable or EitTable.        *)
(*                                                                         *)
(* A section is a record with the table it carries, the content its        *)
(* sender meant, its bytes and the offsets in them where the entries and   *)
(* at last the CRC start; module Sections builds them from the content.    *)
(* The parser sees the bytes only.  The three tables persist from call to  *)
(* call, so every parse runs over what an earlier one left.  Header fields *)
(* that nothing uses are left out.                                         *)
(***************************************************************************)
EXTENDS Integers, Sequences

CONSTANTS
  Received,  \* the sections that may arrive
  MaxPat,    \* TABLES_MAX_NUMBER_OF_PIDS_IN_PAT
  MaxPmt     \* TABLES_MAX_NUMBER_OF_ELEMENTARY_PID

MaxEit == 3  \* the bound in parseEitTable; eitInfoArray itself is larger

Byte == 0..255

-----------------------------------------------------------------------------
(* What the broadcaster sends: sections laid out as ISO/IEC 13818-1 and EN *)
(* 300 468 prescribe.  A field of two bytes begins with its flags and      *)
(* reserved bits, which are set.                                           *)
Word      == 0..65535
Pid       == 0..8191
TwoDigits == 0..99
Status    == 0..7  \* running_status

Services == [program : Word, pid : Pid]
Streams  == [type : Byte, pid : Pid]
Events   == [hours : TwoDigits, minutes : TwoDigits, seconds : TwoDigits, status : Status,
             name : Seq(Byte)]

(* Two decimal digits, four bits each.                                     *)
Decimal(n) == 16 * (n \div 10) + (n % 10)

ByteOf(s, k)  == s.bytes[k + 1]
FieldOf(s, k) == ByteOf(s, k) * 256 + ByteOf(s, k + 1)

(* Section_length counts all but the first three bytes.                    *)
Framed(s) ==
  /\ s.bytes \in Seq(Byte)
  /\ Len(s.bytes) <= 4098
  /\ FieldOf(s, 1) = 45056 + Len(s.bytes) - 3
  /\ s.starts \in [1..(Len(s.content) + 1) -> Nat]
  /\ s.starts[Len(s.content) + 1] + 4 = Len(s.bytes)
  /\ \A i \in DOMAIN s.content : s.starts[i] + 4 < Len(s.bytes)

(* Bytes from the start of entry i to the next start.                      *)
SizeOf(s, i) == s.starts[i + 1] - s.starts[i]

PatSent(s) ==
  /\ s.content \in Seq(Services)
  /\ ByteOf(s, 0) = 0
  /\ s.starts[1] = 8
  /\ \A i \in DOMAIN s.content :
       /\ SizeOf(s, i) = 4
       /\ FieldOf(s, s.starts[i]) = s.content[i].program
       /\ FieldOf(s, s.starts[i] + 2) = 57344 + s.content[i].pid

PmtSent(s) ==
  /\ s.content \in Seq(Streams)
  /\ ByteOf(s, 0) = 2
  /\ s.starts[1] >= 12
  /\ FieldOf(s, 10) = 61440 + s.starts[1] - 12
  /\ \A i \in DOMAIN s.content :
       /\ SizeOf(s, i) >= 5
       /\ ByteOf(s, s.starts[i]) = s.content[i].type
       /\ FieldOf(s, s.starts[i] + 1) = 57344 + s.content[i].pid
       /\ FieldOf(s, s.starts[i] + 3) = 61440 + SizeOf(s, i) - 5

EitSent(s) ==
  /\ s.content \in Seq(Events)
  /\ ByteOf(s, 0) = 78
  /\ s.starts[1] = 14
  /\ \A i \in DOMAIN s.content :
       /\ SizeOf(s, i) >= 12
       /\ ByteOf(s, s.starts[i] + 7) = Decimal(s.content[i].hours)
       /\ ByteOf(s, s.starts[i] + 8) = Decimal(s.content[i].minutes)
       /\ ByteOf(s, s.starts[i] + 9) = Decimal(s.content[i].seconds)
       /\ FieldOf(s, s.starts[i] + 10) = s.content[i].status * 8192 + SizeOf(s, i) - 12

WellFormed(s) ==
  /\ Framed(s)
  /\ \/ s.table = "PAT" /\ PatSent(s)
     \/ s.table = "PMT" /\ PmtSent(s)
     \/ s.table = "EIT" /\ EitSent(s)

ASSUME ParserAssumption ==
  /\ \A s \in Received : WellFormed(s)
  /\ MaxPat \in Nat \ {0}
  /\ MaxPmt \in Nat \ {0}

-----------------------------------------------------------------------------
VARIABLES
  section,       \* the section handed to the callback
  state,         \* "idle", or the table whose entries are being parsed
  result,        \* ParseErrorCode of the last parse
  sectionLength, \* the field of the header
  parsedLength,  \* bytes accounted for, as section_length counts them
  position,      \* currentBufferPosition, as an offset into the section
  pat, pmt, eit  \* number of entries, and the array

vars == <<section, state, result, sectionLength, parsedLength, position, pat, pmt, eit>>

-----------------------------------------------------------------------------
(* Reading the section.  b(k) is the byte at offset k.                     *)
b(k) == ByteOf(section, k)

Bits16(k) == FieldOf(section, k)
Bits13(k) == Bits16(k) % 8192   \* & 0x1FFF
Bits12(k) == Bits16(k) % 4096   \* & 0x0FFF
Bits24(k) == b(k) * 65536 + Bits16(k + 1)

ZeroEvent == [tag |-> 0, length |-> 0, name |-> <<>>]
ZeroEntry == [PAT |-> [program |-> 0, pid |-> 0],
              PMT |-> [type |-> 0, pid |-> 0, esInfoLength |-> 0],
              EIT |-> [duration |-> 0, running |-> 0, loopLength |-> 0, event |-> ZeroEvent]]

parsePatServiceInfoUnmasked(k) == [program |-> Bits16(k), pid |-> Bits16(k + 2)]  \* mutant
parsePatServiceInfo(k) == [program |-> Bits16(k), pid |-> Bits13(k + 2)]

parsePmtElementaryInfo(k) ==
  [type |-> b(k), pid |-> Bits13(k + 1), esInfoLength |-> Bits12(k + 3)]

(* The descriptors at offset k, loopLength bytes long: each overwrites tag *)
(* and length, and a short event descriptor the name, which the copy       *)
(* starts one byte late and ends with a newline.                           *)
parseDescriptors(k, loopLength, event) ==
  LET From[moved \in Nat] == IF moved >= loopLength THEN <<>>
                             ELSE <<k + moved>> \o From[moved + b(k + moved + 1) + 2]
      found  == From[0]
      named  == SelectSeq(found, LAMBDA d : b(d) = 77)
      last   == found[Len(found)]
      Name(d) == [i \in 1..b(d + 5) |-> IF i = b(d + 5) THEN 10 ELSE b(d + 6 + i)]
  IN  IF found = <<>> THEN event
      ELSE [tag    |-> b(last),
            length |-> b(last + 1),
            name   |-> IF named = <<>> THEN event.name ELSE Name(named[Len(named)])]

(* running_status has three bits, the mask 0x03 keeps two.                 *)
RunningStatus(k) == (b(k + 10) \div 32) % 4

parseEitInfo(k, event) ==
  [duration   |-> Bits24(k + 7),
   running    |-> RunningStatus(k),
   loopLength |-> Bits12(k + 10),
   event      |-> IF RunningStatus(k) = 4 THEN parseDescriptors(k + 12, Bits12(k + 10), event)
                                          ELSE event]

-----------------------------------------------------------------------------
(* sectionReceivedCallback: table_id selects the parser, which reads the   *)
(* header and empties its table.                                           *)
TableOf(tableId) == CASE tableId = 0  -> "PAT"
                      [] tableId = 2  -> "PMT"
                      [] tableId = 78 -> "EIT"  \* 0x4E

HeaderSize == CASE b(0) = 0 -> 8
                [] b(0) = 2 -> 12 + Bits12(10)  \* program_info_length
                [] OTHER    -> 14

Emptied(table) == [count |-> 0, array |-> table.array]

parseHeader(s) ==
  /\ state = "idle"
  /\ section' = s
  /\ state' = TableOf(s.bytes[1])
  /\ sectionLength' = Bits12(1)'
  /\ position' = HeaderSize'
  /\ parsedLength' = HeaderSize' + 4 - 3  \* with the CRC, without what precedes the count
  /\ pat' = IF state' = "PAT" THEN Emptied(pat) ELSE pat
  /\ pmt' = IF state' = "PMT" THEN Emptied(pmt) ELSE pmt
  /\ eit' = IF state' = "EIT" THEN Emptied(eit) ELSE eit
  /\ result' = "none"

MoreToParse == parsedLength < sectionLength

AdvanceFixed(size) ==  \* mutant: only the fixed part of an entry is counted
  /\ position' = position + size
  /\ parsedLength' = parsedLength + 4
  /\ UNCHANGED <<section, state, result, sectionLength>>

Advance(size) ==
  /\ position' = position + size
  /\ parsedLength' = parsedLength + size
  /\ UNCHANGED <<section, state, result, sectionLength>>

Stored(table, entry) == [count |-> table.count + 1,
                         array |-> [table.array EXCEPT ![table.count] = entry]]

PatEntryUnbounded ==  \* mutant
  /\ state = "PAT" /\ MoreToParse
  /\ pat' = Stored(pat, parsePatServiceInfo(position))
  /\ Advance(4)
  /\ UNCHANGED <<pmt, eit>>

(* One turn of the loop in parsePatTable.                                  *)
PatEntry ==
  /\ state = "PAT" /\ MoreToParse /\ pat.count < MaxPat
  /\ pat' = Stored(pat, parsePatServiceInfo(position))
  /\ Advance(4)
  /\ UNCHANGED <<pmt, eit>>

PmtEntryNoDescriptors ==  \* mutant
  /\ state = "PMT" /\ MoreToParse /\ pmt.count < MaxPmt
  /\ pmt' = Stored(pmt, parsePmtElementaryInfo(position))
  /\ Advance(5)
  /\ UNCHANGED <<pat, eit>>

(* One turn of the loop in parsePmtTable.                                  *)
PmtEntry ==
  /\ state = "PMT" /\ MoreToParse /\ pmt.count < MaxPmt
  /\ pmt' = Stored(pmt, parsePmtElementaryInfo(position))
  /\ Advance(5 + Bits12(position + 3))
  /\ UNCHANGED <<pat, eit>>

(* One turn of the loop in parseEitTable.                                  *)
EitEntry ==
  /\ state = "EIT" /\ MoreToParse /\ eit.count < MaxEit
  /\ eit' = Stored(eit, parseEitInfo(position, eit.array[eit.count].event))
  /\ Advance(12 + Bits12(position + 10))
  /\ UNCHANGED <<pat, pmt>>

TableFullEarly == CASE state = "PAT" -> pat.count >= MaxPat - 1  \* mutant
                    [] state = "PMT" -> pmt.count >= MaxPmt - 1
                    [] OTHER         -> eit.count >= MaxEit - 1
TableFull == CASE state = "PAT" -> pat.count >= MaxPat
               [] state = "PMT" -> pmt.count >= MaxPmt
               [] OTHER         -> eit.count >= MaxEit

(* The loop ends, or there is no room for the next entry.                  *)
Return ==
  /\ state # "idle"
  /\ \/ ~MoreToParse /\ result' = "TABLES_PARSE_OK"
     \/ MoreToParse /\ TableFull /\ result' = "TABLES_PARSE_ERROR"
  /\ state' = "idle"
  /\ UNCHANGED <<section, sectionLength, parsedLength, position, pat, pmt, eit>>

EmptyTable(size, table) == [count |-> 0, array |-> [i \in 0..(size - 1) |-> ZeroEntry[table]]]

Init ==
  /\ section \in Received  \* none yet: result says so
  /\ state = "idle"
  /\ result = "none"
  /\ sectionLength = 0 /\ parsedLength = 0 /\ position = 0
  /\ pat = EmptyTable(MaxPat, "PAT")
  /\ pmt = EmptyTable(MaxPmt, "PMT")
  /\ eit = EmptyTable(MaxEit, "EIT")

Next == (\E s \in Received : parseHeader(s)) \/ PatEntry \/ PmtEntry \/ EitEntry \/ Return

Spec == Init /\ [][Next]_vars

-----------------------------------------------------------------------------
(* Types; no count passes its array.                                       *)
TypeOK ==
  /\ section \in Received
  /\ state \in {"idle", "PAT", "PMT", "EIT"}
  /\ result \in {"none", "TABLES_PARSE_OK", "TABLES_PARSE_ERROR"}
  /\ sectionLength \in Nat /\ parsedLength \in Nat /\ position \in Nat
  /\ pat.count \in 0..MaxPat /\ DOMAIN pat.array = 0..(MaxPat - 1)
  /\ pmt.count \in 0..MaxPmt /\ DOMAIN pmt.array = 0..(MaxPmt - 1)
  /\ eit.count \in 0..MaxEit /\ DOMAIN eit.array = 0..(MaxEit - 1)

ParsedOK(table) == state = "idle" /\ result = "TABLES_PARSE_OK" /\ section.table = table

Entries(table) == [i \in 1..table.count |-> table.array[i - 1]]

(* A parsed PAT lists the services that were sent, whatever PATs were      *)
(* parsed into the same memory before.                                     *)
PatDecoded == ParsedOK("PAT") => Entries(pat) = section.content

(* A parsed PMT lists the streams that were sent, although descriptors of  *)
(* any length stand before and between them.                               *)
PmtDecoded ==
  ParsedOK("PMT") =>
    [i \in 1..pmt.count |-> [type |-> pmt.array[i - 1].type, pid |-> pmt.array[i - 1].pid]]
      = section.content

(* The duration of a parsed event is its length in seconds, as the parser  *)
(* says ("Lenght in seconds") and prikaziInfo takes it.  The standard      *)
(* sends six decimal digits hhmmss.                                        *)
DurationInSeconds ==
  ParsedOK("EIT") =>
    \A i \in 1..eit.count :
      LET e == section.content[i]
      IN  eit.array[i - 1].duration = 3600 * e.hours + 60 * e.minutes + e.seconds

Capacity(table) == CASE table = "PAT" -> MaxPat [] table = "PMT" -> MaxPmt [] OTHER -> MaxEit

(* A well-formed section is refused only when its entries do not fit.      *)
RefusedOnlyWhenFull ==
  state = "idle" /\ result # "none"
    => (result = "TABLES_PARSE_OK" <=> Len(section.content) <= Capacity(section.table))

(* The parser takes an entry only before the CRC, and when it accepts a    *)
(* section it has stopped at the CRC: the two cursors never drift apart.   *)
StopsAtCrc ==
  /\ state # "idle" /\ MoreToParse => position + 4 < Len(section.bytes)
  /\ result = "TABLES_PARSE_OK" => position + 4 = Len(section.bytes)
=============================================================================
