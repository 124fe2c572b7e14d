------------------------------ MODULE Sections ------------------------------
(***************************************************************************)
(* What the broadcaster sends: PAT and PMT sections as ISO/IEC 13818-1 and *)
(* EIT sections as EN 300 468 lay them out, bits reserved set, from the    *)
(* content they carry.                                                     *)
(***************************************************************************)
LOCAL INSTANCE Integers
LOCAL INSTANCE SequencesExt

Two(n)   == <<n \div 256, n % 256>>
Zeros(n) == [i \in 1..n |-> 0]
Ones(n)  == [i \in 1..n |-> 255]
Bcd(n)   == 16 * (n \div 10) + (n % 10)

(* Where the entries start, and the CRC after them.                        *)
Starts(header, sizes) ==
  [i \in 1..(Len(sizes) + 1) |-> FoldLeft(+, header, SubSeq(sizes, 1, i - 1))]

(* table_id, section_length counting what follows it, the rest, the CRC.   *)
Section(table, tableId, content, starts, rest) ==
  [table   |-> table,
   content |-> content,
   starts  |-> starts,
   bytes   |-> <<tableId>> \o Two(45056 + Len(rest) + 4) \o rest \o Ones(4)]

Each(f(_), content) == FlattenSeq([i \in DOMAIN content |-> f(content[i])])

PatSection(services) ==
  LET Service(s) == Two(s.program) \o Two(57344 + s.pid)
  IN  Section("PAT", 0, services, Starts(8, [i \in DOMAIN services |-> 4]),
              Two(1) \o <<193, 0, 0>> \o Each(Service, services))

(* infoLength bytes of descriptors before the streams, and after each.     *)
PmtSection(streams, infoLength) ==
  LET Stream(s) == <<s.type>> \o Two(57344 + s.pid) \o Two(61440 + infoLength) \o Ones(infoLength)
  IN  Section("PMT", 2, streams,
              Starts(12 + infoLength, [i \in DOMAIN streams |-> 5 + infoLength]),
              Two(1) \o <<193, 0, 0>> \o Two(57344 + 8191) \o Two(61440 + infoLength)
                \o Ones(infoLength) \o Each(Stream, streams))

(* A short event descriptor, unless the event has no name.                 *)
ShortEvent(name) ==
  IF name = <<>> THEN <<>>
  ELSE <<77, Len(name) + 5, 115, 114, 112, Len(name)>> \o name \o <<0>>

EitSection(events) ==
  LET Event(e) ==
        Two(7) \o Zeros(5) \o <<Bcd(e.hours), Bcd(e.minutes), Bcd(e.seconds)>>
          \o Two(e.status * 8192 + Len(ShortEvent(e.name))) \o ShortEvent(e.name)
  IN  Section("EIT", 78, events,
              Starts(14, [i \in DOMAIN events |-> 12 + Len(ShortEvent(events[i].name))]),
              Two(1) \o <<193, 0, 0>> \o Two(1) \o Two(1) \o <<0, 78>> \o Each(Event, events))
=============================================================================
