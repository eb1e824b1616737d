# tsanalyze: TLA+ models, checks and proofs

tsanalyze (`src/`) reads an MPEG-2 transport stream from a file or from UDP,
cuts it into packets, reassembles sections and PES packets per PID, decodes
PSI/SI/PSIP tables, descriptors, subtitles and teletext, and writes a report.
This directory holds TLA+ modules that model the program from its command line
to its report: which bytes reach which decoder, how the decoders walk what they
get, which table is kept, and what is written, closed and freed. Paths below are
relative to the repository (`ts.c` is `src/src/ts.c`, `descriptor.h` is
`src/include/descriptor.h`).

## 1. The system

```
command line --> tsaconf            SIGINT --> dump_result
                    |                              ^
file / UDP --> ts_process --> ts_proc --> section_preproc        (per PID)
                    packets      |  clock     |  whole sections, PES packets
                                 v            v
                         calc_bitrate    filter_proc --> callbacks
                                              ^             |
             register_* <-- parse_pat / parse_pmt <---------+--> section parsers --> descriptors
                                                            +--> parse_pes_packet --> subtitle, teletext
                                     tables --> dump_* --> rout (JSON, HTML, YAML, text)
```

| Component | State | Operations | What makes it correct | Hard because |
|---|---|---|---|---|
| Options, life cycle (`options.c`, `main.c`) | `tsaconf`, what is open, printed, freed | options, main, SIGINT, init/run/deinit | the report holds what was chosen and received, once | the handler runs the report wherever main stands |
| Input loop (`ts.c` ts_process, `fileio.c`, `udp.c`) | block, carried packet `pkt_con`, file offset | open, read, end, close, the loop | packets whole, in order, none skipped, the loop ends | block, page and packet boundaries; lost datagrams |
| Statistics (`ts.c` calc_bitrate) | counters, last PCR | per packet | the rate is that of the last interval | repeated or wrapping PCR, empty adaptation field |
| Reassembly (`ts.c` section_preproc) | `total_len`, `limit_len`, buffer | start, continuation; PSI or PES | one unit is handed on; the buffer is respected; recovery after loss | the continuity counter is ignored; `int16_t` lengths |
| Filter registry (`filter.c`) | slots, capacity, map, `multi` per PID | alloc, set, lookup, free, proc | every matching filter called once; the map never stale | callbacks register during a dispatch |
| PID registration (`table.c`, `pes.c`, `scte.c`) | three bitmaps, `pes.list`, `scte.list`, program nodes | init_table_ops, register_*, free_tables | what is announced reaches its decoder; what is registered is released | two files' state must agree; it outlives deinit |
| Table versions (`table.c`, `utils.c`) | header, section bitmap, nodes, version lists | parse_section_header, concat, version check | complete tables are decoded; header and data agree | order, repetition, version wrap |
| Section bodies (`table.c`, `dvb_si.c`, `atsc_psip.c`, `scte.c`) | `pdata`, `section_len`, lists of entries | one parser per table | fields read in place; the walk ends; the next section replaces the last | 16-bit counters, lengths inside the data |
| Descriptors (`descriptor.h` and its parts, `descriptor.c`) | offsets in bytes and bits, allocated members | generated parse and free | loops end at the descriptor's end; blocks released | macros, unsigned tests, failing allocations |
| PES data (`pes.c`, `subtitle.c`, `teletext.c`) | entries with callback and private data, `g_text` | register, header walk, segments, units | right entry, right bounds, decoded to the end | counters kept twice, assertions on lengths |
| Emitters (`result.c`) | stack of containers, key counts, line buffer | rout, res_open, res_close | well-formed output, bounded depth and buffers | containers decided late, repeated keys |

`ps.c` is called by nothing, `crc32.c` is not used by the table parsers, `list.h`
and `win_getopt.c` are third-party; `tests/gen_full.c` writes test streams.
`PROJECT.json` lists every component with its status and every hazard with its
line and the properties that cover it.

The program has one thread. What is concurrent is the environment (packets are
lost and repeated, tables come in any order, files end anywhere, allocations
fail), callbacks that run inside a dispatch, and the SIGINT handler.

## 2. Modules

| Module | Models |
|---|---|
| `FilterRegistry` | abstract: a set of filters per PID, and a dispatch that calls what is due |
| `Filter`, `MC_Filter`, `FilterProofs` | `filter.c`: slots, map, scan, dispatch with callbacks |
| `TsProcess`, `TsProcessProofs` | `ts_process` over `fileio.c` or `udp.c` |
| `SectionParser` | `section_preproc` on one PID |
| `SectionStream` | `SectionParser` composed with a multiplexer and a link that loses and repeats packets |
| `Table` | `parse_section_header` and the version handling of its callers, composed with a broadcaster |
| `Demux`, `MC_Demux`, `DemuxProofs` | registrations, classification of packets, init/deinit cycles |
| `SiTable`, `SiTableProofs` | the section parsers of twenty tables, and the descriptor loops |
| `DescriptorLayouts` | tag tables and member layouts of the 13818-1, DVB, ATSC and ISDB descriptors |
| `Descriptor` | the generated parser and free function over such a layout |
| `TableProofs` | proofs about `Table` and `Descriptor` |
| `Subtitle`, `Teletext` | operators: segment lengths and pixel strings against the syntax of EN 300 743; the Hamming 8/4 code against its definition |
| `Payload`, `MC_Payload` | `pes.c`: registration, header walk, callbacks; composes `Subtitle` and `Teletext` |
| `SectionProofs` | proofs about `SectionParser`, `SectionStream` and `Payload`: a unit from its packets to the decoded data |
| `Dump` | the dump functions as sequences of `rout` calls |
| `Emitter`, `EmitterProofs` | `result.c` over the calls of `Dump`, with readers of JSON and YAML |
| `Lifecycle`, `MC_Lifecycle`, `LifecycleProofs` | options, main, `dump_result`, SIGINT, clock and statistics |

How state and actions correspond to the code is in the header comment of each
module; `PROJECT.json` maps every definition to its lines. Things worth knowing:

* **Filter.** A registration is `filter_alloc` followed by `filter_set`, a removal
  `filter_lookup` followed by `filter_free`, because every caller pairs them. A
  dispatch is several steps (`ProcBegin`, the loop, the time inside a callback),
  so that `Register` can happen in between. Slots carry a ghost identity.
* **TsProcess.** A byte is its position in the input; `pkt_con` is two intervals.
  Arithmetic on `len` is modulo `SizeMod`, on the result of `fileio_end` modulo
  `IntMod`. mmap fails at an offset that is not page-aligned; a mapping that
  starts at the end of the file faults when it is read.
* **SectionParser / SectionStream.** `ParserSpec` takes payloads of any bytes with
  any length field (pointer_field points inside the packet). In `SectionStream` a
  byte is `<<unit, position>>`, so that a section that mixes two sections, or has
  bytes in the wrong place, shows. Results pass through `int16_t` (`LenMod`).
* **Table.** A payload is (sub-table, issue, section number). The bitmap has
  `Words` words of `W` bits, and `bitmap64_full` is translated with its index
  `last % W`; a word past the bitmap gives either answer. A null dereference, a
  heap overrun or a double free ends the behaviour in `fault`.
* **Demux.** The registry is the set that `FilterRegistry` promises. A PAT or PMT
  section is one action that registers all it announces. `esMem` follows the
  memory of `pes.list`.
* **SiTable.** A parser is data: head, entry forms and tail, each part with the
  bytes the code moves by, the bytes of the syntax, and a length field of the
  width the code keeps. `section_len` is signed or unsigned of 16 bits as in the
  code. A walk that has left its place reads any length. `aligned` and `reach`
  are history: whether every part was read where the syntax puts it, and how far
  descriptors were read. What moves `pdata` (`code`) and what is taken off
  `section_len` (`sub`) are two fields of a part, because they are two
  statements in the code.
* **Descriptor.** A member macro is an action; offsets are those of the generated
  code, with the unsigned test of its loops. Fields that no later member looks at
  have no value.
* **Payload.** A segment is its type, its entries and its pixel strings; the parser
  takes a number of bytes for it, which the assertion in `parse_subtitle` compares
  with the stated length. A received teletext byte comes with the code word sent.
* **Dump / Emitter.** A call is a kind (container, field, element), a level and a
  key. JSON is checked by a push-down reader of tokens, YAML by a reader of
  indented lines; text lines and hex dumps, those of the text output with their
  unchecked sum (`Unchecked`, `result.c:474`) included, are lengths.
* **Lifecycle.** `dump_result` is nine steps that main and the handler run alike;
  `res_close` is two of them, the closing brackets and `fclose`. The handler
  starts from the first step wherever main stands, and `held` records that it
  interrupted the allocator or stdio. A table or PES packet is parsed in two steps
  (`busy`), and `ca` says whether the newest CAT is whole and has descriptors
  (`psi.ca_num > 0`, `table.c:213`). `StepEnds` is the set of outcomes of a step:
  `Broken` (writing to a closed file, freeing twice) is undefined for certain;
  `Fragile`, `Locks` in a held allocator, and `Torn` may be. `Torn` is a step of
  the handler that uses what main was in the middle of changing: a section that is
  freed but still has its length (`table.c:263`), a list that `realloc` has moved
  and nobody has stored (`pes.c:290`), a tree whose levels are half written. Any
  undefined outcome ends the process.

A definition whose name is that of another with a suffix (`min_close_late` before
`min_close`) is a plausible wrong version of it; each property is violated when
the version named in `PROJECT.json` takes the definition's place.

## 3. Runs

| Run | States | Shows |
|---|---|---|
| `filter_dispatch` | 38,928 | three filters out of exact, pair and wildcard masks on one PID, capacity growing from 1: `WithinCapacity`, `MapCoherent`, `DispatchExact`, refinement of `FilterRegistry` |
| `ts_input` | 5,112 | files of every length class around 8-byte blocks, 4-byte pages and 3-byte packets with three start offsets, and datagrams of which any may be lost: `PacketWhole`, `PacketAligned`; for files `NoGap`, `DropsAtMostLastBlock`, `Terminates` |
| `section_stream` | 1,147,636 | sections (packed or not) and PES packets under loss and duplication: `Resync` (a unit that arrives clean is handed on intact, whatever came before), `Intact` (and nothing is handed on early), `PsiWithinBuffer` |
| `table` | 535,849 | PATs of one and two sections through the version wrap, with overlong and short-form sections in between: `OneSectionKept`, `Coherent`, `ConcatSafe` |
| `demux` | 170,991 | consistent streams on three PIDs, up to two PAT versions, two init/run/deinit cycles: `Delivered` (first cycle), `Released`, `PmtBalanced` |
| `si_tables` | 378,254 | twenty section parsers, sections of up to two entries whose lengths add up, do not, or are near 2^16, two in a row: `InStep` (`section_len` is the distance of `pdata` to the end), `Aligned`, `StopsPastEnd`, `Replaced`, `LoopsShrink` (each turn of a loop lowers what steers it, but in four parsers) |
| `descriptors` | 869,356 | every tag, eighteen descriptor lengths, one failing allocation: `BitFieldsSound`, `TrailingLoop`, `GuardedOvershoot`, `FreeSound` |
| `payload` | 250,420 | two PIDs, four announcements in any order, a failing allocation; 41 headers; segments of every kind at their length and beside it; every byte within two flips of a code word: `Routed`, `DataBounds`, `DecodedWhole`, `HammingSound`, `OnlyTablesLeak` |
| `emitter` | 119,131 | reports of two tables, loops and descriptor lists of 0, 1 and 2, four output types, hex dumps of three lengths under a short and the longest title: `JsonWellFormed`, `YamlWellFormed`, `DepthBounded`, `BuffersFit` |
| `lifecycle` | 1,058,681 | command lines of up to two of twelve options, three packets, SIGINT anywhere, in the middle of a packet and of the report too: `Selection`, `OneReport`, `RateHonest`, `SigintStops` |

Runs that end in a violation; each is a disagreement between the code and
something the repository says, quoted in `PROJECT.json` under `findings`:

| Run | What TLC finds |
|---|---|
| `table_multi` | a table of two sections is never complete (`last % 64`) |
| `table_new_version` | the second version of an NIT, SDT, PMT, ... is taken for a duplicate |

### Limits that the passing properties state

The models contain further behaviour that a reader may not expect; the passing
properties are worded around it, so that they hold of the code as it is.

Input and reassembly:

* The end of a file is tested between the read of a block and its processing, so
  the last block of a file of several blocks is not processed (`ts.c:430`):
  `DropsAtMostLastBlock`. A file that ends on a page boundary inside a packet is
  mapped once more at its end and read there (`ts.c:426`); `FaultOnlyInTail`,
  which `FileTailBounded` proves, says that this is the only case.
* `mpegts_probe` wants ten packets of 204 bytes in the first read (`ts.c:53`);
  datagrams of seven or ten 188-byte packets are shorter, and `ts_process`
  returns. `ts_input` sends datagrams that pass.
* The bytes in front of the section that `pointer_field` points at are skipped, so
  a section that ends there is lost (`ts.c:135`); `Resync` does not count it as
  clean.
* On a PES PID `total_len` is not reset when a packet is complete, so
  continuations after a lost start are appended past `MAX_SECTION_BUF`
  (`ts.c:186`): `PsiWithinBuffer` is about PSI, and a behaviour ends at the write.
* A PES packet of 65535 or 65536 bytes is reported as -1 or 0 (`ts.c:122`):
  lengths stay below `LenMod - 1`.

Registration and versions:

* `filter_alloc` refuses a filter at `NUM_FILTER_MAX` (`filter.c:78`) although the
  header comment (`filter.c:23`) says that there is no fixed per-PID limit; no
  caller looks at the result. The abstract registry allows a refusal.
* For tables with one structure the header of a second sub-table is stored over
  that of the first before its data is dropped (`table.c:493`): `Coherent` is
  checked for the PAT. A first CAT of version 31 finds no structure, and
  `cat_proc` follows a null pointer (`table.c:764`): `NoTable`.
* `pid_bitmap` of `pes.c` and `scte.c` outlives deinit, so PIDs of an earlier
  cycle get no filter (`pes.c:288`), and the list that deinit freed is passed to
  realloc (`pes.c:290`): `Delivered` is about the first cycle.
* Nothing unregisters the filter of a private-section PID (`table.c:985`):
  `Released` leaves these out. With `-p` PID 0x1FFB is not marked as a section PID
  (`table.c:889`) and its tables are not decoded.

Section bodies and descriptors:

* `parse_eit` and the ATSC EIT do not move past the descriptors of an event
  (`dvb_si.c:347`), and a CVCT entry is walked as 130 bytes instead of 32: these
  three are `Misread` in `SiTable`.
* Only PMT, BAT and SDT stop at the entry that passes the end of a section. The
  unsigned counters of PAT and EIT, the counted loops of PSIP, and the 16-bit
  length of an NIT entry run on (`StopsPastEnd`); so do CAT and TSDT when the
  section is too short for its stated length.
* Four loops need not end (`LoopsShrink`): `parse_stt` lowers nothing once a section
  has room for descriptors (`atsc_psip.c:469`); the unsigned counter of `parse_pat`
  goes round for ever when the length is no multiple of four (`table.c:568`), and
  that of `parse_eit` when the entries do not add up; and a length of 2^15 or more
  in an NIT entry takes the signed counter round to a value no smaller. `parse_rrt` writes to `dimensions`, which
  is never allocated: the behaviour ends in `fault`.
* The list of EIT events is never cleared, and the descriptors of NIT and BAT
  entries, DCCT, DCCSCT and STT are not freed before the next section
  (`Replaced`). The descriptor walk of SCTE-35 reads behind its loop (`Aligned`).
* A trailing loop entered past the end of its descriptor, or whose elements do not
  tile what is left, does not stop (`TrailingLoop`); a member behind the end is
  tested where it starts only (`GuardedOvershoot`); the free loop of an `__mploop`
  is right for one entry (`FreeSound`); the bit fields of the ISDB audio component
  descriptor (0xC4) do not fill bytes, and `assert(bits_off == 0)`
  (`descriptor.h:577`) fails (`Uneven`). A reserved descriptor of 254 or 255 bytes
  is copied past its allocation (`descriptor.c:22`); lengths of layouts only are
  checked.

PES data:

* A program packet sequence counter is passed in `buf` but not counted in
  `head_len` (`pes.c:185`), and a packet shorter than its header wraps its length:
  `DataBounds` leaves these out. A PID whose entry could not be allocated sets its
  callback on entry 0 (`Routed`).
* 2-bit pixel strings never end; alternative CLUT segments, disparity segments
  with regions and objects with character codes fail the assertion
  (`subtitle.c:819`); 4-bit strings with runs of three pixels or more are decoded
  to more than was allocated; runs above 256 pixels pass `encode[]`
  (`subtitle.c:121`), which is not modelled. Map tables and periods are not freed.
* Page digits above nine, and a rejected magazine byte, write outside `g_text`
  (`teletext.c:18`). `REVERSE_BIT` clears a bit instead of flipping it, so a single
  error that cleared a bit leaves the word as it was received (`HammingSound`).

Output and life cycle:

* A text line of 512 characters or more has its terminator stored one past `buf`
  (`BuffersFit` allows that one). A repeated YAML key that fills `kbuf` would be cut
  before its number; no key of the program is that long, so `LongKeys` is empty. A
  file that cannot be opened is not reported by `res_open`.
* `--table` and `--pid` are declared without an argument, and `optarg` is NULL in
  them. A bad `-p` is forgotten when a good one follows. `-p` of the TSDT, PSIP or
  a PMT's PID shows nothing of them (`Selection`).
* A repeated PCR divides by zero, and a PCR of zero as the first one as well; an
  adaptation field of length zero is read for flags (`ts.c:305`). The division by
  zero ends a behaviour in `div`; `RateHonest` does not count it, and is about
  references that are there and increase.
* SIGINT has an undefined outcome in these places, and `OneReport` says that there
  is no other: inside the allocator or stdio, where the handler may also wait for a
  lock for ever (`SigintStops`); while a packet is parsed, where the handler frees
  and unregisters what the parse is changing (`table.c:263`, `pes.c:290`); while
  the filters are registered; inside main's own `dump_result` when the output is a
  file; and from `free_tables` on. Between two packets it has none. A file that
  could not be opened needs no signal.
* A CAT is shown while `psi.ca_num` is not zero, and it is counted again for every
  CAT section from the newest version only (`table.c:763`): a CAT without
  descriptors, a newer version that is not complete, and SIGINT in the recount hide
  what was received. `Selection` names these, a PMT that came before its PAT, a
  table that was being parsed when SIGINT came, and under `-p` tables of other
  PIDs, the TSDT and PSIP; it says that nothing else is missing.
* `-f udp` with an argument that is not a URL follows a null pointer
  (`OpenInput`).

### Bounds

The constants scale the program's sizes down and keep their order: a packet is
shorter than a page, a page than a block (3 < 4 < 8); file sizes hit every
residue of packet and page for one to five blocks. In the section models a packet
holds 3 bytes and units take one to two packets and more when a sender chooses
small chunks; the buffer holds the longest unit plus a packet. Four versions stand
for 32, so that they wrap, and a bitmap of two 4-bit words for four of 64. Tables
have one or two sections, which is enough for the wrong word index of `table_multi`;
a full word and an index past the bitmap do not occur in the run (`TableProofs`
covers any number of sections its bound allows). Three PIDs are enough for a PMT, a stream and
a PID shared by two programs or versions; `ScteMax` is 1, so that the splice list
fills up. Section lengths in `table` are all equal, because only tables of one
section are ever concatenated; `ConcatSafe` in the run is therefore about one
section per table, and `ConcatenationSafe` about any lengths.

`si_tables` uses the real layouts and 16-bit counters. Two entries are enough for
an entry that is read in the wrong place because of the one before; the loop
lengths are none, two descriptors that add up, and 65530, which every field cuts
to its width and which is small as a negative number; the stated length is right,
two more or three less. A walk is called lost `MaxPast` bytes behind the end, or
`MaxExtra` entries past those the section holds; `LoopsShrink` does not count that
as an end, but speaks of each turn. `descriptors` uses the real layouts; the lengths fit, fall short of and overshoot the fixed part of every layout, and
255 is the largest. `payload` has one teletext unit and up to two segments; two
PIDs are enough for an entry mistaken for another. In `emitter` the levels and keys
are those of the dump functions, and two tables show what one leaves open for the
next; hex dumps of 17, 430 and 600 bytes end inside, near and past their buffers,
and 81 is the longest title allowed for (64) with the longest length behind it; only
the first line of a text hex dump has one, so the lines behind it are shorter. In
`lifecycle` a 64-bit word has 1024 values so that it wraps, no option or packet
concerns the TSDT (`ReportComplete` covers every table), and three packets allow a PAT, its PMT and a repeated table, or three clock references.

`MaxUnits`, `MaxIssue`, `MaxTabs`, `MaxVersions`, `MaxSessions`, `MaxStream`,
`MaxRounds`, `MaxExtra`, `MaxDumps`, `MaxTokens` and `MaxPackets` only bound the run.
`CHECK_DEADLOCK FALSE` stands where such a bound, the end of the input, of a
descriptor or of the report stops a behaviour.

### Fairness

* `TsProcess!FairSpec`: weak fairness on the steps of `ts_process`, one process
  that is scheduled as long as it can run. `recv` blocks, so a UDP read is enabled
  only when a datagram is sent, and `Waiting` is the wait for one. `Terminates` is
  about files.
* `Lifecycle!Fairness`: weak fairness on the next step of the one thread
  (`Proceeds`), whether it is in the arguments, in the parse of a packet, at the end
  of a file, in main's `dump_result` or in the handler's. Nothing makes a packet or
  SIGINT arrive, and nothing prevents SIGINT.

## 4. Proofs

Every theorem holds for all values of the constants that satisfy the named
assumptions of the modules.

* **FilterProofs.** From `FilterConstants` and that registrations are told apart
  by identity (`UniqueIds` is part of the invariant). The inductive invariant is
  `TypeOK`, `WithinCapacity`, `UniqueIds`, `MapCoherent` and `DispatchInv`.
  `DispatchExact` alone says nothing of a dispatch in progress; `DispatchInv`
  says, phase by phase, that a scan at slot k has called exactly the wanted
  filters below k and that a slot found in the map is the only one due. That the
  map is enough when `multi` is off is a lemma about `rebuild_map` and
  `rebuild_multi`. Theorems: `TypeCorrect`, `MapNeverStale`, `DispatchIsExact`
  and `Refinement`, which shows each step to be a step or a stutter of
  `FilterRegistry`.
* **TsProcessProofs.** From `InputAssumptions` (blocks are whole pages, file sizes
  fit the `int` of `fileio_end`, datagrams hold whole packets). For a file
  `FileInv` ties `pos + len` to the end of the block and `expect` to `pos`, or to
  the carried bytes, in every phase, and `FileAligned` carries the residue of
  `pos` modulo the packet length through blocks that are no multiple of it; over
  UDP `UdpInv` says that nothing is ever carried. Theorems: `PacketsWhole` and
  `PacketsAligned` for both readers, `FilePacketsInOrder` and `FileTailBounded`
  (with `FaultOnlyInTail`) for files.
* **SectionProofs.** `PsiBuffer`: reassembly of payloads with any bytes and length
  fields stays in the buffer because a continuation is only appended while less
  than a whole section (or one packet) has been collected. `Recovery` and
  `CleanUnitsIntact`: from `StreamAssumptions` (units fit the buffer and the 16-bit
  result), `StreamInv` says that, as long as the unit on its way has arrived clean,
  the buffer holds exactly its bytes received so far; a start needs no such
  knowledge, which is why the parser recovers there. `StreamWithinBuffer`, from
  `SectionLengths` as well (a section fits its 12-bit length field): `PsiBound` is
  the bound of `PsiBuffer` over the packets of a multiplex, where a lost start
  leaves the length of an earlier section in place.
  Of `Payload` (`PesSpec`), for any PIDs, streams, headers, segments and units. The
  assumptions say what is sent: lengths fit their 16-bit field (`HeadersAssumption`),
  segments and teletext units are of the kinds of the syntax (`ContentsAssumption`;
  their stated lengths are any numbers), and a byte was received for a code word.
  `PacketsRouted`: `RoutedInv` adds that `pid_index` leads from every PID with a filter
  to its entry, and from every PID of the bitmap too or, after a failed allocation,
  to the first.
  `DataEndsWithPacket`: two sums over the optional fields, of the bytes passed and of
  the bytes counted, differ only by the sequence counter. `DecodedToTheEnd`: `DecInv`
  says that, while conforming data is parsed, what is left of the packet is the sum
  of the lengths of the segments to come, so the assertion compares equal numbers. A
  segment takes its length because each loop of its parser takes one entry's bytes
  an entry; a pixel string because the bits that the parser's loop has read after k
  codes are those of k codes, padded to a byte once, by traces of the folds. What is
  written stays in the block because, without a long run, the pixels written are at
  most four times the bytes read after every code. `TablesLeakOnly` and `HammingCode` follow
  from what the operators of `Subtitle` and `Teletext` allow, for every byte received.
* **TableProofs.** For any number of versions, issues and repetitions, in any
  order. `HeaderMatchesData`, for tables kept by version (`ByVersion`: PAT and CAT)
  and one sub-table (`OneSubTable`; see section 3 for two): the invariant
  `CoherentInv` says of every structure, not of the newest only, that its sections
  are of the version in its header. `ConcatenationSafe`, for every table but the
  CAT and tables of no more sections than the bitmap has words (`FewSections`: the
  four words of the code, `Words < W`): within that bound `bitmap64_full` holds of
  tables of one section only, so concatenation never meets a missing node.
  `VersionsKept`, from these and that the first version is not the one that stands
  for none (`FirstKnown`; version 31 is the case in section 3): `CurrentInv` says
  what the newest structure can be (fresh, filling with the issue on air, or the
  issue before), and `DoneInv` that each decoded issue still has its structure.
  Of `Descriptor` (`DesSpec`), for every length byte, all values of the fields that
  steer a parser and a failing allocation anywhere. The layouts are the real ones:
  `LayoutsAssumption` says what they have in common (widths, where the bits of bit
  fields add up to bytes, that no member follows an `__mploop_custom`), and TLC
  evaluates it for every tag. `BitFieldsInWord`: the offset in bits is that of the
  bits in front of the member in the layout, whatever members were absent.
  `DescriptorLoopsEnd`: inside a loop whose elements tiled what was left when it was
  entered they still do. `OvershootBounded` is inductive with the layout's facts.
  `DescriptorsFreed`: the pointers set are those of the members passed.
* **SiTableProofs.** For any of the twenty layouts (`KnownTables`), any number of
  entries and any lengths in their fields. `CounterInStep`: `InStepInv` extends
  `InStep` to the places between two parts of an entry. `SignedCounterStops`, from
  `LengthField` (a section is no longer than a 12-bit length says, with room to
  spare): the invariant bounds what the remaining parts of an entry can subtract,
  so that the signed counter of PMT, BAT and SDT goes below zero without wrapping.
  `SectionsReplaced` follows from what each layout clears and frees. `LoopsEnd`,
  from `ShortSections` as well (below): `ShrinkInv` says that an entry is begun only
  with something left in the counter, that the counter is in the range of its
  width, and that of a PAT a multiple of four when its length is. An entry takes off
  four bytes or more, and too few to go round: at most 4101 in PMT, BAT and SDT,
  four in the PAT, and no more than is left in an EIT that adds up, which
  `AlignedInv` shows.
  `SectionsReadInPlace`, from `ShortSections` (a section that keeps to its syntax is
  no longer than a 12-bit length says): the parts of a section are those of the
  head, of a form for each entry, and of the tail, and `mark` counts them up to the
  end of each entry (`Shape`). `InLine` says that the parts the walk has still to
  read are the ones that follow in the section, up to the end of this entry or of
  the section, that `pdata` is where the syntax puts the first of them, and that
  `section_len` is what is left. A descriptor loop whose length is that of its
  descriptors is walked to the byte (`WalkExact`). The proofs rest on facts about
  every layout, and about folds and sums over the parts of a section.
* **DemuxProofs.** For any streams, PAT versions and cycles. `PmtFiltersBalanced`
  and `FiltersReleased`, without `-p`: the PMT filters are those of the program
  nodes, and deinit leaves private-section filters only. Deinit frees a filter if
  it looks up its parameters at least as often as they are registered, so the
  invariant says that every registered filter is itself one of the lookups deinit
  would make (or a private-section filter, whose parameters no lookup has), and the
  proof compares the cardinalities of two finite sets. `FirstCycleDelivers`, with
  `-p` too: `FirstInv` says what the bitmaps, the lists and the registry say of each
  other in the first cycle, PID by PID and role by role; the link breaks in the
  second cycle, where the bitmaps are stale.
* **EmitterProofs.** `StackNeverOverflows`: for any number of tables, loops and
  descriptors the stack of containers stays below `MAX_DEPTH`, also where a
  wrapping object is pushed without a test. `DepthBounded` is almost inductive:
  container i lies at a level of at least (i - 3) / 2, because a call first leaves
  every container at or above its level and then adds at most two. `EmitterInv`
  adds the root, the types, and that the calls left to write have levels up to 13
  (`CallsAssumption`, which TLC evaluates for the calls of every dump function at
  the sizes of the run).
  `JsonAlwaysWellFormed`: for any number of tables what `j_emit` writes is the
  beginning of a JSON text, and `res_close` completes it. Its hypothesis is
  `ElementsAssumption`, which TLC evaluates like `CallsAssumption`: a dump function
  writes an element only into a container that began with one and that it has not
  left. `JsonInv` ties the reader to the stack: `ReaderOf` gives the reader that
  stands where the stack says, one state a container, and an undecided container
  stands for the value that its key still lacks. `Proper` says that every container
  below the last is decided and has a child, which is what makes the comma right;
  `Ready` says that the calls to come find, for each element, a container that is an
  array by then. A step of `j_emit` is proved in its parts: the closing brackets of
  the containers it leaves, a wrapping object, the bracket of a container it
  decides, the comma, its own text, each read by the lemmas about `ReadAll`.
  `YamlAlwaysWellFormed`, from `ShortKeys` as well (no key of the dump functions is
  cut by `kbuf`; one that is, and comes three times in a mapping, comes twice
  alike): `YamlInv` says that the blocks read are the `Outline` of the stack, one
  for each container, in the column of its depth, of its kind, holding for each key
  the names up to its count in `ek`. The last container has no block yet while it is
  the value of a key with nothing below it, or the root, and only then may a line
  start one. A line is proved in three cases: it starts a block, it belongs to one,
  or it is an item of an array and starts the mapping that wraps it.
  `BuffersNeverOverflow`: for keys, values and hex dumps of any length. The invariant
  is `BuffersFit`; the work is in the folds. A line that fits is never cut, because
  what is put so far is the sum of the pieces so far (`LineFits`). In a hex dump 78
  bytes a full row leave, of the 2048 of `raw`, no row whose 61 tested bytes fit and
  whose 16 untested ones do not (`RowStep`): with another buffer size they might.
* **LifecycleProofs.** For any command line, any number of packets and SIGINT at
  any step. `ReportWrittenOnce`: `ReportInv` counts what main and the handler have
  each written by where they stand in `dump_result`, and says who closed and freed
  what; with it each way a step of `StepEnds` has to be undefined is traced to where
  main stood when SIGINT came. `RateOfLastInterval`, from `RateAssumptions` (the bits of a stream times the
  clock rate fit the word that holds them): `RateInv` says that the bits remembered
  are those of the packets up to the last reference. `ReportComplete`, from
  `KnownWire` (the stream carries tables the program knows): `SelectionInv` relates
  each table on the wire to the list it is in (the CAT to `ca` as well) and, once the
  dump has passed it, to the report, also where the handler passed it before main.

The provers cannot use the induction theorems of the library, whose parameter is an
operator. `IntervalInduction` states induction for a set of numbers in place of the
operator and is proved from `WFMin`; with it the proofs treat sums, folds and
recursive functions over sequences of any length.

The type invariants of `Filter`, `TsProcess`, `SectionParser` and `Table` are part
of these proofs. Every safety property of a passing run is stated by a theorem. Only
model-checked are `Terminates` and `SigintStops`: liveness under fairness is out of
the prover's reach.

## 5. Not modelled

* The probe (`mpegts_probe`, `analyze`) beyond its length condition, receive
  errors and short datagrams, sockets, the Windows readers.
* Failing `malloc` in reassembly, section headers and `Demux`; a `pointer_field`
  that points past its packet; a program number that appears twice in one PAT; a
  PID used in two roles.
* The values of fields that steer no parser, and how they are printed: times,
  strings, names of types, escaping, the HTML frame.
* Splice commands and splice descriptors (`scte.c`, `scte/descriptor.h`); the
  bitmaps and colours that subtitles are drawn with; the Hamming 24/18 code and
  teletext packets above row 25.
* The text of PID lists; counters that are only printed.
* `ps.c`, `crc32.c`, `list.h`, `win_getopt.c`, `tests/gen_full.c` (see section 1).

## 6. Plan

1. `Probe`: `analyze` and `mpegts_probe` as operators, checked on small packets.
2. Splice commands as layouts of `SiTable`, and the Hamming 24/18 code.
