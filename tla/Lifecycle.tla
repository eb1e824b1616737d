----------------------------- MODULE Lifecycle ------------------------------
(***************************************************************************)
(* The program from its arguments to its exit (main.c, options.c, the      *)
(* packet statistics of ts.c, the choice of tables in table.c), with       *)
(* SIGINT arriving between any two steps.                                  *)
(*                                                                         *)
(* A packet carries a table, a PES packet or a clock reference; its table  *)
(* is parsed in two steps, so that the handler can find it half done.      *)
(* dump_result is run step by step by main and by the handler alike: the   *)
(* handler runs it from the start, wherever main stands, and does not come *)
(* back.  SIGINT is blocked while its handler runs.                        *)
(***************************************************************************)
EXTENDS Integers, Sequences, FiniteSets

CONSTANTS Tokens,     \* options: [opt, long, arg]
          MaxTokens,  \* bound on the options of a command line
          Names,      \* kinds of last argument: "file", "udp", "missing"
          Wire,       \* the tables the packets carry
          Announced,  \* what the PMT announces: "PES", "SCTE"
          Clocks,     \* clock references
          MaxPackets, \* bound on the packets
          PktBits,    \* bits of a packet
          BASE_CLK,   \* clock ticks per second
          Word        \* values of a 64-bit integer, scaled down

Tables == {"PAT", "CAT", "TSDT", "PMT", "NIT", "SDT", "BAT", "EIT", "TDT", "PSIP"}
PidOf == [t \in Tables |->
  CASE t = "PAT" -> 0 [] t = "CAT" -> 1 [] t = "TSDT" -> 2 [] t = "NIT" -> 16
    [] t \in {"SDT", "BAT"} -> 17 [] t = "EIT" -> 18 [] t = "TDT" -> 20
    [] t = "PSIP" -> 8187 [] t = "PMT" -> 256]

VARIABLES conf,    \* tsaconf, the return value of the last -p, the last argument
          n,       \* options read, then packets read
          mpc,     \* where main stands
          hpc,     \* where the handler stands, "none" if it does not run
          held,    \* the handler found the allocator in use
          out,     \* the output file
          wire,    \* what has been on the wire
          ca,      \* the newest CAT on the wire is whole and has descriptors
          content, \* of each table: "none", "part" or "full"
          busy,    \* the table, or "PES", being parsed
          dev,     \* pid_dev of the PID with the clock
          honest,  \* the rate over the last interval, and whether it can be told
          printed, \* how often each part of the report was written
          freed,   \* free_tables has run
          over     \* how the process ended

vars == <<conf, n, mpc, hpc, held, out, wire, ca, content, busy, dev, honest, printed, freed, over>>

Parts == Tables \cup {"PES", "SCTE", "stats"}
Alive == over = "no"

Init == /\ conf = [detail |-> FALSE, stats |-> FALSE, tables |-> {}, pids |-> {}, type |-> "file",
                   output |-> "stdout", ret |-> 0, name |-> "file"]
        /\ n = 0 /\ mpc = "args" /\ hpc = "none" /\ held = FALSE
        /\ out = "none" /\ wire = {} /\ ca = FALSE /\ busy = "none"
        /\ content = [t \in Tables |-> "none"]
        /\ dev = [pkts |-> 0, bits |-> 0, pcr |-> 0, rate |-> 0]
        /\ honest = [rate |-> 0, known |-> FALSE, pkts |-> 0, first |-> TRUE]
        /\ printed = [p \in Parts |-> 0]
        /\ freed = FALSE /\ over = "no"

Running == UNCHANGED <<wire, ca, content, busy, dev, honest, printed, freed>>

-----------------------------------------------------------------------------
(* prog_parse_args *)

(* One option.  The long forms of -s and -p are declared without an argument,
   so that optarg is NULL in them; an unknown table is passed over; PIDs read
   before a bad one stay selected. *)
SetOption(c, o) ==
  CASE o.opt = "d" -> [c EXCEPT !.detail = TRUE]
    [] o.opt = "S" -> [c EXCEPT !.stats = TRUE]
    [] o.opt = "s" -> [c EXCEPT !.tables = @ \cup (o.arg \cap Tables)]
    [] o.opt = "f" -> [c EXCEPT !.type = o.arg]
    [] o.opt = "o" -> [c EXCEPT !.output = o.arg]
    [] o.opt = "p" -> [c EXCEPT !.pids = @ \cup (o.arg \ {-1}),
                                !.ret = IF -1 \in o.arg THEN -1 ELSE Cardinality(o.arg)]
    [] OTHER -> c

Option(o) ==
  /\ Alive /\ hpc = "none" /\ mpc = "args" /\ n < MaxTokens
  /\ n' = n + 1
  /\ conf' = SetOption(conf, o)
  /\ over' = CASE o.long /\ o.opt \in {"s", "p"} -> "null"
               [] o.opt = "?" -> "usage"
               [] o.opt \in {"h", "v"} -> "exit0"
               [] OTHER -> "no"
  /\ Running /\ UNCHANGED <<mpc, hpc, held, out>>

(* The checks behind the loop, and res_open, whose fopen may fail. *)
ArgsAccepted(c) == c.ret >= 0 /\ c.type # "bad" /\ (c.type = "file" => c.name = "file") /\ c.output # "bad"
ArgsEnd(name, opens) ==
  LET c == [conf EXCEPT !.name = name]
  IN /\ Alive /\ mpc = "args"
     /\ ~opens => conf.output # "stdout"
     /\ conf' = c
     /\ IF ArgsAccepted(c)
        THEN /\ mpc' = "signal" /\ over' = "no"
             /\ out' = IF conf.output = "stdout" THEN "std" ELSE IF opens THEN "open" ELSE "null"
        ELSE /\ over' = IF c.ret < 0 THEN "exit1" ELSE "refused"
             /\ UNCHANGED <<mpc, out>>
     /\ n' = 0
     /\ Running /\ UNCHANGED <<hpc, held>>

(* signal(SIGINT, dump_result), then init_pid_processor. *)
Arm == /\ Alive /\ hpc = "none" /\ mpc = "signal"
       /\ mpc' = "init"
       /\ Running /\ UNCHANGED <<conf, n, hpc, held, out, over>>
InitProcessor == /\ Alive /\ hpc = "none" /\ mpc = "init"
                 /\ mpc' = "open"
                 /\ Running /\ UNCHANGED <<conf, n, hpc, held, out, over>>
(* ts_process opens the input, reads and probes the first block, and returns
   when it cannot (valid is FALSE); udp_open looks into the parsed URL, which
   is NULL when the argument is not one. *)
OpenInput(valid) ==
  /\ Alive /\ hpc = "none" /\ mpc = "open"
  /\ mpc' = IF valid THEN "run" ELSE "tables"
  /\ over' = IF conf.type = "udp" /\ conf.name # "udp" THEN "null" ELSE "no"
  /\ Running /\ UNCHANGED <<conf, n, hpc, held, out>>

-----------------------------------------------------------------------------
(* ts_proc *)

(* The rate is that of the packets since the last clock reference, over the
   distance of the two references: as unsigned values of 64 bits. *)
calc_bitrate_stale(d, pcr) ==
  [d EXCEPT !.rate = (((d.pkts * PktBits - d.bits) * BASE_CLK) % Word) \div ((pcr - d.pcr) % Word),
            !.pcr = pcr]
calc_bitrate(d, pcr) ==
  [d EXCEPT !.rate = (((d.pkts * PktBits - d.bits) * BASE_CLK) % Word) \div ((pcr - d.pcr) % Word),
            !.pcr = pcr, !.bits = d.pkts * PktBits]

(* A clock reference on the PID of the clock.  flag is PCR_flag as it is
   read: with a field of length zero the byte behind the field is taken for
   the flags, and with the flag the bytes behind it for a reference. *)
ts_adaptation_field_proc(flag, pcr, real) ==
  LET d == [dev EXCEPT !.pkts = @ + 1]
  IN IF ~flag
     THEN dev' = d /\ UNCHANGED <<honest, over>>
     ELSE IF pcr = d.pcr
     THEN over' = "div" /\ dev' = d /\ UNCHANGED honest
     ELSE /\ dev' = calc_bitrate(d, pcr)
          /\ honest' = [rate |-> ((d.pkts - honest.pkts) * PktBits * BASE_CLK) \div (pcr - d.pcr),
                        known |-> real /\ ~honest.first /\ pcr > d.pcr,
                        pkts |-> d.pkts, first |-> ~real]
          /\ UNCHANGED over

ClockPacket(length, flag, pcr) ==
  /\ Alive /\ hpc = "none" /\ mpc = "run" /\ busy = "none" /\ n < MaxPackets
  /\ n' = n + 1
  /\ length > 0 => flag
  /\ ts_adaptation_field_proc(flag, pcr, length > 0)
  /\ UNCHANGED <<conf, mpc, hpc, held, out, wire, ca, content, busy, printed, freed>>

(* default_proc, which -p registers for its PIDs alone, knows these.  A PMT
   is looked for where a PAT has said, with or without -p; the PID of PSIP is
   taken for sections only without -p. *)
DefaultProc_uncased == {"PAT", "NIT", "EIT", "SDT", "BAT", "TDT"}
DefaultProc == {"PAT", "CAT", "NIT", "EIT", "SDT", "BAT", "TDT"}
Accepted(t) ==
  CASE t = "PMT" -> content["PAT"] # "none"
    [] OTHER -> conf.pids = {} \/ (PidOf[t] \in conf.pids /\ t \in DefaultProc)

(* A section that is complete reaches its table once, since it is known
   afterwards; the CA descriptors are counted again every time, and while this
   is done SIGINT finds the old count or none.  whole: the CAT, as far as it
   has come by now, has descriptors; a new version that is not complete has
   none. *)
ts_proc(t, whole) ==
  /\ Alive /\ hpc = "none" /\ mpc = "run" /\ busy = "none" /\ n < MaxPackets
  /\ n' = n + 1
  /\ wire' = wire \cup {t}
  /\ ca' = IF t = "CAT" THEN whole ELSE ca
  /\ IF Accepted(t) /\ (content[t] = "none" \/ t = "CAT")
     THEN /\ busy' = t
          /\ \E c \in IF t = "CAT" THEN {content[t], "none"} ELSE {"part"} :
               content' = [content EXCEPT ![t] = c]
     ELSE UNCHANGED <<busy, content>>
  /\ UNCHANGED <<conf, mpc, hpc, held, out, dev, honest, printed, freed, over>>
(* A PES packet of a PID that a PMT has announced: its decoder replaces what
   the packet before has left. *)
pes_proc ==
  /\ Alive /\ hpc = "none" /\ mpc = "run" /\ busy = "none" /\ n < MaxPackets
  /\ conf.detail /\ content["PMT"] = "full" /\ "PES" \in Announced
  /\ n' = n + 1 /\ busy' = "PES"
  /\ UNCHANGED <<conf, mpc, hpc, held, out, wire, ca, content, dev, honest, printed, freed, over>>
ParseEnd ==
  /\ Alive /\ hpc = "none" /\ mpc = "run" /\ busy # "none"
  /\ content' = IF busy = "PES" THEN content
                ELSE [content EXCEPT ![busy] = IF busy = "CAT" /\ ~ca THEN "none" ELSE "full"]
  /\ busy' = "none"
  /\ UNCHANGED <<conf, n, mpc, hpc, held, out, wire, ca, dev, honest, printed, freed, over>>

(* A file ends; a socket does not. *)
InputEnd == /\ Alive /\ hpc = "none" /\ mpc = "run" /\ busy = "none" /\ conf.type = "file"
            /\ mpc' = "tables"
            /\ Running /\ UNCHANGED <<conf, n, hpc, held, out, over>>
Silence == /\ Alive /\ hpc = "none" /\ mpc = "run" /\ busy = "none" /\ conf.type = "udp"
           /\ UNCHANGED vars

-----------------------------------------------------------------------------
(* dump_result *)

(* res_close is two steps: it writes the closing brackets and forgets the open
   levels, and closes the file. *)
Order_early == <<"tables", "pes", "scte", "close", "fclose", "ts", "free", "uninit", "exit">>
Order == <<"tables", "pes", "scte", "ts", "close", "fclose", "free", "uninit", "exit">>
After(s) == Order[(CHOOSE i \in DOMAIN Order : Order[i] = s) + 1]

(* -p adds the tables of its PIDs, and those of PMTs for any other PID; no
   selection at all shows everything. *)
convert_pids_to_tables ==
  {t \in Tables \ {"PMT"} : PidOf[t] \in conf.pids} \cup
  (IF \E p \in conf.pids : \A t \in Tables \ {"PMT"} : PidOf[t] # p THEN {"PMT"} ELSE {})
shown_tables == LET s == conf.tables \cup convert_pids_to_tables
                IN IF s = {} THEN Tables ELSE s

(* PMTs are shown where a PAT has put them, received or not; CATs while the
   newest one has descriptors. *)
Present(t) == IF t = "PMT" THEN content["PAT"] # "none" ELSE content[t] # "none"
PartsOf(step) ==
  CASE step = "tables" -> {t \in shown_tables : Present(t)}
    [] step = "pes" -> IF conf.detail /\ content["PMT"] = "full" THEN Announced \cap {"PES"} ELSE {}
    [] step = "scte" -> IF conf.detail /\ content["PMT"] = "full" THEN Announced \cap {"SCTE"} ELSE {}
    [] step = "ts" -> IF conf.stats THEN {"stats"} ELSE {}

(* Tables whose header keeps a pointer behind free, and the list of PES. *)
Dangling == {t \in {"PAT", "CAT", "SDT", "BAT", "NIT", "EIT"} : content[t] # "none"} \cup
            (IF content["PMT"] = "full" THEN Announced \cap {"PES"} ELSE {})

(* One step of dump_result, and where it leads if nothing breaks *)
Writes(step) == step \in {"tables", "pes", "scte", "ts"} /\ PartsOf(step) # {}
Goes_returns(step, inHandler) == IF step = "exit" /\ ~inHandler THEN "exit0" ELSE "no"
Goes(step, inHandler) ==
  IF step = "exit" THEN IF inHandler THEN "exit2" ELSE "exit0" ELSE "no"

(* A file that is closed, or was never opened, is written or closed; a table
   is freed twice. *)
Broken(step) ==
  \/ (Writes(step) \/ step = "fclose") /\ out \in {"closed", "null"}
  \/ step = "free" /\ freed /\ Dangling # {}
(* YAML has no closing bracket to write; the trees have no open level behind
   the closing ones, HTML has. *)
Fragile(step) ==
  \/ step = "close" /\ out \in {"closed", "null"}
  \/ Writes(step) /\ out = "shut"
(* The step needs the allocator or stdio. *)
Locks(step) ==
  \/ Writes(step) \/ step \in {"free", "uninit", "exit"}
  \/ step \in {"close", "fclose"} /\ out # "std"
(* The step uses what main was in the middle of changing when SIGINT came:
   tables, lists and filters while a packet is parsed (a section is freed
   before its length is cleared, realloc returns before its result is stored),
   the filters of PSIP, the open levels of a tree, what free_tables and
   uninit_section_parser have freed and not cleared yet. *)
Torn(step) ==
  \/ busy # "none" /\ step \in {"tables", "pes", "scte", "free", "uninit"}
  \/ mpc = "init" /\ conf.pids = {} /\ step = "uninit"
  \/ mpc \in {"tables", "pes", "scte", "ts", "close"} /\ out # "std" /\ (Writes(step) \/ step = "close")
  \/ mpc = "free" /\ step \in {"pes", "free"}
  \/ mpc = "uninit" /\ step = "uninit"

StepEnds(step, inHandler) ==
  LET waits == inHandler /\ held /\ Locks(step)
      may == Fragile(step) \/ waits \/ (inHandler /\ Torn(step))
  IN IF Broken(step) THEN {"undefined"}
     ELSE {Goes(step, inHandler)} \cup (IF may THEN {"undefined"} ELSE {})
                                  \cup (IF waits THEN {"stuck"} ELSE {})
res_close(step) ==
  IF step = "close" /\ out = "open" THEN "shut"
  ELSE IF step = "fclose" /\ out = "shut" THEN "closed" ELSE out
DumpStep(step, inHandler) ==
  /\ over' \in StepEnds(step, inHandler)
  /\ printed' = IF Writes(step)
                THEN [p \in Parts |-> printed[p] + (IF p \in PartsOf(step) THEN 1 ELSE 0)]
                ELSE printed
  /\ out' = res_close(step)
  /\ freed' = (freed \/ step = "free")
  /\ UNCHANGED <<conf, n, held, wire, ca, content, busy, dev, honest>>

MainDump == /\ Alive /\ hpc = "none" /\ mpc \in {Order[i] : i \in DOMAIN Order}
            /\ DumpStep(mpc, FALSE)
            /\ mpc' = IF mpc = "exit" THEN mpc ELSE After(mpc)
            /\ UNCHANGED hpc
HandlerDump == /\ Alive /\ hpc # "none"
               /\ DumpStep(hpc, TRUE)
               /\ hpc' = IF hpc = "exit" THEN hpc ELSE After(hpc)
               /\ UNCHANGED mpc

(* SIGINT.  Before signal() it kills.  inUse: main is inside malloc, free or
   stdio at that moment. *)
Interrupt(inUse) ==
  /\ Alive /\ hpc = "none"
  /\ inUse => mpc \notin {"args", "signal"}
  /\ IF mpc \in {"args", "signal"}
     THEN over' = "killed" /\ UNCHANGED <<hpc, held>>
     ELSE hpc' = "tables" /\ held' = inUse /\ UNCHANGED over
  /\ UNCHANGED <<conf, n, mpc, out, wire, ca, content, busy, dev, honest, printed, freed>>

Gone == ~Alive /\ UNCHANGED vars

Next == \/ \E o \in Tokens : Option(o)
        \/ \E name \in Names, opens \in BOOLEAN : ArgsEnd(name, opens)
        \/ Arm \/ InitProcessor
        \/ \E v \in BOOLEAN : OpenInput(v)
        \/ \E l \in 0..1, f \in BOOLEAN, c \in Clocks : ClockPacket(l, f, c)
        \/ \E t \in Wire, w \in BOOLEAN : ts_proc(t, w)
        \/ pes_proc \/ ParseEnd \/ InputEnd \/ Silence
        \/ MainDump \/ HandlerDump
        \/ \E u \in BOOLEAN : Interrupt(u)
        \/ Gone

(* The process has one thread, which goes on as long as it can: through the
   arguments, the parse of a packet, the end of a file, main's dump_result or
   the handler's.  Nothing makes SIGINT come, or packets. *)
Proceeds == \/ \E name \in Names : ArgsEnd(name, TRUE)
            \/ Arm \/ InitProcessor \/ (\E v \in BOOLEAN : OpenInput(v))
            \/ ParseEnd \/ InputEnd \/ MainDump \/ HandlerDump
Fairness == WF_vars(Proceeds)
Spec == Init /\ [][Next]_vars /\ Fairness

-----------------------------------------------------------------------------

Reported == over = "exit2" \/ (over = "exit0" /\ mpc = "exit")
Interrupted == hpc # "none"
Chosen(t) == \/ t \in conf.tables
             \/ PidOf[t] \in conf.pids
             \/ conf.tables = {} /\ conf.pids = {}

(* The report holds what was chosen and no more.  Ctrl-C prints "the
   information received so far", and the end of a file all of it: each chosen
   table that was on the wire is there, unless it was being parsed when SIGINT
   came.  Not found are a CAT whose newest version has no descriptors or is
   not complete, which hides the earlier ones too; a PMT that came before its
   PAT; and with -p a table of another PID that -s asks for, a TSDT and PSIP.
   A PID that is not one of the tables' chooses every PMT (main.c:21,
   table.c:152, table.c:213, table.c:849). *)
Selection ==
  /\ Reported => \A t \in wire :
       \/ ~Chosen(t) \/ printed[t] > 0 \/ t = busy
       \/ t = "CAT" /\ ~ca
       \/ t = "PMT" /\ content["PAT"] = "none"
       \/ conf.pids # {} /\ (PidOf[t] \notin conf.pids \/ t \in {"TSDT", "PSIP"})
  /\ \A t \in Tables : printed[t] > 0 =>
       \/ Chosen(t)
       \/ t = "PMT" /\ \E p \in conf.pids : \A u \in Tables \ {"PMT"} : PidOf[u] # p

(* The report is written once, closed once and freed once; only SIGINT that
   finds main inside its own dump_result makes the handler write it again
   (main.c:50).  The outcome is undefined only for SIGINT that comes inside
   the allocator or stdio, in the middle of a packet that is parsed or of the
   registration of the filters, or inside dump_result: there, on the standard
   output, from free_tables on.  Between two packets it is never.  A file that
   could not be opened is the exception that needs no signal. *)
InDump == mpc \in {Order[i] : i \in DOMAIN Order}
OneReport ==
  /\ \A p \in Parts : printed[p] <= 1 \/ (Interrupted /\ InDump /\ printed[p] = 2)
  /\ over = "undefined" =>
       \/ out = "null"
       \/ Interrupted /\ (held \/ busy # "none" \/ mpc = "init")
       \/ Interrupted /\ InDump /\ (out # "std" \/ mpc \in {"free", "uninit", "exit"})

(* The rate of a PID is that of the packets between its last two clock
   references when these follow one another in time, and the bits of one
   interval are not counted into the next (ts.c:218).  A field of length zero
   may be taken for a reference.  Of two equal references, whose distance of zero
   calc_bitrate divides by, this says nothing: the behaviour ends in "div". *)
RateHonest ==
  /\ honest.known => dev.rate = honest.rate
  /\ dev.bits = honest.pkts * PktBits

(* "Press Ctrl + C to stop": SIGINT ends the program whatever main is doing,
   unless it finds the allocator in use, where the handler may wait for the
   lock that main holds (main.c:50). *)
Ended == over \notin {"no", "stuck"}
SigintStops == (Interrupted /\ ~held) ~> Ended

=============================================================================
