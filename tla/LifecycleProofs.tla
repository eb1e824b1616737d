-------------------------- MODULE LifecycleProofs ---------------------------
(***************************************************************************)
(* Proofs about the life of the program, for any command line, any number  *)
(* of packets and SIGINT at any step: the report is written once, it holds *)
(* what was chosen, and the rate is that of the last interval.             *)
(***************************************************************************)
EXTENDS Lifecycle, TLAPS

KnownWire == Wire \subseteq Tables

-----------------------------------------------------------------------------
(* The steps of dump_result *)

Last == {"close", "fclose", "free", "uninit", "exit"}
Steps == {"tables", "pes", "scte", "ts"} \cup Last

(* The steps that come behind the one that writes part p *)
Beyond(p) ==
  IF p \in Tables THEN {"pes", "scte", "ts"} \cup Last
  ELSE IF p = "PES" THEN {"scte", "ts"} \cup Last
  ELSE IF p = "SCTE" THEN {"ts"} \cup Last
  ELSE Last

LEMMA OrderFacts ==
  /\ DOMAIN Order = 1..9
  /\ Order[1] = "tables" /\ Order[2] = "pes" /\ Order[3] = "scte" /\ Order[4] = "ts"
  /\ Order[5] = "close" /\ Order[6] = "fclose" /\ Order[7] = "free" /\ Order[8] = "uninit"
  /\ Order[9] = "exit"
  BY DEF Order

(* dump_result takes its steps in this order. *)
LEMMA AfterFacts ==
  /\ After("tables") = "pes" /\ After("pes") = "scte" /\ After("scte") = "ts"
  /\ After("ts") = "close" /\ After("close") = "fclose" /\ After("fclose") = "free"
  /\ After("free") = "uninit"
  /\ After("uninit") = "exit"
  /\ {Order[i] : i \in DOMAIN Order} = Steps
<1> DEFINE At(s) == CHOOSE i \in DOMAIN Order : Order[i] = s
<1>1. \A i \in 1..9 : i = 1 \/ i = 2 \/ i = 3 \/ i = 4 \/ i = 5 \/ i = 6 \/ i = 7 \/ i = 8 \/ i = 9
  OBVIOUS
<1>2. /\ At("tables") = 1 /\ At("pes") = 2 /\ At("scte") = 3 /\ At("ts") = 4
      /\ At("close") = 5 /\ At("fclose") = 6 /\ At("free") = 7 /\ At("uninit") = 8
  <2>1. At("tables") = 1
    BY <1>1, OrderFacts
  <2>2. At("pes") = 2
    BY <1>1, OrderFacts
  <2>3. At("scte") = 3
    BY <1>1, OrderFacts
  <2>4. At("ts") = 4
    BY <1>1, OrderFacts
  <2>5. At("close") = 5
    BY <1>1, OrderFacts
  <2>6. At("fclose") = 6
    BY <1>1, OrderFacts
  <2>7. At("free") = 7
    BY <1>1, OrderFacts
  <2>8. At("uninit") = 8
    BY <1>1, OrderFacts
  <2> QED
    BY <2>1, <2>2, <2>3, <2>4, <2>5, <2>6, <2>7, <2>8
<1>3. \A s : After(s) = Order[At(s) + 1]
  BY DEF After
<1> HIDE DEF At
<1>4. {Order[i] : i \in DOMAIN Order} = Steps
  BY <1>1, OrderFacts DEF Steps, Last
<1> QED
  BY <1>2, <1>3, <1>4, OrderFacts

(* A step writes parts that no step before it has written, and the parts that
   are behind the next step are those behind it and its own. *)
LEMMA StepWrites ==
  ASSUME NEW s \in Steps, NEW p \in Parts, conf.tables \subseteq Tables
  PROVE  /\ s # "exit" => /\ s \in Beyond(p) => After(s) \in Beyond(p)
                          /\ After(s) \in Steps
         /\ Writes(s) /\ p \in PartsOf(s) => s \notin Beyond(p) /\ After(s) \in Beyond(p) /\ s # "exit"
<1>1. s # "exit" => (s \in Beyond(p) => After(s) \in Beyond(p)) /\ After(s) \in Steps
  BY AfterFacts DEF Steps, Last, Beyond
<1>2. ASSUME Writes(s), p \in PartsOf(s)
      PROVE  s \notin Beyond(p) /\ After(s) \in Beyond(p) /\ s # "exit"
  <2>1. CASE s = "tables"
    <3>1. p \in Tables
      <4>1. p \in shown_tables
        BY <1>2, <2>1 DEF PartsOf
      <4>2. "PMT" \in Tables
        BY DEF Tables
      <4>3. convert_pids_to_tables \subseteq Tables
        BY <4>2 DEF convert_pids_to_tables
      <4> QED
        BY <4>1, <4>3 DEF shown_tables
    <3> QED
      BY <2>1, <3>1, AfterFacts DEF Beyond, Last
  <2>2. CASE s = "pes"
    <3>1. p = "PES"
      BY <1>2, <2>2 DEF PartsOf
    <3> QED
      BY <2>2, <3>1, AfterFacts DEF Beyond, Last, Tables
  <2>3. CASE s = "scte"
    <3>1. p = "SCTE"
      BY <1>2, <2>3 DEF PartsOf
    <3> QED
      BY <2>3, <3>1, AfterFacts DEF Beyond, Last, Tables
  <2>4. CASE s = "ts"
    <3>1. p = "stats"
      BY <1>2, <2>4 DEF PartsOf
    <3> QED
      BY <2>4, <3>1, AfterFacts DEF Beyond, Last, Tables
  <2> QED
    BY <1>2, <2>1, <2>2, <2>3, <2>4 DEF Writes
<1> QED
  BY <1>1, <1>2

-----------------------------------------------------------------------------
(* One report *)

(* How often a part can have been written, with main and the handler where
   they stand *)
Once(s, p) == IF s \in Beyond(p) THEN 1 ELSE 0

(* The inductive invariant: what was closed or freed was so by a step behind
   which main or the handler stands. *)
Chose == "tables" \in DOMAIN conf /\ conf.tables \subseteq Tables
Where == /\ mpc \in {"args", "signal", "init", "open", "run"} \cup Steps
         /\ hpc \in {"none"} \cup Steps
Counted ==
  /\ printed \in [Parts -> Nat]
  /\ \A p \in Parts : printed[p] <= Once(mpc, p) + Once(hpc, p)
Behind == {"free", "uninit", "exit"}
ClosedBy ==
  /\ out = "shut" => mpc \in {"fclose"} \cup Behind \/ hpc \in {"fclose"} \cup Behind
  /\ out = "closed" => mpc \in Behind \/ hpc \in Behind
FreedBy == freed => mpc \in {"uninit", "exit"} \/ hpc \in {"uninit", "exit"}
(* Where SIGINT may leave the outcome undefined *)
Delicate == \/ held \/ busy # "none" \/ mpc = "init"
            \/ mpc \in Steps /\ (out # "std" \/ mpc \in Behind)
Undefined == over = "undefined" => out = "null" \/ (hpc # "none" /\ Delicate)
ReportInv == Chose /\ Where /\ Counted /\ ClosedBy /\ FreedBy /\ Undefined

LEMMA ChoseInductive ==
  ASSUME Chose, [Next]_vars
  PROVE  Chose'
<1>1. CASE \E o \in Tokens : Option(o)
  <2>1. PICK o \in Tokens : conf' = SetOption(conf, o)
    BY <1>1 DEF Option
  <2>2. CASE o.opt = "s"
    <3>1. conf' = [conf EXCEPT !.tables = @ \cup (o.arg \cap Tables)]
      BY <2>1, <2>2 DEF SetOption
    <3> QED
      BY <3>1 DEF Chose
  <2>3. CASE o.opt # "s"
    <3>1. /\ DOMAIN conf' = DOMAIN conf
          /\ conf'.tables = conf.tables
      BY <2>1, <2>3 DEF SetOption, Chose
    <3> QED
      BY <3>1 DEF Chose
  <2> QED
    BY <2>2, <2>3
<1>2. CASE \E name \in Names, opens \in BOOLEAN : ArgsEnd(name, opens)
  <2>1. PICK name \in Names : conf' = [conf EXCEPT !.name = name]
    BY <1>2 DEF ArgsEnd
  <2> QED
    BY <2>1 DEF Chose
<1>3. CASE ~(\E o \in Tokens : Option(o)) /\ ~(\E name \in Names, opens \in BOOLEAN : ArgsEnd(name, opens))
  <2>1. conf' = conf
    BY <1>3 DEF Next, vars, Arm, InitProcessor, OpenInput, ClockPacket, ts_proc, pes_proc, ParseEnd, InputEnd,
                Silence, MainDump, HandlerDump, DumpStep, Interrupt, Gone
  <2> QED
    BY <2>1 DEF Chose
<1> QED
  BY <1>1, <1>2, <1>3

(* One step of dump_result, in main or in the handler: s is where it stands,
   and other where the other one does. *)
LEMMA DumpCounts ==
  ASSUME NEW s \in Steps, NEW other, NEW h \in BOOLEAN, conf.tables \subseteq Tables,
         printed \in [Parts -> Nat], DumpStep(s, h),
         \A p \in Parts : printed[p] <= Once(s, p) + Once(other, p)
  PROVE  LET next == IF s = "exit" THEN s ELSE After(s) IN
         /\ next \in Steps
         /\ printed' \in [Parts -> Nat]
         /\ \A p \in Parts : printed'[p] <= Once(next, p) + Once(other, p)
<1> DEFINE next == IF s = "exit" THEN s ELSE After(s)
<1>1. next \in Steps
  BY StepWrites DEF Parts
<1>2. CASE Writes(s)
  <2>1. printed' = [p \in Parts |-> printed[p] + (IF p \in PartsOf(s) THEN 1 ELSE 0)]
    BY <1>2 DEF DumpStep
  <2>2. printed' \in [Parts -> Nat]
    BY <2>1
  <2>3. ASSUME NEW p \in Parts PROVE printed'[p] <= Once(next, p) + Once(other, p)
    <3>1. printed[p] \in Nat /\ Once(s, p) \in Nat /\ Once(other, p) \in Nat /\ Once(next, p) \in Nat
      BY DEF Once
    <3>2. CASE p \in PartsOf(s)
      <4>1. Once(s, p) = 0 /\ Once(next, p) = 1
        BY <1>2, <3>2, StepWrites DEF Once
      <4>2. printed'[p] = printed[p] + 1
        BY <2>1, <3>2
      <4> QED
        BY <3>1, <4>1, <4>2
    <3>3. CASE p \notin PartsOf(s)
      <4>1. printed'[p] = printed[p]
        BY <2>1, <3>1, <3>3
      <4>2. Once(s, p) <= Once(next, p)
        BY StepWrites DEF Once
      <4> QED
        BY <3>1, <4>1, <4>2
    <3> QED
      BY <3>2, <3>3
  <2> QED
    BY <1>1, <2>2, <2>3
<1>3. CASE ~Writes(s)
  <2>1. printed' = printed
    BY <1>3 DEF DumpStep
  <2>2. ASSUME NEW p \in Parts PROVE printed[p] <= Once(next, p) + Once(other, p)
    <3>1. printed[p] \in Nat /\ Once(s, p) \in Nat /\ Once(other, p) \in Nat /\ Once(next, p) \in Nat
      BY DEF Once
    <3>2. Once(s, p) <= Once(next, p)
      BY StepWrites DEF Once
    <3> QED
      BY <3>1, <3>2
  <2> QED
    BY <1>1, <2>1, <2>2
<1> QED
  BY <1>2, <1>3

(* What a step of dump_result closes, frees and makes undefined *)
LEMMA DumpEnds ==
  ASSUME NEW s \in Steps, NEW h \in BOOLEAN, DumpStep(s, h)
  PROVE  /\ out' = "closed" => out = "closed" \/ (s = "fclose" /\ out = "shut")
         /\ out' = "shut" => out = "shut" \/ s = "close"
         /\ (out' = "null" <=> out = "null") /\ (out' = "std" <=> out = "std")
         /\ freed' => freed \/ s = "free"
         /\ held' = held /\ busy' = busy
         /\ over' = "undefined" => \/ out = "null"
                                   \/ out = "closed" /\ s \notin Behind
                                   \/ out = "shut" /\ s \notin {"fclose"} \cup Behind
                                   \/ freed /\ s = "free"
                                   \/ h /\ (held \/ Torn(s))
<1>1. /\ over' \in StepEnds(s, h)
      /\ out' = res_close(s)
      /\ freed' = (freed \/ s = "free") /\ held' = held /\ busy' = busy
  BY Zenon DEF DumpStep
<1>2. /\ out' = "closed" => out = "closed" \/ (s = "fclose" /\ out = "shut")
      /\ out' = "shut" => out = "shut" \/ s = "close"
      /\ (out' = "null" <=> out = "null") /\ (out' = "std" <=> out = "std")
  BY <1>1 DEF res_close
<1>3. freed' => freed \/ s = "free"
  BY <1>1, Zenon
<1>4. Goes(s, h) # "undefined"
  BY DEF Goes
<1>5. Writes(s) => s \notin {"close", "fclose"} \cup Behind
  BY DEF Writes, Behind
<1>6. ASSUME over' = "undefined"
      PROVE  \/ out = "null"
             \/ out = "closed" /\ s \notin Behind
             \/ out = "shut" /\ s \notin {"fclose"} \cup Behind
             \/ freed /\ s = "free"
             \/ h /\ (held \/ Torn(s))
  <2>1. Broken(s) \/ Fragile(s) \/ (h /\ held /\ Locks(s)) \/ (h /\ Torn(s))
    BY <1>1, <1>4, <1>6 DEF StepEnds
  <2>2. CASE Broken(s)
    BY <1>5, <2>2 DEF Broken, Behind
  <2>3. CASE Fragile(s)
    BY <1>5, <2>3 DEF Fragile, Behind
  <2> QED
    BY <2>1, <2>2, <2>3, Zenon
<1> QED
  BY <1>1, <1>2, <1>3, <1>6, Zenon

(* What main was in the middle of is a delicate place. *)
LEMMA TornDelicate ==
  ASSUME NEW s, Torn(s)
  PROVE  Delicate
BY DEF Torn, Delicate, Steps, Last, Behind

LEMMA ReportInductive ==
  ASSUME ReportInv, [Next]_vars
  PROVE  ReportInv'
<1>1. Chose'
  BY ChoseInductive DEF ReportInv
<1>2. /\ Where /\ Counted /\ ClosedBy /\ FreedBy /\ Undefined /\ conf.tables \subseteq Tables
  BY DEF ReportInv, Chose
<1>3. CASE MainDump
  <2>1. /\ over = "no" /\ hpc = "none" /\ mpc \in Steps /\ DumpStep(mpc, FALSE)
        /\ hpc' = hpc /\ mpc' = IF mpc = "exit" THEN mpc ELSE After(mpc)
    BY <1>3, AfterFacts DEF MainDump, Alive
  <2>2. /\ mpc' \in Steps /\ printed' \in [Parts -> Nat]
        /\ \A p \in Parts : printed'[p] <= Once(mpc', p) + Once(hpc, p)
    BY <1>2, <2>1, DumpCounts DEF Counted
  <2>3. Where' /\ Counted'
    BY <1>2, <2>1, <2>2 DEF Where, Counted, Once
  <2>4. /\ out' = "closed" => out = "closed" \/ (mpc = "fclose" /\ out = "shut")
        /\ out' = "shut" => out = "shut" \/ mpc = "close"
        /\ (out' = "null" <=> out = "null")
        /\ freed' => freed \/ mpc = "free"
        /\ over' = "undefined" =>
             \/ out = "null"
             \/ out = "closed" /\ mpc \notin Behind
             \/ out = "shut" /\ mpc \notin {"fclose"} \cup Behind
             \/ freed /\ mpc = "free"
    BY <2>1, DumpEnds
  <2>5. ClosedBy'
    BY <1>2, <2>1, <2>4, AfterFacts DEF ClosedBy, Behind
  <2>6. FreedBy'
    BY <1>2, <2>1, <2>4, AfterFacts DEF FreedBy
  <2>7. Undefined'
    BY <1>2, <2>1, <2>4 DEF Undefined, ClosedBy, FreedBy, Behind
  <2> QED
    BY <1>1, <2>3, <2>5, <2>6, <2>7 DEF ReportInv
<1>4. CASE HandlerDump
  <2>1. /\ over = "no" /\ hpc # "none" /\ hpc \in Steps /\ DumpStep(hpc, TRUE)
        /\ mpc' = mpc /\ hpc' = IF hpc = "exit" THEN hpc ELSE After(hpc)
    BY <1>2, <1>4 DEF HandlerDump, Alive, Where
  <2>2. \A p \in Parts : printed[p] <= Once(hpc, p) + Once(mpc, p)
    <3>1. \A p \in Parts : Once(mpc, p) \in Nat /\ Once(hpc, p) \in Nat
      BY DEF Once
    <3> QED
      BY <1>2, <3>1 DEF Counted
  <2>3. /\ hpc' \in Steps /\ printed' \in [Parts -> Nat]
        /\ \A p \in Parts : printed'[p] <= Once(hpc', p) + Once(mpc, p)
    BY <1>2, <2>1, <2>2, DumpCounts DEF Counted
  <2>4. Where' /\ Counted'
    <3>1. \A p \in Parts : Once(mpc, p) \in Nat /\ Once(hpc', p) \in Nat
      BY DEF Once
    <3>2. \A p \in Parts : printed'[p] \in Nat /\ printed'[p] <= Once(mpc, p) + Once(hpc', p)
      BY <2>3, <3>1
    <3> QED
      BY <1>2, <2>1, <2>3, <3>2 DEF Where, Counted, Once
  <2>5. /\ out' = "closed" => out = "closed" \/ (hpc = "fclose" /\ out = "shut")
        /\ out' = "shut" => out = "shut" \/ hpc = "close"
        /\ (out' = "null" <=> out = "null") /\ (out' = "std" <=> out = "std")
        /\ freed' => freed \/ hpc = "free"
        /\ held' = held /\ busy' = busy
        /\ over' = "undefined" =>
             \/ out = "null"
             \/ out = "closed" /\ hpc \notin Behind
             \/ out = "shut" /\ hpc \notin {"fclose"} \cup Behind
             \/ freed /\ hpc = "free"
             \/ held \/ Torn(hpc)
    BY <2>1, DumpEnds
  <2>6. ClosedBy'
    BY <1>2, <2>1, <2>5, AfterFacts DEF ClosedBy, Behind
  <2>7. FreedBy'
    BY <1>2, <2>1, <2>5, AfterFacts DEF FreedBy
  <2>8. Undefined'
    <3>1. hpc' # "none"
      BY <2>3 DEF Steps, Last
    <3>2. ASSUME over' = "undefined", out # "null" PROVE Delicate
      <4>1. CASE out \in {"closed", "shut"} /\ hpc \notin {"fclose"} \cup Behind
        <5>1. mpc \in {"fclose"} \cup Behind
          BY <1>2, <4>1 DEF ClosedBy
        <5> QED
          BY <4>1, <5>1 DEF Delicate, Steps, Last, Behind
      <4>2. CASE out = "closed" /\ hpc = "fclose"
        <5>1. mpc \in Behind
          BY <1>2, <4>2 DEF ClosedBy, Behind
        <5> QED
          BY <5>1 DEF Delicate, Steps, Last, Behind
      <4>3. CASE freed /\ hpc = "free"
        <5>1. mpc \in {"uninit", "exit"}
          BY <1>2, <4>3 DEF FreedBy
        <5> QED
          BY <5>1 DEF Delicate, Steps, Last, Behind
      <4>4. CASE held \/ Torn(hpc)
        BY <4>4, TornDelicate DEF Delicate
      <4> QED
        BY <2>5, <3>2, <4>1, <4>2, <4>3, <4>4 DEF Behind
    <3>3. Delicate => Delicate'
      BY <2>1, <2>5 DEF Delicate
    <3> QED
      BY <2>5, <3>1, <3>2, <3>3 DEF Undefined
  <2> QED
    BY <1>1, <2>4, <2>6, <2>7, <2>8 DEF ReportInv
<1>5. CASE \E u \in BOOLEAN : Interrupt(u)
  <2>1. /\ hpc = "none" /\ (hpc' = "none" \/ hpc' = "tables")
        /\ over' # "undefined"
        /\ UNCHANGED <<mpc, printed, out, freed>>
    BY <1>5 DEF Interrupt, Alive
  <2>2. \A p : Once("tables", p) = 0 /\ Once("none", p) = 0
    BY DEF Once, Beyond, Last
  <2>3. Where' /\ Counted'
    BY <1>2, <2>1, <2>2 DEF Where, Counted, Steps, Once
  <2> QED
    BY <1>1, <1>2, <2>1, <2>3 DEF ReportInv, ClosedBy, FreedBy, Undefined, Behind
<1>6. CASE ~MainDump /\ ~HandlerDump /\ ~(\E u \in BOOLEAN : Interrupt(u)) /\ ~UNCHANGED vars
  <2> DEFINE Early == {"args", "signal", "init", "open", "run"}
  <2>1. /\ mpc \in Early /\ (mpc' \in Early \/ mpc' = "tables")
        /\ over = "no" /\ over' # "undefined"
        /\ out' \notin {"closed", "shut"} \/ out' = out
        /\ UNCHANGED <<hpc, printed, freed>>
    BY <1>6 DEF Next, vars, Option, ArgsEnd, Arm, InitProcessor, OpenInput, ClockPacket, ts_proc, pes_proc,
                ts_adaptation_field_proc, ParseEnd, InputEnd, Silence, Gone, Running, Alive
  <2>2. \A p : \A m \in Early \cup {"tables"} : Once(m, p) = 0
    BY DEF Once, Beyond, Last
  <2>3. Where' /\ Counted'
    BY <1>2, <2>1, <2>2 DEF Where, Counted, Steps, Once
  <2> QED
    BY <1>1, <1>2, <2>1, <2>3 DEF ReportInv, ClosedBy, FreedBy, Undefined, Behind
<1>7. CASE UNCHANGED vars
  BY <1>1, <1>2, <1>7 DEF vars, ReportInv, Where, Counted, ClosedBy, FreedBy, Undefined, Delicate, Once
<1> QED
  BY <1>3, <1>4, <1>5, <1>6, <1>7

LEMMA ReportInit == Init => ReportInv
<1> SUFFICES ASSUME Init PROVE ReportInv
  OBVIOUS
<1>1. Chose
  BY DEF Init, Chose
<1>2. Where
  BY DEF Init, Where
<1>3. Counted
  <2>1. \A p : Once("args", p) = 0 /\ Once("none", p) = 0
    BY DEF Once, Beyond, Last
  <2> QED
    BY <2>1 DEF Init, Counted
<1>4. ClosedBy /\ FreedBy /\ Undefined
  BY DEF Init, ClosedBy, FreedBy, Undefined
<1> QED
  BY <1>1, <1>2, <1>3, <1>4 DEF ReportInv

(* The report is written once, closed once and freed once, whenever SIGINT
   comes; only one that finds main inside its own dump_result makes the
   handler write it again, and the outcome is undefined only where main was
   inside the allocator, a packet, the registration of filters or its own
   dump_result, or where the file could not be opened. *)
THEOREM ReportWrittenOnce == Spec => []OneReport
<1>1. ReportInv => OneReport
  <2> SUFFICES ASSUME ReportInv PROVE OneReport
    OBVIOUS
  <2>1. ASSUME NEW p \in Parts
        PROVE  printed[p] <= 1 \/ (Interrupted /\ InDump /\ printed[p] = 2)
    <3>1. printed[p] \in Nat /\ printed[p] <= Once(mpc, p) + Once(hpc, p)
      BY DEF ReportInv, Counted
    <3>2. /\ Once(mpc, p) \in {0, 1} /\ (Once(mpc, p) = 1 => mpc \in Beyond(p))
          /\ Once(hpc, p) \in {0, 1} /\ (Once(hpc, p) = 1 => hpc \in Beyond(p))
      BY DEF Once
    <3>3. Beyond(p) \subseteq Steps /\ "none" \notin Steps
      BY DEF Beyond, Steps, Last
    <3>4. {Order[i] : i \in DOMAIN Order} = Steps
      BY AfterFacts
    <3> QED
      BY <3>1, <3>2, <3>3, <3>4 DEF Interrupted, InDump
  <2>2. over = "undefined" =>
          \/ out = "null"
          \/ Interrupted /\ (held \/ busy # "none" \/ mpc = "init")
          \/ Interrupted /\ InDump /\ (out # "std" \/ mpc \in {"free", "uninit", "exit"})
    BY AfterFacts DEF ReportInv, Undefined, Delicate, Behind, Interrupted, InDump
  <2> QED
    BY <2>1, <2>2 DEF OneReport
<1> QED
  BY <1>1, ReportInit, ReportInductive, PTL DEF Spec

-----------------------------------------------------------------------------
(* The rate *)

(* The clock has 42 bits and the counters 64; BASE_CLK times the bits of the
   stream is assumed to fit in these. *)
RateAssumptions ==
  /\ Word \in Nat /\ PktBits \in Nat /\ BASE_CLK \in Nat /\ MaxPackets \in Nat
  /\ \A c \in Clocks : c \in Nat /\ c < Word
  /\ (MaxPackets * PktBits) * BASE_CLK < Word

(* The inductive invariant: the bits remembered are those of the packets up to
   the last reference, and there are no more packets than were read. *)
RateInv ==
  /\ dev = [pkts |-> dev.pkts, bits |-> dev.bits, pcr |-> dev.pcr, rate |-> dev.rate]
  /\ n \in Nat /\ dev.pkts \in Nat /\ honest.pkts \in Nat
  /\ honest.pkts <= dev.pkts /\ dev.pkts <= n /\ dev.pkts <= MaxPackets
  /\ mpc = "args" => dev.pkts = 0
  /\ dev.pcr \in Nat /\ dev.pcr < Word
  /\ dev.bits = honest.pkts * PktBits
  /\ honest.known => dev.rate = honest.rate

(* The rate as it is computed, and without a word size *)
InWord(p, b, c, d) == (((p * PktBits - b) * BASE_CLK) % Word) \div ((c - d) % Word)
Exactly(p, q, c, d) == ((p - q) * PktBits * BASE_CLK) \div (c - d)

(* No step of calc_bitrate wraps. *)
LEMMA RateExact ==
  ASSUME RateAssumptions, NEW p \in Nat, NEW q \in Nat, q <= p, p <= MaxPackets,
         NEW c \in Nat, NEW d \in Nat, d < c, c < Word, NEW b, b = q * PktBits
  PROVE  InWord(p, b, c, d) = Exactly(p, q, c, d)
<1>1. /\ Word \in Nat /\ PktBits \in Nat /\ BASE_CLK \in Nat /\ MaxPackets \in Nat
      /\ (MaxPackets * PktBits) * BASE_CLK < Word
  BY DEF RateAssumptions
<1>2. (p * PktBits - q * PktBits) * BASE_CLK = (p - q) * PktBits * BASE_CLK
  BY <1>1
<1>3. \A i, m \in Nat : i < m => i % m = i
  OBVIOUS
<1>4. /\ p - q \in Nat /\ p - q <= MaxPackets
  BY <1>1
<1>5. \A i, j, k, l \in Nat : i <= j => i * k * l <= j * k * l /\ i * k * l \in Nat
  OBVIOUS
<1>6. (p - q) * PktBits * BASE_CLK \in Nat /\ (p - q) * PktBits * BASE_CLK <= MaxPackets * PktBits * BASE_CLK
  BY <1>1, <1>4, <1>5
<1>7. (p - q) * PktBits * BASE_CLK < Word
  <2>1. \A i, j, k \in Int : i <= j /\ j < k => i < k
    OBVIOUS
  <2>2. MaxPackets * PktBits * BASE_CLK \in Int
    BY <1>1
  <2> QED
    BY <1>1, <1>6, <2>1, <2>2
<1>8. ((p - q) * PktBits * BASE_CLK) % Word = (p - q) * PktBits * BASE_CLK
  BY <1>1, <1>3, <1>6, <1>7
<1>9. (c - d) % Word = c - d
  <2>1. c - d \in Nat /\ c - d < Word
    BY <1>1
  <2> QED
    BY <1>1, <1>3, <2>1
<1> QED
  BY <1>2, <1>8, <1>9 DEF InWord, Exactly

LEMMA RateInductive ==
  ASSUME RateAssumptions, RateInv, [Next]_vars
  PROVE  RateInv'
<1>1. CASE \E l \in 0..1, f \in BOOLEAN, c \in Clocks : ClockPacket(l, f, c)
  <2>1. PICK l \in 0..1, f \in BOOLEAN, c \in Clocks : ClockPacket(l, f, c)
    BY <1>1
  <2> DEFINE d == [dev EXCEPT !.pkts = @ + 1]
  <2>2. /\ n < MaxPackets /\ n' = n + 1 /\ mpc = "run" /\ mpc' = "run"
        /\ ts_adaptation_field_proc(f, c, l > 0)
    BY <2>1 DEF ClockPacket
  <2>3. /\ d = [pkts |-> dev.pkts + 1, bits |-> dev.bits, pcr |-> dev.pcr, rate |-> dev.rate]
        /\ MaxPackets \in Nat
    BY DEF RateInv, RateAssumptions
  <2>4. /\ d.pkts = dev.pkts + 1 /\ d.bits = dev.bits /\ d.pcr = dev.pcr /\ d.rate = dev.rate
    BY <2>3
  <2>5. /\ n' \in Nat /\ d.pkts \in Nat /\ d.pkts <= n' /\ d.pkts <= MaxPackets
        /\ honest.pkts \in Nat /\ honest.pkts <= d.pkts
    BY <2>2, <2>3, <2>4 DEF RateInv
  <2>6. CASE dev' = d /\ honest' = honest
    <3> HIDE DEF d
    <3> QED
      BY <2>2, <2>3, <2>4, <2>5, <2>6 DEF RateInv
  <2>7. CASE /\ dev' = calc_bitrate(d, c)
             /\ honest' = [rate |-> ((d.pkts - honest.pkts) * PktBits * BASE_CLK) \div (c - d.pcr),
                           known |-> l > 0 /\ ~honest.first /\ c > d.pcr,
                           pkts |-> d.pkts, first |-> ~(l > 0)]
    <3> DEFINE r == (((d.pkts * PktBits - d.bits) * BASE_CLK) % Word) \div ((c - d.pcr) % Word)
               b == d.pkts * PktBits
               ideal == ((d.pkts - honest.pkts) * PktBits * BASE_CLK) \div (c - d.pcr)
    <3>1. dev' = [d EXCEPT !.rate = r, !.pcr = c, !.bits = b]
      BY <2>7, Zenon DEF calc_bitrate
    <3>2. /\ honest'.rate = ideal /\ honest'.pkts = d.pkts /\ (honest'.known => c > d.pcr)
      <4> HIDE DEF d
      <4> QED
        BY <2>7
    <3>3. /\ dev'.pkts = d.pkts /\ dev'.bits = b /\ dev'.pcr = c /\ dev'.rate = r
          /\ dev' = [pkts |-> d.pkts, bits |-> b, pcr |-> c, rate |-> r]
      <4> HIDE DEF r, b
      <4> QED
        BY <2>3, <2>4, <3>1
    <3>4. c \in Nat /\ c < Word
      BY DEF RateAssumptions
    <3>5. c > d.pcr => r = ideal
      <4>1. d.bits = honest.pkts * PktBits /\ d.pcr \in Nat
        BY <2>4 DEF RateInv
      <4> HIDE DEF d
      <4>2. c > d.pcr => d.pcr < c
        BY <3>4, <4>1
      <4>3. r = InWord(d.pkts, d.bits, c, d.pcr) /\ ideal = Exactly(d.pkts, honest.pkts, c, d.pcr)
        BY DEF InWord, Exactly
      <4> HIDE DEF r, ideal
      <4> QED
        BY <2>5, <3>4, <4>1, <4>2, <4>3, RateExact
    <3> HIDE DEF r, ideal, d
    <3> QED
      BY <2>2, <2>5, <3>2, <3>3, <3>4, <3>5 DEF RateInv
  <2> QED
    BY <2>2, <2>6, <2>7, Zenon DEF ts_adaptation_field_proc
<1>2. CASE ~(\E l \in 0..1, f \in BOOLEAN, c \in Clocks : ClockPacket(l, f, c))
  <2>1. /\ UNCHANGED <<dev, honest>> /\ (mpc' = "args" => mpc = "args")
        /\ n' = n \/ n' = n + 1 \/ (n' = 0 /\ mpc = "args")
    BY <1>2, AfterFacts DEF Next, vars, Option, ArgsEnd, Arm, InitProcessor, OpenInput, ts_proc, pes_proc, ParseEnd, InputEnd,
                Silence, MainDump, HandlerDump, DumpStep, Interrupt, Gone, Running, Steps, Last
  <2> QED
    BY <2>1 DEF RateInv
<1> QED
  BY <1>1, <1>2

(* The rate of a PID is that of the packets between its last two references,
   for any sequence of references; the subtraction is never of the wrong
   count. *)
THEOREM RateOfLastInterval ==
  ASSUME RateAssumptions
  PROVE  Spec => []RateHonest
<1>1. Init => RateInv
  <2> SUFFICES ASSUME Init PROVE RateInv
    OBVIOUS
  <2>1. /\ dev = [pkts |-> 0, bits |-> 0, pcr |-> 0, rate |-> 0]
        /\ honest = [rate |-> 0, known |-> FALSE, pkts |-> 0, first |-> TRUE] /\ n = 0
    BY DEF Init
  <2>2. 0 * PktBits = 0 /\ MaxPackets \in Nat /\ Word \in Nat
    BY DEF RateAssumptions
  <2>3. 0 < Word
    <3>1. (MaxPackets * PktBits) * BASE_CLK \in Nat
      BY DEF RateAssumptions
    <3> QED
      BY <2>2, <3>1 DEF RateAssumptions
  <2> QED
    BY <2>1, <2>2, <2>3 DEF RateInv
<1>2. RateInv => RateHonest
  BY DEF RateInv, RateHonest
<1> QED
  BY <1>1, <1>2, RateInductive, PTL DEF Spec

-----------------------------------------------------------------------------
(* The choice of tables *)

OtherPid == \E p \in conf.pids : \A u \in Tables \ {"PMT"} : PidOf[u] # p

(* What is shown is what was chosen, and every PMT for a PID of no table. *)
LEMMA ChosenShown ==
  ASSUME NEW t \in Tables
  PROVE  /\ Chosen(t) => t \in shown_tables
         /\ t \in shown_tables => Chosen(t) \/ (t = "PMT" /\ OtherPid)
<1>1. \A u \in Tables \ {"PMT"} : PidOf[u] # PidOf["PMT"]
  BY DEF PidOf, Tables
<1>2. \A u \in Tables \ {"PMT"} : u \in convert_pids_to_tables <=> PidOf[u] \in conf.pids
  BY DEF convert_pids_to_tables
<1>3. "PMT" \in convert_pids_to_tables <=> OtherPid
  BY DEF convert_pids_to_tables, OtherPid
<1>4. PidOf["PMT"] \in conf.pids => OtherPid
  BY <1>1 DEF OtherPid
<1>5. convert_pids_to_tables = {} => conf.pids = {}
  <2> SUFFICES ASSUME NEW p \in conf.pids PROVE convert_pids_to_tables # {}
    OBVIOUS
  <2>1. CASE OtherPid
    BY <1>3, <2>1
  <2>2. CASE ~OtherPid
    BY <1>2, <2>2 DEF OtherPid
  <2> QED
    BY <2>1, <2>2
<1>6. t \in conf.tables \cup convert_pids_to_tables => t \in shown_tables
  BY DEF shown_tables
<1>7. conf.tables \cup convert_pids_to_tables = {} => t \in shown_tables
  BY DEF shown_tables
<1>8. conf.pids = {} => convert_pids_to_tables = {}
  BY <1>2, <1>3 DEF OtherPid, convert_pids_to_tables
<1>9. t \in shown_tables => \/ t \in conf.tables \/ t \in convert_pids_to_tables
                            \/ conf.tables = {} /\ convert_pids_to_tables = {}
  BY DEF shown_tables
<1>10. Chosen(t) => t \in shown_tables
  BY <1>2, <1>3, <1>4, <1>6, <1>7, <1>8 DEF Chosen
<1>11. t \in shown_tables => Chosen(t) \/ (t = "PMT" /\ OtherPid)
  BY <1>2, <1>3, <1>5, <1>9 DEF Chosen
<1> QED
  BY <1>10, <1>11

(* What a step of dump_result does for a table *)
LEMMA DumpShows ==
  ASSUME NEW s \in Steps, NEW h \in BOOLEAN, DumpStep(s, h), conf.tables \subseteq Tables,
         printed \in [Parts -> Nat], NEW t \in Tables
  PROVE  /\ printed'[t] >= printed[t]
         /\ s = "tables" /\ t \in shown_tables /\ Present(t) => printed'[t] > 0
         /\ printed'[t] > 0 => printed[t] > 0 \/ t \in shown_tables
         /\ s # "tables" => s \in Beyond(t)
         /\ over' = "exit2" => h /\ s = "exit"
<1>1. t \in Parts /\ printed[t] \in Nat
  BY DEF Parts
<1>2. s # "tables" => s \in Beyond(t)
  BY DEF Beyond, Steps
<1>3. PartsOf("tables") = {u \in shown_tables : Present(u)}
  BY DEF PartsOf
<1>4. Writes(s) /\ t \in PartsOf(s) => s = "tables"
  BY <1>1, <1>2, StepWrites
<1>5. over' = "exit2" => h /\ s = "exit"
  <2>1. over' \in StepEnds(s, h)
    BY DEF DumpStep
  <2>2. StepEnds(s, h) \subseteq {"undefined", "stuck", Goes(s, h)}
    BY DEF StepEnds
  <2> QED
    BY <2>1, <2>2 DEF Goes
<1>6. CASE Writes(s)
  <2>1. printed'[t] = printed[t] + (IF t \in PartsOf(s) THEN 1 ELSE 0)
    BY <1>1, <1>6 DEF DumpStep
  <2>2. s = "tables" /\ t \in shown_tables /\ Present(t) => printed'[t] > 0
    BY <1>1, <1>3, <2>1
  <2>3. printed'[t] > 0 => printed[t] > 0 \/ t \in shown_tables
    BY <1>1, <1>3, <1>4, <1>6, <2>1
  <2>4. printed'[t] >= printed[t]
    BY <1>1, <2>1
  <2> QED
    BY <1>2, <1>5, <2>2, <2>3, <2>4
<1>7. CASE ~Writes(s)
  <2>1. printed' = printed
    BY <1>7 DEF DumpStep
  <2>2. s = "tables" => PartsOf("tables") = {}
    BY <1>7 DEF Writes
  <2>3. ~(s = "tables" /\ t \in shown_tables /\ Present(t))
    BY <1>3, <2>2
  <2>4. printed'[t] >= printed[t]
    BY <1>1, <2>1
  <2> QED
    BY <1>2, <1>5, <2>1, <2>3, <2>4
<1> QED
  BY <1>6, <1>7

(* The inductive invariant: a table that was on the wire has contents, is
   being parsed, is one that -p misses or a CAT without descriptors; behind the step that writes tables,
   those shown have been written. *)
Missed(t) == conf.pids # {} /\ (PidOf[t] \notin conf.pids \/ t \in {"TSDT", "PSIP"})
Fresh == mpc = "args" => wire = {} /\ hpc = "none"
Contents ==
  /\ content \in [Tables -> {"none", "part", "full"}] /\ wire \subseteq Tables
  /\ busy \in Tables \cup {"none", "PES"}
  /\ \A t \in wire : \/ t = "PMT" \/ content[t] # "none" \/ t = busy \/ Missed(t)
                     \/ t = "CAT" /\ ~ca
Shown ==
  \A t \in Tables :
    /\ (mpc \in Beyond(t) \/ hpc \in Beyond(t)) /\ t \in shown_tables /\ Present(t) => printed[t] > 0
    /\ printed[t] > 0 => t \in shown_tables
Ends == over = "exit2" => hpc = "exit"
SelectionInv == Fresh /\ Contents /\ Shown /\ Ends

(* While neither main nor the handler is behind the first step, no table has
   been written. *)
LEMMA NothingShown ==
  ASSUME Counted, hpc = "none" \/ hpc = "tables",
         mpc \in {"args", "signal", "init", "open", "run", "tables"}
  PROVE  \A t \in Tables : printed[t] = 0 /\ mpc \notin Beyond(t) /\ hpc \notin Beyond(t)
<1> TAKE t \in Tables
<1>1. mpc \notin Beyond(t) /\ hpc \notin Beyond(t)
  BY DEF Beyond, Last
<1>2. Once(mpc, t) = 0 /\ Once(hpc, t) = 0
  BY <1>1 DEF Once
<1>3. t \in Parts /\ printed[t] \in Nat /\ printed[t] <= Once(mpc, t) + Once(hpc, t)
  BY DEF Counted, Parts
<1> QED
  BY <1>1, <1>2, <1>3

(* The steps of main before its own dump_result *)
Early == {"args", "signal", "init", "open", "run"}

LEMMA ContentsInductive ==
  ASSUME KnownWire, ReportInv, SelectionInv, [Next]_vars
  PROVE  Fresh' /\ Contents'
<1>1. Fresh /\ Contents /\ Where
  BY DEF SelectionInv, ReportInv
<1>2. CASE \E t \in Wire, w \in BOOLEAN : ts_proc(t, w)
  <2>1. PICK t \in Wire, w \in BOOLEAN : ts_proc(t, w)
    BY <1>2
  <2>2. /\ mpc = "run" /\ busy = "none" /\ wire' = wire \cup {t} /\ conf' = conf /\ mpc' = mpc
        /\ t # "CAT" => ca' = ca
        /\ t \in Tables
    BY <2>1 DEF ts_proc, KnownWire
  <2>3. CASE Accepted(t) /\ (content[t] = "none" \/ t = "CAT")
    <3>1. PICK c \in {content[t], "none", "part"} : busy' = t /\ content' = [content EXCEPT ![t] = c]
      BY <2>1, <2>3 DEF ts_proc
    <3>2. content' \in [Tables -> {"none", "part", "full"}]
      BY <1>1, <2>2, <3>1 DEF Contents
    <3>3. \A u \in wire : u # t => content'[u] = content[u]
      BY <1>1, <3>1 DEF Contents
    <3>4. ASSUME NEW u \in wire'
          PROVE  \/ u = "PMT" \/ content'[u] # "none" \/ u = busy' \/ Missed(u)
                 \/ u = "CAT" /\ ~ca'
      <4>1. CASE u = t
        BY <3>1, <4>1
      <4>2. CASE u # t
        <5>1. u \in wire /\ u \in Tables /\ u # busy
          BY <1>1, <2>2, <4>2 DEF Contents, Tables
        <5>2. u = "CAT" => t # "CAT"
          BY <4>2
        <5>3. u = "CAT" => ca' = ca
          BY <2>2, <5>2
        <5> QED
          BY <1>1, <3>3, <4>2, <5>1, <5>3 DEF Contents
      <4> QED
        BY <4>1, <4>2
    <3>5. Fresh' /\ \A u : Missed(u)' = Missed(u)
      BY <1>1, <2>2 DEF Fresh, Missed
    <3>6. wire' \subseteq Tables
      BY <1>1, <2>2 DEF Contents
    <3> QED
      BY <2>2, <3>1, <3>2, <3>4, <3>5, <3>6 DEF Contents
  <2>4. CASE ~(Accepted(t) /\ (content[t] = "none" \/ t = "CAT"))
    <3>1. busy' = busy /\ content' = content
      BY <2>1, <2>4 DEF ts_proc
    <3>2. t = "PMT" \/ (content[t] # "none" /\ t # "CAT") \/ Missed(t)
      <4>1. CASE Accepted(t)
        BY <2>4, <4>1
      <4>2. CASE ~Accepted(t) /\ t # "PMT"
        <5>1. conf.pids # {} /\ (PidOf[t] \notin conf.pids \/ t \notin DefaultProc)
          BY <4>2, Zenon DEF Accepted
        <5>2. t \in DefaultProc \/ t \in {"TSDT", "PSIP"}
          BY <2>2, <4>2 DEF DefaultProc, Tables
        <5> QED
          BY <5>1, <5>2, Zenon DEF Missed
      <4> QED
        BY <4>1, <4>2
    <3>3. ASSUME NEW u \in wire'
          PROVE  \/ u = "PMT" \/ content[u] # "none" \/ u = busy \/ Missed(u)
                 \/ u = "CAT" /\ ~ca'
      <4>1. CASE u = t
        BY <3>2, <4>1
      <4>2. CASE u # t
        <5>1. u \in wire
          BY <2>2, <4>2
        <5>2. u = "CAT" => ca' = ca
          BY <2>2, <4>2
        <5> QED
          BY <1>1, <5>1, <5>2 DEF Contents
      <4> QED
        BY <4>1, <4>2
    <3>4. Fresh' /\ \A u : Missed(u)' = Missed(u)
      BY <1>1, <2>2 DEF Fresh, Missed
    <3>5. wire' \subseteq Tables
      BY <1>1, <2>2 DEF Contents
    <3> QED
      BY <1>1, <3>1, <3>3, <3>4, <3>5 DEF Contents
  <2> QED
    BY <2>3, <2>4
<1>3. CASE ParseEnd
  <2>1. /\ mpc = "run" /\ busy # "none" /\ UNCHANGED <<mpc, conf, wire, ca>> /\ busy' = "none"
        /\ content' = IF busy = "PES" THEN content
                      ELSE [content EXCEPT ![busy] = IF busy = "CAT" /\ ~ca THEN "none" ELSE "full"]
    BY <1>3 DEF ParseEnd
  <2>2. busy \in Tables \/ busy = "PES"
    BY <1>1, <2>1 DEF Contents
  <2>3. "PES" \notin Tables
    BY DEF Tables
  <2>4. /\ content' \in [Tables -> {"none", "part", "full"}]
        /\ busy \in Tables /\ ~(busy = "CAT" /\ ~ca) => content'[busy] = "full"
        /\ \A u \in wire : u # busy => content'[u] = content[u]
    BY <1>1, <2>1, <2>2, <2>3 DEF Contents
  <2>5. ASSUME NEW u \in wire
        PROVE  \/ u = "PMT" \/ content'[u] # "none" \/ Missed(u) \/ (u = "CAT" /\ ~ca)
    <3>1. u \in Tables
      BY <1>1 DEF Contents
    <3> QED
      BY <1>1, <2>4, <3>1 DEF Contents
  <2>6. Fresh' /\ \A u : Missed(u)' = Missed(u)
    BY <1>1, <2>1 DEF Fresh, Missed
  <2> QED
    BY <1>1, <2>1, <2>4, <2>5, <2>6 DEF Contents
<1>4. CASE (\E o \in Tokens : Option(o)) \/ (\E name \in Names, opens \in BOOLEAN : ArgsEnd(name, opens))
  <2>1. mpc = "args" /\ UNCHANGED <<wire, ca, content, busy, hpc>>
    BY <1>4 DEF Option, ArgsEnd, Running
  <2>2. wire = {} /\ hpc = "none"
    BY <1>1, <2>1 DEF Fresh
  <2> QED
    BY <1>1, <2>1, <2>2 DEF Fresh, Contents
<1>5. CASE /\ ~(\E t \in Wire, w \in BOOLEAN : ts_proc(t, w)) /\ ~ParseEnd /\ ~pes_proc
           /\ ~(\E o \in Tokens : Option(o))
           /\ ~(\E name \in Names, opens \in BOOLEAN : ArgsEnd(name, opens))
  <2>1. UNCHANGED <<wire, ca, content, busy, conf>>
    BY <1>5 DEF Next, vars, Arm, InitProcessor, OpenInput, ClockPacket, InputEnd, Silence, MainDump,
                HandlerDump, DumpStep, Interrupt, Gone, Running
  <2>2. mpc' = "args" => mpc = "args" /\ (hpc = "none" => hpc' = "none")
    BY <1>5, AfterFacts DEF Next, vars, Arm, InitProcessor, OpenInput, ClockPacket, InputEnd, Silence,
                MainDump, HandlerDump, DumpStep, Interrupt, Gone, Running, Steps, Last, Alive
  <2> QED
    BY <1>1, <2>1, <2>2 DEF Fresh, Contents, Missed
<1>6. CASE pes_proc
  <2>1. /\ mpc = "run" /\ busy = "none" /\ UNCHANGED <<mpc, conf, wire, ca, content>> /\ busy' = "PES"
    BY <1>6 DEF pes_proc
  <2>2. \A u \in wire : u # busy
    BY <1>1, <2>1 DEF Contents, Tables
  <2> QED
    BY <1>1, <2>1, <2>2 DEF Fresh, Contents, Missed
<1> QED
  BY <1>2, <1>3, <1>4, <1>5, <1>6

LEMMA ShownInductive ==
  ASSUME KnownWire, ReportInv, SelectionInv, [Next]_vars
  PROVE  Shown' /\ Ends'
<1>1. /\ Fresh /\ Shown /\ Ends /\ Where /\ Counted /\ conf.tables \subseteq Tables
      /\ printed \in [Parts -> Nat]
  BY DEF SelectionInv, ReportInv, Chose, Counted
<1>2. Where' /\ Counted'
  BY ReportInductive DEF ReportInv
<1>3. CASE MainDump \/ HandlerDump
  <2>1. /\ conf' = conf /\ content' = content
    BY <1>3 DEF MainDump, HandlerDump, DumpStep
  <2>2. shown_tables' = shown_tables /\ \A t : Present(t)' = Present(t)
    BY <2>1 DEF shown_tables, convert_pids_to_tables, Present
  <2>3. PICK s \in Steps, h \in BOOLEAN :
          /\ DumpStep(s, h) /\ (h => s = hpc /\ mpc' = mpc) /\ (~h => s = mpc /\ hpc' = hpc)
          /\ h /\ s = "exit" => hpc' = "exit"
          /\ over = "no"
    <3>1. CASE MainDump
      <4>1. mpc \in Steps /\ DumpStep(mpc, FALSE) /\ hpc' = hpc /\ over = "no"
        BY <3>1, AfterFacts DEF MainDump, Alive
      <4> QED
        BY <4>1
    <3>2. CASE HandlerDump
      <4>1. /\ hpc \in Steps /\ DumpStep(hpc, TRUE) /\ mpc' = mpc /\ over = "no"
            /\ hpc = "exit" => hpc' = "exit"
        BY <1>1, <3>2 DEF HandlerDump, Alive, Where
      <4> QED
        BY <4>1
    <3> QED
      BY <1>3, <3>1, <3>2
  <2>4. Ends'
    <3>1. "PAT" \in Tables
      BY DEF Tables
    <3>2. over' = "exit2" => h /\ s = "exit"
      BY <1>1, <2>3, <3>1, DumpShows
    <3> QED
      BY <2>3, <3>2 DEF Ends
  <2>5. ASSUME NEW t \in Tables
        PROVE  /\ (mpc' \in Beyond(t) \/ hpc' \in Beyond(t)) /\ t \in shown_tables /\ Present(t)
                    => printed'[t] > 0
               /\ printed'[t] > 0 => t \in shown_tables
    <3>1. /\ printed'[t] >= printed[t]
          /\ s = "tables" /\ t \in shown_tables /\ Present(t) => printed'[t] > 0
          /\ printed'[t] > 0 => printed[t] > 0 \/ t \in shown_tables
          /\ s # "tables" => s \in Beyond(t)
      BY <1>1, <2>3, DumpShows
    <3>2. /\ (mpc \in Beyond(t) \/ hpc \in Beyond(t)) /\ t \in shown_tables /\ Present(t)
               => printed[t] > 0
          /\ printed[t] > 0 => t \in shown_tables
      BY <1>1 DEF Shown
    <3>3. printed[t] \in Nat /\ printed'[t] \in Nat
      BY <1>1, <1>2 DEF Counted, Parts
    <3>4. printed[t] > 0 => printed'[t] > 0
      BY <3>1, <3>3
    <3>5. (mpc' \in Beyond(t) \/ hpc' \in Beyond(t)) =>
             mpc \in Beyond(t) \/ hpc \in Beyond(t) \/ s = "tables"
      BY <2>3, <3>1
    <3> QED
      BY <3>1, <3>2, <3>4, <3>5
  <2>6. Shown'
    BY <2>2, <2>5 DEF Shown
  <2> QED
    BY <2>4, <2>6
<1>4. CASE \E u \in BOOLEAN : Interrupt(u)
  <2>1. /\ UNCHANGED <<mpc, printed, conf, content>> /\ over = "no" /\ over' # "exit2"
        /\ hpc' = "none" \/ hpc' = "tables"
    BY <1>4 DEF Interrupt, Alive
  <2>2. shown_tables' = shown_tables /\ \A t : Present(t)' = Present(t)
    BY <2>1 DEF shown_tables, convert_pids_to_tables, Present
  <2>3. \A t \in Tables : hpc' \notin Beyond(t)
    BY <2>1 DEF Beyond, Last
  <2>4. Ends' /\ \A t \in Tables : Beyond(t)' = Beyond(t)
    BY <2>1 DEF Ends
  <2> QED
    BY <1>1, <2>1, <2>2, <2>3, <2>4 DEF Shown
<1>5. CASE UNCHANGED vars
  <2>1. UNCHANGED <<mpc, hpc, printed, conf, content, over>>
    BY <1>5 DEF vars
  <2>2. shown_tables' = shown_tables /\ \A t : Present(t)' = Present(t)
    BY <2>1 DEF shown_tables, convert_pids_to_tables, Present
  <2> QED
    BY <1>1, <2>1, <2>2 DEF Shown, Ends
<1>6. CASE ~MainDump /\ ~HandlerDump /\ ~(\E u \in BOOLEAN : Interrupt(u)) /\ ~UNCHANGED vars
  <2>1. /\ mpc' \in Early \/ mpc' = "tables"
        /\ over' # "exit2" /\ hpc' = hpc
        /\ hpc = "none" \/ mpc = "args"
    BY <1>6 DEF Next, vars, Option, ArgsEnd, Arm, InitProcessor, OpenInput, ClockPacket, ts_proc, pes_proc,
                ts_adaptation_field_proc, ParseEnd, InputEnd, Silence, Gone, Running, Alive, Early
  <2>2. hpc' = "none"
    BY <1>1, <2>1 DEF Fresh
  <2>3. \A t \in Tables : printed'[t] = 0 /\ mpc' \notin Beyond(t) /\ hpc' \notin Beyond(t)
    <3> TAKE t \in Tables
    <3>1. mpc' \notin Beyond(t) /\ hpc' \notin Beyond(t)
      BY <2>1, <2>2 DEF Beyond, Last, Early
    <3>2. t \in Parts /\ printed'[t] \in Nat /\ printed'[t] <= Once(mpc', t) + Once(hpc', t)
      BY <1>2 DEF Counted, Parts, Once
    <3> QED
      BY <3>1, <3>2 DEF Once
  <2>4. Ends'
    BY <2>1 DEF Ends
  <2>5. ~(0 > 0)
    OBVIOUS
  <2> QED
    BY <2>3, <2>4, <2>5 DEF Shown
<1> QED
  BY <1>3, <1>4, <1>5, <1>6

(* The report holds each chosen table that was on the wire, but for the ones
   the property names, and no table that was not chosen: for any command line,
   any packets, and SIGINT at any step. *)
THEOREM ReportComplete ==
  ASSUME KnownWire
  PROVE  Spec => []Selection
<1>1. Init => SelectionInv
  <2> SUFFICES ASSUME Init PROVE SelectionInv
    OBVIOUS
  <2>1. Fresh /\ Ends
    BY DEF Init, Fresh, Ends
  <2>2. Contents
    BY DEF Init, Contents
  <2>3. Counted
    BY ReportInit DEF ReportInv
  <2>4. \A t \in Tables : printed[t] = 0 /\ mpc \notin Beyond(t) /\ hpc \notin Beyond(t)
    BY <2>3, NothingShown DEF Init
  <2>5. ~(0 > 0)
    OBVIOUS
  <2> QED
    BY <2>1, <2>2, <2>4, <2>5 DEF SelectionInv, Shown
<1>2. ReportInv /\ SelectionInv /\ [Next]_vars => (ReportInv /\ SelectionInv)'
  BY ReportInductive, ContentsInductive, ShownInductive DEF SelectionInv
<1>3. ReportInv /\ SelectionInv => Selection
  <2> SUFFICES ASSUME ReportInv, SelectionInv PROVE Selection
    OBVIOUS
  <2>1. ASSUME Reported, NEW t \in wire
        PROVE  \/ ~Chosen(t) \/ printed[t] > 0 \/ t = busy
               \/ t = "CAT" /\ ~ca
               \/ t = "PMT" /\ content["PAT"] = "none"
               \/ conf.pids # {} /\ (PidOf[t] \notin conf.pids \/ t \in {"TSDT", "PSIP"})
    <3>1. t \in Tables /\ (t = "PMT" \/ content[t] # "none" \/ t = busy \/ Missed(t)
                              \/ (t = "CAT" /\ ~ca))
      BY DEF SelectionInv, Contents
    <3>2. mpc = "exit" \/ hpc = "exit"
      BY <2>1 DEF Reported, SelectionInv, Ends
    <3>3. "exit" \in Beyond(t)
      BY DEF Beyond, Last
    <3>4. t \in shown_tables /\ Present(t) => printed[t] > 0
      BY <3>1, <3>2, <3>3 DEF SelectionInv, Shown
    <3>5. Chosen(t) => t \in shown_tables
      BY <3>1, ChosenShown
    <3>6. Present(t) \/ (t = "PMT" /\ content["PAT"] = "none") \/ (t # "PMT" /\ content[t] = "none")
      BY DEF Present
    <3> QED
      BY <3>1, <3>4, <3>5, <3>6 DEF Missed
  <2>2. ASSUME NEW t \in Tables, printed[t] > 0
        PROVE  Chosen(t) \/ (t = "PMT" /\ OtherPid)
    <3>1. t \in shown_tables
      BY <2>2 DEF SelectionInv, Shown
    <3> QED
      BY <3>1, ChosenShown
  <2> QED
    BY <2>1, <2>2 DEF Selection, OtherPid
<1> QED
  BY <1>1, <1>2, <1>3, ReportInit, PTL DEF Spec

=============================================================================
