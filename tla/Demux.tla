------------------------------- MODULE Demux -------------------------------
(***************************************************************************)
(* Which PIDs are decoded, as what and by whom: the registrations of       *)
(* table.c, pes.c and scte.c, the classification of a packet in ts_proc    *)
(* (ts.c), and their life from init_pid_processor to free_tables and       *)
(* uninit_pid_processor.                                                   *)
(*                                                                         *)
(* The program goes through this life once; the Python binding             *)
(* (pybind/binding.cpp: init, run, result, deinit) any number of times in  *)
(* one process, and the statics of pes.c and scte.c survive in between.    *)
(*                                                                         *)
(* The filter registry is what FilterRegistry promises, a set of filters;  *)
(* `key` tells apart filters that are otherwise equal (the PMT filters of  *)
(* the programs and PAT versions that share a PID).  Units are whole:      *)
(* reassembly is SectionParser, versions and sections are Table.  A PAT is *)
(* decoded once per version, a PMT PID once (Table says why), and a unit   *)
(* that registers nothing is a stuttering step.  Streams are consistent: a *)
(* PID has one role, and is announced in that role.  Allocation is taken   *)
(* to succeed, and NUM_FILTER_MAX is out of reach.                         *)
(***************************************************************************)
EXTENDS Naturals, FiniteSets

CONSTANTS
  EsPids,      \* PIDs a PAT or a PMT can name, from 0x20 up
  Programs,    \* program numbers; 0 stands for the network PID
  Streams,     \* streams that may be analysed: the role of every EsPid
  Selected,    \* PIDs given with -p
  Detail,      \* -d was given
  ScteMax,     \* SCTE_MAX_PID_NUM (8)
  MaxVersions, \* bound on the versions of the PAT
  MaxSessions  \* bound on init/deinit cycles in one process

PAT_PID == 0
CAT_PID == 1
TSDT_PID == 2
NIT_PID == 16
SDT_PID == 17
EIT_PID == 18
TDT_PID == 20
MGT_PID == 8187
NULL_PID == 8191

PMT_TID == 2
SCTE_SPLICE_TID == 252
PES_START == 0      \* first byte of packet_start_code_prefix

Roles == {"pmt", "section", "scte", "pes"}

ASSUME DemuxConstants ==
  /\ EsPids \subseteq 32 .. (MGT_PID - 1)
  /\ IsFiniteSet(EsPids) /\ IsFiniteSet(Programs)
  /\ Streams \subseteq [EsPids -> Roles]
  /\ Programs \subseteq Nat
  /\ Selected \subseteq 0 .. (NULL_PID - 1)
  /\ Detail \in BOOLEAN
  /\ ScteMax \in Nat /\ MaxVersions \in Nat /\ MaxSessions \in Nat

VARIABLES
  phase,    \* "off" before init and after deinit, or "run"
  sessions, \* number of inits
  stream,   \* the stream that is analysed
  reg,      \* registered filters
  pmtBit,   \* psi.pmt_bitmap
  secBit,   \* psi.section_bitmap
  nodes,    \* program nodes of every PAT version
  version,  \* PAT versions so far
  pmtSeen,  \* PMT PIDs whose section was decoded
  esBit,    \* pes.pid_bitmap
  esList,   \* PIDs in pes.list
  esMem,    \* pes.list: "null", "live" or "freed"
  scteBit,  \* scte.pid_bitmap
  scteList, \* PIDs in scte.list[0 .. pid_num-1]
  told,     \* ghost: PIDs the decoded PMTs of this session announced
  fault     \* "no", or what brought the process down

psi == <<pmtBit, secBit, nodes, version, pmtSeen>>
pes == <<esBit, esList, esMem>>
scte == <<scteBit, scteList>>
vars == <<phase, sessions, stream, reg, pmtBit, secBit, nodes, version, pmtSeen,
          esBit, esList, esMem, scteBit, scteList, told, fault>>

-----------------------------------------------------------------------------
(* Filters *)

Filt(p, t, m, cb, key) == [pid |-> p, tid |-> t, mask |-> m, cb |-> cb, key |-> key]

NoKey == <<0, 0>>

Std(p, t, m, cb) == Filt(p, t, m, cb, NoKey)

\* The filters of init_table_ops
Standard ==
  {Std(PAT_PID, 0, 255, "pat_proc"), Std(CAT_PID, 1, 255, "cat_proc"),
   Std(TSDT_PID, 3, 255, "tsdt_proc"),
   Std(NIT_PID, 64, 254, "nit_proc"), Std(EIT_PID, 78, 254, "eit_proc")}
  \cup {Std(SDT_PID, t, 255, "sdt_bat_proc") : t \in {66, 70, 74}}
  \cup {Std(TDT_PID, t, 255, "tdt_tot_proc") : t \in {112, 115}}
  \cup {Std(MGT_PID, t, 255, "atsc_psip_proc") :
          t \in {199, 200, 201, 202, 203, 204, 205, 211, 212}}

PmtFilter(x) == Filt(x.pid, PMT_TID, 255, "pmt_proc", <<x.version, x.program>>)
SectionFilter(p) == Std(p, 0, 255, "default_proc")
ScteFilter(p) == Std(p, SCTE_SPLICE_TID, 255, "scte_proc")
PesFilter(p) == Std(p, 0, 0, "pes_proc")
SelectedFilter(p) == Std(p, 0, 0, "default_proc")

SamePara(f, g) == f.pid = g.pid /\ f.tid = g.tid /\ f.mask = g.mask

Count(S, f) == Cardinality({g \in S : SamePara(f, g)})

\* Filters that go when filter_lookup and filter_free are called once for
\* each request: all of the same parameters, or the -p filter if there are
\* more filters than requests, for it was registered first.
Freed(requests) ==
  {f \in reg : \/ Count(requests, f) >= Count(reg, f)
               \/ Count(requests, f) > 0 /\ f.cb = "default_proc"}

\* filter_match, as in Filter
Match(f, t) ==
  \/ f.mask = 255 /\ f.tid = t
  \/ f.mask = 254 /\ f.tid \div 2 = t \div 2
  \/ f.mask = 0

-----------------------------------------------------------------------------
(* ts_proc: classification and dispatch of a unit *)

check_es_pid(p) == Detail /\ p \in esBit

\* Mutant: check_section_pid is left out
Class_nosection(p) ==
  IF p = NULL_PID THEN "none"
  ELSE IF p < 32 \/ p \in pmtBit THEN "psi"
  ELSE IF check_es_pid(p) THEN "pes" ELSE "none"

Class(p) ==
  IF p = NULL_PID THEN "none"
  ELSE IF p < 32 \/ p \in pmtBit \/ p \in secBit THEN "psi"
  ELSE IF check_es_pid(p) THEN "pes" ELSE "none"

\* What default_proc hands a section to
default_proc(p) ==
  CASE p = PAT_PID -> "pat_proc" [] p = CAT_PID -> "cat_proc"
    [] p = NIT_PID -> "nit_proc" [] p = EIT_PID -> "eit_proc"
    [] p = SDT_PID -> "sdt_bat_proc" [] p = TDT_PID -> "tdt_tot_proc"
    [] OTHER -> "none"

\* Who decodes a unit on p that begins with byte t
Decoders(p, t) ==
  {IF f.cb = "default_proc" THEN default_proc(p) ELSE f.cb :
     f \in {g \in reg : g.pid = p /\ Match(g, t) /\ Class(p) # "none"}} \ {"none"}

-----------------------------------------------------------------------------
(* init_pid_processor, the handlers, free_tables and uninit_pid_processor *)

Init ==
  /\ phase = "off" /\ sessions = 0 /\ stream \in Streams
  /\ reg = {}
  /\ pmtBit = {} /\ secBit = {} /\ nodes = {} /\ version = 0 /\ pmtSeen = {}
  /\ esBit = {} /\ esList = {} /\ esMem = "null"
  /\ scteBit = {} /\ scteList = {}
  /\ told = {} /\ fault = "no"

\* filter_init and init_table_ops: the registry and psi start afresh, pes and
\* scte do not.
InitPidProcessor(s) ==
  /\ phase = "off"
  /\ fault = "no"
  /\ sessions < MaxSessions
  /\ phase' = "run" /\ sessions' = sessions + 1 /\ stream' = s
  /\ reg' = IF Selected # {} THEN {SelectedFilter(p) : p \in Selected} ELSE Standard
  /\ secBit' = IF Selected # {} THEN {} ELSE {MGT_PID}
  /\ pmtBit' = {} /\ nodes' = {} /\ version' = 0 /\ pmtSeen' = {}
  /\ told' = {}
  /\ UNCHANGED <<pes, scte, fault>>

NewNodes(progs) ==
  {[version |-> version + 1, program |-> n, pid |-> progs[n]] : n \in DOMAIN progs}

\* Mutant: a PID that has a PMT filter gets no other
PmtFilters_once(pmts) == {PmtFilter(x) : x \in {y \in pmts : y.pid \notin pmtBit}}

\* register_pmt_ops adds a filter for every program of every version.
PmtFilters(pmts) == {PmtFilter(x) : x \in pmts}

\* parse_pat of a new version with these programs, each registered by
\* register_pmt_ops
ReceivePat(progs) ==
  /\ phase = "run" /\ fault = "no"
  /\ "pat_proc" \in Decoders(PAT_PID, 0)
  /\ version < MaxVersions
  /\ LET pmts == {x \in NewNodes(progs) : x.pid # NIT_PID}
     IN  /\ pmtBit' = pmtBit \cup {x.pid : x \in pmts}
         /\ reg' = reg \cup PmtFilters(pmts)
  /\ nodes' = nodes \cup NewNodes(progs)
  /\ version' = version + 1
  /\ UNCHANGED <<phase, sessions, stream, secBit, pmtSeen, pes, scte, told, fault>>

\* register_scte_ops adds the splice PIDs it is asked for until scte.list is
\* full.
ScteRoom(splice, wanted) ==
  /\ Cardinality(scteList) + Cardinality(splice) <= ScteMax
  /\ splice = wanted \/ Cardinality(scteList) + Cardinality(splice) = ScteMax

\* parse_pmt of the section on p, which lists the elementary streams es:
\* register_section_ops, register_scte_ops and register_pes_ops.  If there
\* are more SCTE streams than room, the first ones get it (any, here).
ReceivePmt(p, es) ==
  /\ phase = "run" /\ fault = "no"
  /\ "pmt_proc" \in Decoders(p, PMT_TID)
  /\ p \notin pmtSeen
  /\ pmtSeen' = pmtSeen \cup {p}
  /\ told' = told \cup es
  /\ \E splice \in SUBSET {q \in es : stream[q] = "scte" /\ q \notin scteBit} :
       LET wanted == {q \in es : stream[q] = "scte" /\ q \notin scteBit}
           plain  == {q \in es : stream[q] = "section" /\ q \notin secBit}
           found  == {q \in es : stream[q] = "pes" /\ q \notin esBit}
           ssec   == splice \ secBit
       IN  /\ ScteRoom(splice, wanted)
           /\ scteBit' = scteBit \cup splice
           /\ scteList' = scteList \cup splice
           /\ secBit' = secBit \cup plain \cup ssec
           /\ esBit' = esBit \cup found
           /\ esList' = esList \cup found
           /\ esMem' = IF found = {} THEN esMem ELSE "live"
           /\ fault' = IF found # {} /\ esMem = "freed" THEN "realloc" ELSE "no"
           /\ reg' = reg \cup {SectionFilter(q) : q \in plain}
                         \cup {ScteFilter(q) : q \in ssec}
                         \cup {PesFilter(q) : q \in found}
  /\ UNCHANGED <<phase, sessions, stream, pmtBit, nodes, version>>

\* Mutant: free_tables only walks the current PAT
Unregistered_current ==
  {PmtFilter(x) : x \in {y \in nodes : y.version = version}}
  \cup {ScteFilter(p) : p \in scteList} \cup {PesFilter(p) : p \in esList} \cup Standard

\* Every lookup that free_tables and uninit_table_ops make
Unregistered ==
  {PmtFilter(x) : x \in nodes}
  \cup {ScteFilter(p) : p \in scteList} \cup {PesFilter(p) : p \in esList} \cup Standard

\* free_tables, unregister_scte_ops, unregister_pes_ops, uninit_table_ops
FreeAndUninit ==
  /\ phase = "run" /\ fault = "no"
  /\ phase' = "off"
  /\ reg' = reg \ Freed(Unregistered)
  /\ pmtBit' = {} /\ nodes' = {}
  /\ scteList' = {}
  /\ esList' = {}
  /\ esMem' = IF esMem = "null" THEN "null" ELSE "freed"
  /\ told' = {}
  /\ UNCHANGED <<sessions, stream, secBit, version, pmtSeen, esBit, scteBit, fault>>

PmtPids == {p \in EsPids : stream[p] = "pmt"}

\* A PAT names PMT PIDs, and the network PID for program 0.
Pats ==
  UNION {{f \in [S -> PmtPids \cup {NIT_PID}] :
            \A n \in S : (n = 0) <=> (f[n] = NIT_PID)} : S \in SUBSET Programs}

Next ==
  \/ \E s \in Streams : InitPidProcessor(s)
  \/ \E progs \in Pats : ReceivePat(progs)
  \/ \E p \in PmtPids, es \in SUBSET (EsPids \ PmtPids) : ReceivePmt(p, es)
  \/ FreeAndUninit

Spec == Init /\ [][Next]_vars

-----------------------------------------------------------------------------
(* Properties *)

Node == [version : 1 .. MaxVersions, program : Programs, pid : EsPids \cup {NIT_PID}]

\* In the first init/run/deinit cycle of a process (the program has no other)
\* every program of every PAT version has its PMT decoded, every splice
\* stream (as far as scte.list reaches) its splice sections, and, with -d,
\* every elementary stream its PES packets; and nobody else gets a PES
\* packet.  Two bitmaps, two lists and the registry have to agree on it.
Delivered ==
  phase = "run" /\ fault = "no" /\ sessions = 1 =>
    /\ \A x \in nodes : x.pid # NIT_PID => "pmt_proc" \in Decoders(x.pid, PMT_TID)
    /\ \A p \in told :
         stream[p] = "pes" /\ Detail =>
           Class(p) = "pes" /\ Decoders(p, PES_START) = {"pes_proc"}
    /\ Cardinality({p \in told : stream[p] = "scte"}) <= ScteMax =>
         \A p \in told : stream[p] = "scte" => "scte_proc" \in Decoders(p, SCTE_SPLICE_TID)

\* After free_tables and uninit_pid_processor the only filters left are those
\* of private-section and -p PIDs, which nothing unregisters: every filter
\* added by any PAT version, by a PMT or by init_table_ops was found again and
\* freed, in every cycle.
Released == phase = "off" => \A f \in reg : f.cb = "default_proc"

\* One PMT filter per program node, no matter how many programs and PAT
\* versions share its PID: what register_pmt_ops adds is exactly what
\* free_tables looks up again.
PmtBalanced ==
  {f \in reg : f.cb = "pmt_proc"} = {PmtFilter(x) : x \in {y \in nodes : y.pid # NIT_PID}}

=============================================================================
