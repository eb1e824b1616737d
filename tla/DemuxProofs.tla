---------------------------- MODULE DemuxProofs ----------------------------
(***************************************************************************)
(* Proofs about Demux for every set of PIDs, programs and streams, and any *)
(* number of PAT versions and of init/deinit cycles.  Without -p the PMT   *)
(* filters are at any time those of the program nodes, and deinit finds    *)
(* every filter again but those of private-section PIDs.  With or without  *)
(* -p, in the first cycle every unit reaches its decoder.                  *)
(*                                                                         *)
(* Deinit frees a filter when it makes at least as many lookups with its   *)
(* parameters as there are filters with them (Freed), so the argument is   *)
(* one about cardinalities: every filter with these parameters is itself   *)
(* among the lookups, and the lookups are finitely many.                   *)
(***************************************************************************)
EXTENDS Demux, FiniteSetTheorems, FunctionTheorems, TLAPS

(* The filter of a private-section PID, which nothing looks up again *)
Private(f) == f.cb = "default_proc" /\ f.pid \in EsPids /\ f.tid = 0 /\ f.mask = 255

DemuxInv ==
  /\ phase \in {"off", "run"}
  /\ IsFiniteSet(nodes) /\ scteList \subseteq EsPids /\ esList \subseteq EsPids
  /\ \A f \in reg : f \in Unregistered \/ Private(f)
  /\ PmtBalanced
  /\ Released

-----------------------------------------------------------------------------
(* Finiteness of what is looked up *)

\* The image of a finite set under a function is finite.
LEMMA FiniteImage ==
  ASSUME NEW S, IsFiniteSet(S), NEW F
  PROVE  IsFiniteSet({F[x] : x \in S})
<1> DEFINE T == {F[x] : x \in S}
           g == [x \in S |-> F[x]]
<1>1. g \in Surjection(S, T)
  BY DEF Surjection
<1> QED
  BY <1>1, FS_Surjection

\* Finitely many table ids
LEMMA FiniteTids ==
  ASSUME NEW T \in SUBSET (0 .. 255)
  PROVE  IsFiniteSet(T)
<1>1. 0 \in Int /\ 255 \in Int
  OBVIOUS
<1>2. IsFiniteSet(0 .. 255)
  BY ONLY <1>1, FS_Interval
<1> QED
  BY <1>2, FS_Subset

\* The standard filters of init_table_ops are finitely many.
LEMMA StandardFinite == IsFiniteSet(Standard)
<1> DEFINE ta == {66, 70, 74}
           tb == {112, 115}
           tc == {199, 200, 201, 202, 203, 204, 205, 211, 212}
           fa == [t \in ta |-> Std(SDT_PID, t, 255, "sdt_bat_proc")]
           fb == [t \in tb |-> Std(TDT_PID, t, 255, "tdt_tot_proc")]
           fc == [t \in tc |-> Std(MGT_PID, t, 255, "atsc_psip_proc")]
           A == {fa[t] : t \in ta}
           B == {fb[t] : t \in tb}
           C == {fc[t] : t \in tc}
           d1 == Std(PAT_PID, 0, 255, "pat_proc")
           d2 == Std(CAT_PID, 1, 255, "cat_proc")
           d3 == Std(TSDT_PID, 3, 255, "tsdt_proc")
           d4 == Std(NIT_PID, 64, 254, "nit_proc")
           d5 == Std(EIT_PID, 78, 254, "eit_proc")
<1>4. Standard = ((((((A \cup B) \cup C) \cup {d1}) \cup {d2}) \cup {d3}) \cup {d4}) \cup {d5}
  BY DEF Standard
<1>0. ta \in SUBSET (0 .. 255) /\ tb \in SUBSET (0 .. 255) /\ tc \in SUBSET (0 .. 255)
  OBVIOUS
<1> HIDE DEF ta, tb, tc, fa, fb, fc
<1>1. IsFiniteSet(A)
  <2>1. IsFiniteSet(ta)
    BY <1>0, FiniteTids
  <2> QED
    BY <2>1, FiniteImage
<1>2. IsFiniteSet(B)
  <2>1. IsFiniteSet(tb)
    BY <1>0, FiniteTids
  <2> QED
    BY <2>1, FiniteImage
<1>3. IsFiniteSet(C)
  <2>1. IsFiniteSet(tc)
    BY <1>0, FiniteTids
  <2> QED
    BY <2>1, FiniteImage
<1> HIDE DEF A, B, C, d1, d2, d3, d4, d5
<1>5. IsFiniteSet(A \cup B)
  BY <1>1, <1>2, FS_Union
<1>6. IsFiniteSet((A \cup B) \cup C)
  BY <1>3, <1>5, FS_Union
<1>7. \A S, x : IsFiniteSet(S) => IsFiniteSet(S \cup {x})
  BY FS_AddElement
<1> QED
  BY <1>4, <1>6, <1>7

\* Everything free_tables and uninit_table_ops look up is finite.
LEMMA UnregisteredFinite ==
  ASSUME IsFiniteSet(nodes), scteList \subseteq EsPids, esList \subseteq EsPids
  PROVE  IsFiniteSet(Unregistered)
<1> DEFINE fp == [x \in nodes |-> PmtFilter(x)]
           fs == [p \in scteList |-> ScteFilter(p)]
           fe == [p \in esList |-> PesFilter(p)]
           P == {fp[x] : x \in nodes}
           S == {fs[p] : p \in scteList}
           E == {fe[p] : p \in esList}
<1>1. IsFiniteSet(scteList) /\ IsFiniteSet(esList)
  BY FS_Subset, DemuxConstants
<1>3. Unregistered = P \cup S \cup E \cup Standard
  BY DEF Unregistered
<1> HIDE DEF fp, fs, fe
<1>4. IsFiniteSet(P)
  BY FiniteImage
<1>5. IsFiniteSet(S)
  BY <1>1, FiniteImage
<1>6. IsFiniteSet(E)
  BY <1>1, FiniteImage
<1> HIDE DEF P, S, E
<1>7. IsFiniteSet(P \cup S)
  BY <1>4, <1>5, FS_Union
<1>8. IsFiniteSet((P \cup S) \cup E)
  BY <1>6, <1>7, FS_Union
<1> QED
  BY <1>3, <1>8, StandardFinite, FS_Union

\* A filter goes when every filter with its parameters is among the lookups.
LEMMA AllFreed ==
  ASSUME IsFiniteSet(Unregistered), NEW f \in reg,
         \A g \in reg : SamePara(f, g) => g \in Unregistered
  PROVE  f \in Freed(Unregistered)
<1> DEFINE X == {g \in reg : SamePara(f, g)}
           Y == {g \in Unregistered : SamePara(f, g)}
<1>1. X \in SUBSET Y /\ Y \in SUBSET Unregistered
  OBVIOUS
<1>2. IsFiniteSet(Y)
  BY <1>1, FS_Subset
<1>3. Cardinality(X) <= Cardinality(Y) /\ Cardinality(X) \in Nat /\ Cardinality(Y) \in Nat
  BY <1>1, <1>2, FS_Subset, FS_CardinalityType
<1>4. Count(Unregistered, f) >= Count(reg, f)
  BY <1>3 DEF Count
<1> QED
  BY <1>4 DEF Freed

-----------------------------------------------------------------------------
(* The steps *)

\* No lookup has the parameters of a private-section filter.
LEMMA PrivateApart ==
  ASSUME NEW f \in Unregistered, NEW g, Private(g)
  PROVE  ~SamePara(f, g)
<1> SUFFICES ASSUME SamePara(f, g) PROVE FALSE
  OBVIOUS
<1>1. f.pid \in EsPids /\ f.tid = 0 /\ f.mask = 255
  BY DEF SamePara, Private
<1>2. \A q \in {PAT_PID, CAT_PID, TSDT_PID, NIT_PID, EIT_PID, SDT_PID, TDT_PID, MGT_PID} :
        q \notin EsPids
  BY DemuxConstants DEF PAT_PID, CAT_PID, TSDT_PID, NIT_PID, EIT_PID, SDT_PID, TDT_PID,
                        MGT_PID
<1>3. CASE f \in Standard
  <2>1. f.pid \in {PAT_PID, CAT_PID, TSDT_PID, NIT_PID, EIT_PID, SDT_PID, TDT_PID, MGT_PID}
    BY <1>3 DEF Standard, Std, Filt
  <2> QED
    BY <1>1, <1>2, <2>1, Zenon
<1>4. CASE f \in {PmtFilter(x) : x \in nodes}
  BY <1>1, <1>4 DEF PmtFilter, Filt, PMT_TID
<1>5. CASE f \in {ScteFilter(p) : p \in scteList}
  BY <1>1, <1>5 DEF ScteFilter, Std, Filt, SCTE_SPLICE_TID
<1>6. CASE f \in {PesFilter(p) : p \in esList}
  BY <1>1, <1>6 DEF PesFilter, Std, Filt
<1> QED
  BY <1>3, <1>4, <1>5, <1>6 DEF Unregistered

\* Only register_pmt_ops adds PMT filters.
LEMMA Callbacks ==
  /\ \A x : PmtFilter(x).cb = "pmt_proc"
  /\ \A p : ScteFilter(p).cb = "scte_proc" /\ PesFilter(p).cb = "pes_proc"
  /\ \A p : SectionFilter(p).cb = "default_proc"
  /\ \A f \in Standard : f.cb # "pmt_proc"
<1>1. \A f \in Standard : f.cb # "pmt_proc"
  BY DEF Standard, Std, Filt
<1> QED
  BY <1>1 DEF PmtFilter, ScteFilter, PesFilter, SectionFilter, Std, Filt

\* The nodes of a new PAT version are finitely many.
LEMMA NewNodesFinite ==
  ASSUME NEW progs \in Pats
  PROVE  IsFiniteSet(NewNodes(progs))
<1> DEFINE F == [n \in DOMAIN progs |->
                   [version |-> version + 1, program |-> n, pid |-> progs[n]]]
<1>1. DOMAIN progs \in SUBSET Programs
  BY DEF Pats
<1>2. IsFiniteSet(DOMAIN progs)
  BY <1>1, FS_Subset, DemuxConstants
<1>3. NewNodes(progs) = {F[n] : n \in DOMAIN progs}
  BY DEF NewNodes
<1> HIDE DEF F
<1> QED
  BY <1>2, <1>3, FiniteImage

\* init_pid_processor starts with the standard filters.
LEMMA InitPreserves ==
  ASSUME Selected = {}, DemuxInv, NEW s \in Streams, InitPidProcessor(s)
  PROVE  DemuxInv'
<1>1. /\ phase' = "run" /\ reg' = Standard /\ nodes' = {}
      /\ scteList' = scteList /\ esList' = esList
  BY DEF InitPidProcessor, scte, pes
<1>2. PmtBalanced'
  BY <1>1, Callbacks DEF PmtBalanced
<1>3. \A f \in reg' : f \in Unregistered'
  BY <1>1 DEF Unregistered
<1> QED
  BY <1>1, <1>2, <1>3, FS_EmptySet DEF DemuxInv, Released

\* A PAT adds a filter for each of its programs, whatever is registered.
LEMMA PatPreserves ==
  ASSUME DemuxInv, NEW progs \in Pats, ReceivePat(progs)
  PROVE  DemuxInv'
<1> DEFINE new == NewNodes(progs)
           pmts == {x \in new : x.pid # NIT_PID}
<1>1. /\ phase' = "run" /\ reg' = reg \cup {PmtFilter(x) : x \in pmts}
      /\ nodes' = nodes \cup new
      /\ scteList' = scteList /\ esList' = esList
  BY DEF ReceivePat, PmtFilters, scte, pes
<1>2. IsFiniteSet(nodes')
  BY <1>1, NewNodesFinite, FS_Union DEF DemuxInv
<1> HIDE DEF new
<1>3. \A f \in reg' : f \in Unregistered' \/ Private(f)
  BY <1>1 DEF DemuxInv, Unregistered
<1>4. PmtBalanced'
  BY <1>1, Callbacks DEF DemuxInv, PmtBalanced
<1> QED
  BY <1>1, <1>2, <1>3, <1>4 DEF DemuxInv, Released

\* A PMT adds filters that deinit finds in the lists of pes.c and scte.c, and
\* private-section filters.
LEMMA PmtPreserves ==
  ASSUME DemuxInv, NEW p \in PmtPids, NEW es \in SUBSET (EsPids \ PmtPids),
         ReceivePmt(p, es)
  PROVE  DemuxInv'
<1>1. PICK splice, plain, found, ssec \in SUBSET EsPids :
        /\ ssec \subseteq splice
        /\ scteList' = scteList \cup splice
        /\ esList' = esList \cup found
        /\ reg' = reg \cup {SectionFilter(q) : q \in plain}
                      \cup {ScteFilter(q) : q \in ssec}
                      \cup {PesFilter(q) : q \in found}
  <2>1. PICK splice \in SUBSET {q \in es : stream[q] = "scte" /\ q \notin scteBit} :
          LET plain == {q \in es : stream[q] = "section" /\ q \notin secBit}
              found == {q \in es : stream[q] = "pes" /\ q \notin esBit}
              ssec  == splice \ secBit
          IN  /\ scteList' = scteList \cup splice
              /\ esList' = esList \cup found
              /\ reg' = reg \cup {SectionFilter(q) : q \in plain}
                            \cup {ScteFilter(q) : q \in ssec}
                            \cup {PesFilter(q) : q \in found}
    BY DEF ReceivePmt
  <2> DEFINE plain == {q \in es : stream[q] = "section" /\ q \notin secBit}
             found == {q \in es : stream[q] = "pes" /\ q \notin esBit}
             ssec  == splice \ secBit
  <2>2. /\ splice \in SUBSET EsPids /\ plain \in SUBSET EsPids
        /\ found \in SUBSET EsPids /\ ssec \in SUBSET EsPids /\ ssec \subseteq splice
    OBVIOUS
  <2> QED
    BY <2>1, <2>2
<1>2. phase' = "run" /\ nodes' = nodes
  BY DEF ReceivePmt
<1>3. ASSUME NEW f \in reg' PROVE f \in Unregistered' \/ Private(f)
  <2>1. CASE f \in reg
    BY <1>1, <1>2, <2>1 DEF DemuxInv, Unregistered
  <2>2. CASE f \in {SectionFilter(q) : q \in plain}
    BY <2>2 DEF SectionFilter, Std, Filt, Private
  <2>3. CASE f \in {ScteFilter(q) : q \in ssec} \/ f \in {PesFilter(q) : q \in found}
    BY <1>1, <2>3 DEF Unregistered
  <2> QED
    BY <1>1, <1>3, <2>1, <2>2, <2>3
<1>4. {f \in reg' : f.cb = "pmt_proc"} = {f \in reg : f.cb = "pmt_proc"}
  BY <1>1, Callbacks
<1>5. PmtBalanced'
  BY <1>2, <1>4 DEF DemuxInv, PmtBalanced
<1> QED
  BY <1>1, <1>2, <1>3, <1>5 DEF DemuxInv, Released

\* Deinit leaves private-section filters only.
LEMMA FreePreserves ==
  ASSUME DemuxInv, FreeAndUninit
  PROVE  DemuxInv'
<1>1. /\ phase' = "off" /\ reg' = reg \ Freed(Unregistered) /\ nodes' = {}
      /\ scteList' = {} /\ esList' = {}
  BY DEF FreeAndUninit
<1>2. IsFiniteSet(Unregistered)
  BY UnregisteredFinite DEF DemuxInv
<1>3. ASSUME NEW f \in reg' PROVE Private(f)
  <2> SUFFICES ASSUME ~Private(f) PROVE FALSE
    OBVIOUS
  <2>1. f \in reg /\ f \in Unregistered /\ f \notin Freed(Unregistered)
    BY <1>1, <1>3 DEF DemuxInv
  <2>2. \A g \in reg : SamePara(f, g) => g \in Unregistered
    BY <2>1, PrivateApart DEF DemuxInv
  <2> QED
    BY <1>2, <2>1, <2>2, AllFreed
<1>4. \A f \in reg' : f.cb = "default_proc"
  BY <1>3 DEF Private
<1>5. PmtBalanced'
  BY <1>1, <1>4 DEF PmtBalanced
<1> QED
  BY <1>1, <1>3, <1>4, <1>5, FS_EmptySet DEF DemuxInv, Released

\* The invariant holds throughout, without -p.
LEMMA DemuxInvariance == ASSUME Selected = {} PROVE Spec => []DemuxInv
<1>1. Init => DemuxInv
  <2> SUFFICES ASSUME Init PROVE DemuxInv
    OBVIOUS
  <2>1. phase = "off" /\ reg = {} /\ nodes = {} /\ scteList = {} /\ esList = {}
    BY DEF Init
  <2> QED
    BY <2>1, FS_EmptySet DEF DemuxInv, PmtBalanced, Released
<1>2. DemuxInv /\ [Next]_vars => DemuxInv'
  <2> SUFFICES ASSUME DemuxInv, [Next]_vars PROVE DemuxInv'
    OBVIOUS
  <2>1. ASSUME NEW s \in Streams, InitPidProcessor(s) PROVE DemuxInv'
    BY <2>1, InitPreserves
  <2>2. ASSUME NEW progs \in Pats, ReceivePat(progs) PROVE DemuxInv'
    BY <2>2, PatPreserves
  <2>3. ASSUME NEW p \in PmtPids, NEW es \in SUBSET (EsPids \ PmtPids), ReceivePmt(p, es)
        PROVE  DemuxInv'
    BY <2>3, PmtPreserves
  <2>4. CASE FreeAndUninit
    BY <2>4, FreePreserves
  <2>5. CASE UNCHANGED vars
    BY <2>5 DEF vars, DemuxInv, PmtBalanced, Released, Unregistered
  <2> QED
    BY <2>1, <2>2, <2>3, <2>4, <2>5 DEF Next
<1> QED
  BY <1>1, <1>2, PTL DEF Spec

\* Without -p, the PMT filters registered are at any time exactly those of
\* the program nodes of all PAT versions, however many programs and versions
\* share a PID.
THEOREM PmtFiltersBalanced == ASSUME Selected = {} PROVE Spec => []PmtBalanced
<1>1. DemuxInv => PmtBalanced
  BY DEF DemuxInv
<1> QED
  BY <1>1, DemuxInvariance, PTL

\* Without -p, after deinit only the filters of private-section PIDs are
\* left: for any streams, any number of PAT versions and any number of
\* init/deinit cycles.
THEOREM FiltersReleased == ASSUME Selected = {} PROVE Spec => []Released
<1>1. DemuxInv => Released
  BY DEF DemuxInv
<1> QED
  BY <1>1, DemuxInvariance, PTL

-----------------------------------------------------------------------------
(* Delivery in the first cycle *)

Role(r) == {p \in told : stream[p] = r}

\* What the bitmaps, the lists and the registry say of each other in the
\* first run of a process
FirstRun ==
  /\ told \subseteq EsPids \ PmtPids
  /\ pmtBit \subseteq PmtPids
  /\ \A x \in nodes : x.pid # NIT_PID => x.pid \in pmtBit /\ PmtFilter(x) \in reg
  /\ secBit \subseteq {MGT_PID} \cup Role("section") \cup scteBit
  /\ scteBit \subseteq Role("scte") /\ scteBit \subseteq secBit /\ scteList = scteBit
  /\ \A p \in scteBit : ScteFilter(p) \in reg
  /\ Role("scte") \subseteq scteBit \/ Cardinality(scteBit) = ScteMax
  /\ esBit = Role("pes")
  /\ \A p \in esBit : PesFilter(p) \in reg
  /\ \A f \in reg : f.pid \in EsPids /\ stream[f.pid] = "pes" =>
                      f.cb \in {"pes_proc", "default_proc"}

FirstInv ==
  /\ sessions \in Nat /\ stream \in [EsPids -> Roles]
  /\ sessions = 0 => phase = "off" /\ esBit = {} /\ scteBit = {} /\ scteList = {}
  /\ phase = "run" /\ sessions = 1 => FirstRun

\* The PIDs of elementary streams are apart from the fixed ones.
LEMMA EsPidFacts ==
  ASSUME NEW p \in EsPids
  PROVE  /\ p \in Nat /\ p # NULL_PID /\ ~(p < 32) /\ p # MGT_PID
         /\ default_proc(p) = "none"
<1>1. p \in Int /\ p >= 32 /\ p <= 8186
  BY DemuxConstants DEF MGT_PID
<1>2. p # 0 /\ p # 1 /\ p # 16 /\ p # 17 /\ p # 18 /\ p # 20
  BY <1>1
<1>3. default_proc(p) = "none"
  BY <1>2, Zenon DEF default_proc, PAT_PID, CAT_PID, NIT_PID, EIT_PID, SDT_PID, TDT_PID
<1> QED
  BY <1>1, <1>3 DEF MGT_PID, NULL_PID

\* The filters of init_table_ops are on fixed PIDs.
LEMMA StandardPids == \A f \in Standard : f.pid \notin EsPids
<1>1. \A f \in Standard :
        f.pid \in {PAT_PID, CAT_PID, TSDT_PID, NIT_PID, EIT_PID, SDT_PID, TDT_PID, MGT_PID}
  BY DEF Standard, Std, Filt
<1>2. \A q \in {PAT_PID, CAT_PID, TSDT_PID, NIT_PID, EIT_PID, SDT_PID, TDT_PID, MGT_PID} :
        q \notin EsPids
  BY DemuxConstants DEF PAT_PID, CAT_PID, TSDT_PID, NIT_PID, EIT_PID, SDT_PID, TDT_PID,
                        MGT_PID
<1> QED
  BY <1>1, <1>2, Zenon

\* A filter that matches on a PID that is decoded is a decoder.
LEMMA Decodes ==
  ASSUME NEW f \in reg, NEW t, f.cb # "default_proc", f.cb # "none",
         Match(f, t), Class(f.pid) # "none"
  PROVE  f.cb \in Decoders(f.pid, t)
  BY DEF Decoders

\* init_pid_processor in a fresh process
LEMMA FirstInit ==
  ASSUME FirstInv, NEW s \in Streams, InitPidProcessor(s)
  PROVE  FirstInv'
<1>1. /\ phase' = "run" /\ sessions' = sessions + 1 /\ stream' = s
      /\ pmtBit' = {} /\ nodes' = {} /\ told' = {} /\ secBit' \subseteq {MGT_PID}
      /\ esBit' = esBit /\ scteBit' = scteBit /\ scteList' = scteList
  BY DEF InitPidProcessor, pes, scte
<1>2. \A f \in reg' : f.pid \in EsPids => f.cb = "default_proc"
  <2>1. reg' = {SelectedFilter(p) : p \in Selected} \/ reg' = Standard
    BY DEF InitPidProcessor
  <2>2. \A p : SelectedFilter(p).cb = "default_proc"
    BY DEF SelectedFilter, Std, Filt
  <2> QED
    BY <2>1, <2>2, StandardPids, Zenon
<1>3. ASSUME sessions = 0 PROVE FirstRun'
  <2>1. esBit' = {} /\ scteBit' = {} /\ scteList' = {}
    BY <1>1, <1>3 DEF FirstInv
  <2> QED
    BY <1>1, <1>2, <2>1 DEF FirstRun, Role
<1>4. sessions \in Nat /\ sessions' \in Nat /\ sessions' # 0 /\ (sessions' = 1 => sessions = 0)
  BY <1>1 DEF FirstInv
<1>5. stream' \in [EsPids -> Roles]
  BY <1>1, DemuxConstants
<1> QED
  BY <1>1, <1>3, <1>4, <1>5 DEF FirstInv

\* A PAT registers its programs.
LEMMA FirstPat ==
  ASSUME FirstInv, NEW progs \in Pats, ReceivePat(progs)
  PROVE  FirstInv'
<1> DEFINE new == NewNodes(progs)
           pmts == {x \in new : x.pid # NIT_PID}
<1>1. /\ reg' = reg \cup {PmtFilter(x) : x \in pmts}
      /\ nodes' = nodes \cup new
      /\ pmtBit' = pmtBit \cup {x.pid : x \in pmts}
      /\ UNCHANGED <<phase, sessions, stream, secBit, esBit, scteBit, scteList, told>>
      /\ phase = "run"
  BY DEF ReceivePat, PmtFilters, scte, pes
<1>2. \A x \in pmts : x.pid \in PmtPids
  <2> TAKE x \in pmts
  <2>1. PICK n \in DOMAIN progs : x = [version |-> version + 1, program |-> n, pid |-> progs[n]]
    BY DEF NewNodes
  <2>2. progs[n] \in PmtPids \cup {NIT_PID}
    BY DEF Pats
  <2> QED
    BY <2>1, <2>2
<1> HIDE DEF new
<1>3. \A x \in pmts : PmtFilter(x).pid = x.pid
  BY DEF PmtFilter, Filt
<1>4. ASSUME FirstRun PROVE FirstRun'
  <2>1. \A f \in reg' : f.pid \in EsPids /\ stream[f.pid] = "pes" =>
                          f.cb \in {"pes_proc", "default_proc"}
    <3>1. \A x \in pmts : stream[PmtFilter(x).pid] = "pmt"
      BY <1>2, <1>3 DEF PmtPids
    <3> QED
      BY <1>1, <1>4, <3>1 DEF FirstRun
  <2>2. PmtPids' = PmtPids /\ \A r : Role(r)' = Role(r)
    BY <1>1 DEF PmtPids, Role
  <2>3. \A x \in nodes' : x.pid # NIT_PID => x.pid \in pmtBit' /\ PmtFilter(x) \in reg'
    BY <1>1, <1>4 DEF FirstRun
  <2>4. pmtBit' \subseteq PmtPids
    BY <1>1, <1>2, <1>4 DEF FirstRun
  <2> QED
    BY <1>1, <1>4, <2>1, <2>2, <2>3, <2>4 DEF FirstRun
<1> QED
  BY <1>1, <1>4 DEF FirstInv

\* A PMT registers its streams, the splice streams as far as there is room.
LEMMA FirstPmt ==
  ASSUME FirstInv, NEW p \in PmtPids, NEW es \in SUBSET (EsPids \ PmtPids),
         ReceivePmt(p, es)
  PROVE  FirstInv'
<1> DEFINE wanted == {q \in es : stream[q] = "scte" /\ q \notin scteBit}
           plain  == {q \in es : stream[q] = "section" /\ q \notin secBit}
           found  == {q \in es : stream[q] = "pes" /\ q \notin esBit}
<1>1. PICK splice \in SUBSET wanted :
        /\ ScteRoom(splice, wanted)
        /\ scteBit' = scteBit \cup splice
        /\ scteList' = scteList \cup splice
        /\ secBit' = secBit \cup plain \cup (splice \ secBit)
        /\ esBit' = esBit \cup found
        /\ reg' = reg \cup {SectionFilter(q) : q \in plain}
                      \cup {ScteFilter(q) : q \in splice \ secBit}
                      \cup {PesFilter(q) : q \in found}
  BY DEF ReceivePmt
<1>2. /\ told' = told \cup es /\ phase = "run"
      /\ UNCHANGED <<phase, sessions, stream, pmtBit, nodes>>
  BY DEF ReceivePmt
<1>3. ASSUME FirstRun PROVE FirstRun'
  <2>0. PmtPids' = PmtPids
    BY <1>2 DEF PmtPids
  <2>1. \A r : Role(r)' = Role(r) \cup {q \in es : stream[q] = r}
    BY <1>2 DEF Role
  <2>2. \A q \in es : q \in EsPids /\ q # MGT_PID
    BY EsPidFacts
  <2>3. told' \subseteq EsPids \ PmtPids
    BY <1>2, <1>3 DEF FirstRun
  <2>4. splice \cap secBit = {}
    <3>1. \A q \in splice : q \in es /\ stream[q] = "scte" /\ q \notin scteBit
      BY <1>1
    <3> QED
      BY <1>3, <2>2, <3>1 DEF FirstRun, Role
  <2>5. \A x \in nodes' : x.pid # NIT_PID => x.pid \in pmtBit' /\ PmtFilter(x) \in reg'
    BY <1>1, <1>2, <1>3 DEF FirstRun
  <2>6. secBit' \subseteq {MGT_PID} \cup Role("section")' \cup scteBit'
    BY <1>1, <1>3, <2>1 DEF FirstRun
  <2>7. /\ scteBit' \subseteq Role("scte")' /\ scteBit' \subseteq secBit'
        /\ scteList' = scteBit'
    BY <1>1, <1>3, <2>1 DEF FirstRun
  <2>8. \A q \in scteBit' : ScteFilter(q) \in reg'
    BY <1>1, <1>3, <2>4 DEF FirstRun
  <2>9. Role("scte")' \subseteq scteBit' \/ Cardinality(scteBit)' = ScteMax
    <3>1. IsFiniteSet(scteBit) /\ IsFiniteSet(splice) /\ IsFiniteSet(scteBit')
      <4>1. scteBit \subseteq EsPids /\ splice \subseteq EsPids /\ scteBit' \subseteq EsPids
        BY <1>1, <1>3 DEF FirstRun, Role
      <4> QED
        BY <4>1, FS_Subset, DemuxConstants
    <3>2. scteBit \cap splice = {}
      BY <1>1
    <3>3. Cardinality(scteBit') = Cardinality(scteBit) + Cardinality(splice)
      <4>1. Cardinality(scteBit \cup splice)
              = Cardinality(scteBit) + Cardinality(splice) - Cardinality(scteBit \cap splice)
        BY <3>1, FS_Union
      <4>2. Cardinality(scteBit) \in Nat /\ Cardinality(splice) \in Nat
        BY <3>1, FS_CardinalityType
      <4>3. Cardinality(scteBit \cap splice) = 0
        BY <3>2, FS_EmptySet
      <4> QED
        BY <1>1, <4>1, <4>2, <4>3
    <3>4. splice = wanted \/ Cardinality(scteBit') = ScteMax
      BY <1>1, <1>3, <3>3 DEF ScteRoom, FirstRun
    <3>5. CASE Cardinality(scteBit') = ScteMax
      BY <3>5
    <3>6. CASE splice = wanted /\ Role("scte") \subseteq scteBit
      BY <1>1, <2>1, <3>6
    <3>7. CASE splice = wanted /\ Cardinality(scteBit) = ScteMax
      <4>0. Cardinality(splice) \in Nat /\ ScteMax \in Nat
        BY <3>1, FS_CardinalityType, DemuxConstants
      <4>1. Cardinality(scteBit) + Cardinality(splice) <= ScteMax
        BY <1>1, <1>3 DEF ScteRoom, FirstRun
      <4> QED
        BY <3>3, <3>7, <4>0, <4>1
    <3> QED
      BY <1>3, <3>4, <3>5, <3>6, <3>7 DEF FirstRun
  <2>10. esBit' = Role("pes")'
    BY <1>1, <1>3, <2>1 DEF FirstRun
  <2>11. \A q \in esBit' : PesFilter(q) \in reg'
    BY <1>1, <1>3 DEF FirstRun
  <2>12. ASSUME NEW f \in reg', f.pid \in EsPids, stream[f.pid] = "pes"
         PROVE  f.cb \in {"pes_proc", "default_proc"}
    <3>1. CASE f \in reg
      BY <1>3, <2>12, <3>1 DEF FirstRun
    <3>2. CASE f \in {SectionFilter(q) : q \in plain} \cup {PesFilter(q) : q \in found}
      BY <3>2, Callbacks
    <3>3. CASE f \in {ScteFilter(q) : q \in splice \ secBit}
      <4>1. PICK q \in splice : f = ScteFilter(q)
        BY <3>3
      <4>2. f.pid = q /\ stream[q] = "scte"
        BY <1>1, <4>1 DEF ScteFilter, Std, Filt
      <4> QED
        BY <2>12, <4>2
    <3> QED
      BY <1>1, <2>12, <3>1, <3>2, <3>3
  <2>13. pmtBit' \subseteq PmtPids'
    BY <1>2, <1>3, <2>0 DEF FirstRun
  <2> QED
    BY <1>2, <2>0, <2>3, <2>5, <2>6, <2>7, <2>8, <2>9, <2>10, <2>11, <2>12, <2>13 DEF FirstRun
<1> QED
  BY <1>2, <1>3 DEF FirstInv

\* What FirstRun says of the bitmaps and filters is what ts_proc needs to
\* find each unit's decoder.
LEMMA FirstRunDelivers ==
  ASSUME FirstInv, phase = "run", sessions = 1
  PROVE  Delivered
<1>0. FirstRun /\ stream \in [EsPids -> Roles]
  BY DEF FirstInv
<1>1. ASSUME NEW x \in nodes, x.pid # NIT_PID
      PROVE  "pmt_proc" \in Decoders(x.pid, PMT_TID)
  <2>1. /\ x.pid \in pmtBit /\ x.pid \in EsPids /\ PmtFilter(x) \in reg
    BY <1>0, <1>1 DEF FirstRun, PmtPids
  <2>2. /\ PmtFilter(x).cb = "pmt_proc" /\ PmtFilter(x).pid = x.pid
        /\ Match(PmtFilter(x), PMT_TID)
    BY DEF PmtFilter, Filt, Match
  <2>3. Class(x.pid) = "psi"
    BY <2>1, EsPidFacts DEF Class
  <2> QED
    BY <2>1, <2>2, <2>3, Decodes
<1>2. ASSUME NEW p \in told, stream[p] = "pes", Detail
      PROVE  Class(p) = "pes" /\ Decoders(p, PES_START) = {"pes_proc"}
  <2>1. p \in EsPids /\ p \in esBit /\ p \notin pmtBit /\ p \notin secBit /\ PesFilter(p) \in reg
    BY <1>0, <1>2, EsPidFacts DEF FirstRun, Role, PmtPids
  <2>2. Class(p) = "pes"
    BY <1>2, <2>1, EsPidFacts DEF Class, check_es_pid
  <2>3. PesFilter(p).cb = "pes_proc" /\ PesFilter(p).pid = p /\ Match(PesFilter(p), PES_START)
    BY DEF PesFilter, Std, Filt, Match
  <2>4. "pes_proc" \in Decoders(p, PES_START)
    BY <2>1, <2>2, <2>3, Decodes
  <2>5. ASSUME NEW c \in Decoders(p, PES_START) PROVE c = "pes_proc"
    <3>1. PICK f \in reg : /\ f.pid = p /\ c # "none"
                           /\ c = IF f.cb = "default_proc" THEN default_proc(p) ELSE f.cb
      BY <2>5 DEF Decoders
    <3>2. f.cb \in {"pes_proc", "default_proc"}
      BY <1>0, <1>2, <2>1, <3>1 DEF FirstRun
    <3> QED
      BY <2>1, <3>1, <3>2, EsPidFacts
  <2> QED
    BY <2>2, <2>4, <2>5
<1>3. ASSUME Cardinality(Role("scte")) <= ScteMax, NEW p \in told, stream[p] = "scte"
      PROVE  "scte_proc" \in Decoders(p, SCTE_SPLICE_TID)
  <2>1. Role("scte") \subseteq scteBit
    <3>1. CASE Cardinality(scteBit) = ScteMax
      <4>1. scteBit \subseteq Role("scte") /\ Role("scte") \subseteq EsPids
        BY <1>0 DEF FirstRun, Role
      <4>2. IsFiniteSet(Role("scte"))
        BY <4>1, FS_Subset, DemuxConstants
      <4>3. Cardinality(scteBit) <= Cardinality(Role("scte"))
        BY <4>1, <4>2, FS_Subset
      <4>4. Cardinality(scteBit) = Cardinality(Role("scte"))
        BY <1>3, <3>1, <4>2, <4>3, FS_CardinalityType, DemuxConstants
      <4> QED
        BY <4>1, <4>2, <4>4, FS_Subset
    <3> QED
      BY <1>0, <3>1 DEF FirstRun
  <2>2. p \in EsPids /\ p \in secBit /\ ScteFilter(p) \in reg
    BY <1>0, <1>3, <2>1 DEF FirstRun, Role
  <2>3. /\ ScteFilter(p).cb = "scte_proc" /\ ScteFilter(p).pid = p
        /\ Match(ScteFilter(p), SCTE_SPLICE_TID)
    BY DEF ScteFilter, Std, Filt, Match
  <2>4. Class(p) = "psi"
    BY <2>2, EsPidFacts DEF Class
  <2> QED
    BY <2>2, <2>3, <2>4, Decodes
<1> QED
  BY <1>1, <1>2, <1>3 DEF Delivered, Role

\* In the first cycle of a process, with or without -p, every program's PMT
\* is decoded, every splice stream's sections as far as scte.list reaches,
\* and with -d every elementary stream's PES packets and by nobody else: for
\* any streams, any number of PAT versions and PMTs in any order.
THEOREM FirstCycleDelivers == Spec => []Delivered
<1>1. Init => FirstInv
  <2> SUFFICES ASSUME Init PROVE FirstInv
    OBVIOUS
  <2>1. phase = "off" /\ sessions = 0 /\ esBit = {} /\ scteBit = {} /\ scteList = {}
    BY DEF Init
  <2>2. stream \in [EsPids -> Roles]
    BY DemuxConstants DEF Init
  <2> QED
    BY <2>1, <2>2 DEF FirstInv
<1>2. FirstInv /\ [Next]_vars => FirstInv'
  <2> SUFFICES ASSUME FirstInv, [Next]_vars PROVE FirstInv'
    OBVIOUS
  <2>1. ASSUME NEW s \in Streams, InitPidProcessor(s) PROVE FirstInv'
    BY <2>1, FirstInit
  <2>2. ASSUME NEW progs \in Pats, ReceivePat(progs) PROVE FirstInv'
    BY <2>2, FirstPat
  <2>3. ASSUME NEW p \in PmtPids, NEW es \in SUBSET (EsPids \ PmtPids), ReceivePmt(p, es)
        PROVE  FirstInv'
    BY <2>3, FirstPmt
  <2>4. CASE FreeAndUninit
    BY <2>4 DEF FreeAndUninit, FirstInv
  <2>5. CASE UNCHANGED vars
    BY <2>5 DEF vars, FirstInv, FirstRun, Role, PmtPids
  <2> QED
    BY <2>1, <2>2, <2>3, <2>4, <2>5 DEF Next
<1>3. FirstInv => Delivered
  BY FirstRunDelivers DEF Delivered
<1> QED
  BY <1>1, <1>2, <1>3, PTL DEF Spec
=============================================================================
