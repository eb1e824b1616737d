-------------------------------- MODULE Dump --------------------------------
(***************************************************************************)
(* The dump functions, as the sequences of rout calls they make: each call *)
(* opens a container (key, no value), emits a field (key and value) or an  *)
(* array element (value, no key) at a level.  Values are left out; a loop  *)
(* runs n times, and every descriptor list holds d descriptors.            *)
(***************************************************************************)
EXTENDS Integers, Sequences, SequencesExt

Call(k, lv, key) == [k |-> k, lv |-> lv, key |-> key]

Open(lv, key)    == <<Call("open", lv, key)>>
Leaf(lv, key)    == <<Call("leaf", lv, key)>>
Elem(lv)         == <<Call("elem", lv, "")>>
Leaves(lv, keys) == [j \in DOMAIN keys |-> Call("leaf", lv, keys[j])]

Times(n, calls) == FlattenSeq([j \in 1..n |-> calls])

(* dump_<name>_descriptor: a field for the descriptor, then its members one
   level down; the members of nested structures (__mif_custom and
   __mploop_custom) come out at the level of the descriptor itself. *)
dump_descriptor(lv) ==
  Leaf(lv, "descriptor") \o Leaf(lv + 1, "member") \o Leaf(lv, "nested")

(* dump_reserved: the bytes in one hex dump. *)
dump_reserved(lv) == Leaf(lv, "reserved") \o Leaf(lv + 1, "unknown")

dump_descriptors(lv, d) == Times(d, dump_descriptor(lv)) \o Times(d, dump_reserved(lv))

-----------------------------------------------------------------------------
(* table.c *)

(* transport_stream_id is left out for a section without the long syntax. *)
dump_section_header(name) ==
  Open(0, name) \o
  Leaves(1, <<"section_length", "transport_stream_id", "version_number", "active">>)

dump_pat(n, d) ==
  dump_section_header("PAT") \o Open(1, "program_number @ PMT_PID") \o Times(n, Elem(1))

dump_cat(n, d) == dump_section_header("CAT") \o Open(1, "ca systems") \o dump_descriptors(2, d)

dump_tsdt(n, d) == dump_section_header("TSDT") \o dump_descriptors(2, d)

dump_pmt(n, d) ==
  Open(0, "active PMT") \o Leaves(1, <<"program_number", "version_number", "PCR_PID">>) \o
  dump_descriptors(2, d) \o
  Open(1, "components") \o Open(2, "type @ elementary_PID") \o
  Times(n, Open(3, "es") \o dump_descriptors(4, d))

-----------------------------------------------------------------------------
(* dvb_si.c *)

dump_tdt(n, d) == Open(0, "TDT") \o Leaf(1, "UTC time")

dump_tot(n, d) == Open(0, "TOT") \o Leaf(1, "UTC time") \o dump_descriptors(2, d)

dump_sdt(name, n, d) ==
  Open(0, name) \o
  Leaves(1, <<"transport_stream_id", "section_length", "version_number", "Current next",
              "original_network_id">>) \o
  Times(n, Leaf(2, "service_id") \o
           Leaves(3, <<"EIT_schedule_flag", "EIT_present_following_flag", "running_status",
                       "free_CA_mode">>) \o
           dump_descriptors(4, d))

dump_bat(n, d) ==
  Open(0, "BAT") \o
  Leaves(1, <<"section_length", "bouquet_id", "version_number", "Current next",
              "bouquet descriptor length">>) \o
  dump_descriptors(2, d) \o Open(1, "transport_streams") \o
  Times(n, Elem(2) \o Leaf(3, "original_network_id") \o dump_descriptors(4, d))

dump_nit(name, n, d) ==
  Open(0, name) \o
  Leaves(1, <<"section_length", "network_id", "version_number", "Current next">>) \o
  dump_descriptors(2, d) \o Open(2, "transport_stream") \o
  Times(n, Leaf(3, "transport_stream_id") \o Leaf(4, "original_network_id") \o
           dump_descriptors(5, d))

dump_eit(n, d) ==
  dump_section_header("EIT") \o
  Leaves(1, <<"transport_stream_id", "original_network_id", "segment_last_section_number">>) \o
  Open(1, "events") \o
  Times(n, Leaves(2, <<"event_id", "start_time", "duration", "running_status", "free_CA_mode">>) \o
           dump_descriptors(3, d))

-----------------------------------------------------------------------------
(* atsc_psip.c *)

dump_mgt(n, d) ==
  dump_section_header("MGT") \o Leaves(1, <<"protocol_version", "tables_defined">>) \o
  Times(n, Leaves(2, <<"table_type", "table_type_PID", "version_number", "number_bytes">>) \o
           dump_descriptors(3, d)) \o
  dump_descriptors(1, d)

dump_vct(name, n, d) ==
  dump_section_header(name) \o Leaves(1, <<"protocol_version", "num_channels_in_section">>) \o
  Times(n, Open(2, "channel") \o
           Leaves(3, <<"major_channel_number", "minor_channel_number", "modulation_mode",
                       "program_number", "service_type", "source_id">>) \o
           dump_descriptors(4, d)) \o
  dump_descriptors(1, d)

dump_rrt(n, d) ==
  dump_section_header("RRT") \o Leaves(1, <<"protocol_version", "dimensions_defined">>) \o
  dump_descriptors(1, d)

dump_ett(n, d) == dump_section_header("ETT") \o Leaves(1, <<"protocol_version", "ETM_id">>)

dump_atsc_eit(n, d) ==
  dump_section_header("ATSC EIT") \o Leaves(1, <<"protocol_version", "num_events_in_section">>) \o
  Times(n, Leaves(2, <<"event_id", "start_time", "length_in_seconds">>) \o dump_descriptors(3, d))

dump_stt(n, d) ==
  dump_section_header("STT") \o
  Leaves(1, <<"protocol_version", "system_time", "GPS_UTC_offset", "daylight_saving">>) \o
  dump_descriptors(1, d)

dump_dcct(n, d) ==
  dump_section_header("DCCT") \o Leaves(1, <<"protocol_version", "dcc_test_count">>) \o
  dump_descriptors(1, d)

dump_dccsct(n, d) ==
  dump_section_header("DCCSCT") \o Leaves(1, <<"protocol_version", "updates_defined">>) \o
  dump_descriptors(1, d)

-----------------------------------------------------------------------------
(* pes.c, subtitle.c, teletext.c, scte.c, ts.c *)

dump_teletext(n) ==
  Leaf(2, "data_identifier") \o
  Times(n, Leaves(3, <<"data_unit_id", "data_unit_length", "field_parity", "line_offset",
                       "field_parity", "framing_code", "magazine_and_packet_address",
                       "data_block">>))

(* A CLUT, a region, an object (of coding method d) and a page segment. *)
dump_subtitles(n, d) ==
  LET segment == Leaves(3, <<"segment_type", "page_id", "segment_length">>) IN
  Open(2, "subtitle") \o
  segment \o Leaves(4, <<"CLUT_id", "CLUT_version_number">>) \o
    Times(n, Leaves(5, <<"entry_id", "clut_bit_depth", "color">>)) \o
  segment \o Leaves(4, <<"region_id", "region_version_number", "region_fill_flag", "n_objs">>) \o
    Times(n, Leaves(5, <<"object_id", "object_type">>)) \o
  segment \o Leaves(4, <<"object_id", "object_version_number", "object_coding_method">>) \o
    (IF d = 1 THEN Leaf(5, "number_of_codes") \o Times(n, Leaf(6, "code"))
              ELSE Leaves(5, <<"num_top", "num_bottom">>)) \o
  segment \o Leaves(4, <<"page_time_out", "page_state", "n_region">>) \o
    Times(n, Leaves(5, <<"region_id", "region_horizontal_address">>))

dump_pes_infos(n, d) ==
  Open(0, "PES") \o
  Times(n, Leaf(1, "PID") \o Leaves(2, <<"stream_type", "stream_id">>) \o
           (IF d = 0 THEN dump_teletext(n) ELSE dump_subtitles(n, d)))

dump_splice_descriptors(lv, d) ==
  Times(d, Leaf(lv, "avail") \o Leaf(lv + 1, "provider_avail_id") \o
           Leaf(lv, "DTMF") \o Leaves(lv + 1, <<"preroll", "dtmf_count", "DTMF_char">>))

dump_scte_info(n, d) ==
  Open(0, "SCTE") \o
  Times(n, Leaf(1, "PID") \o
           Leaves(2, <<"sap_type", "protocol_version", "splice_command_type">>) \o
           Leaf(3, "splice_count") \o
           Times(n, Leaves(3, <<"splice_event_id", "splice_event_cancel_indicator",
                                "unique_program_id">>)) \o
           dump_splice_descriptors(2, d))

dump_ts_info(n, d) == Open(0, "TS bits statistics") \o Times(n + 1, Elem(1))

(***************************************************************************)
(* The order of dump_result: dump_tables (with dump_atsc_tables at its     *)
(* end), dump_pes_infos, dump_scte_info, dump_ts_info.                     *)
(***************************************************************************)
dump_tables ==
  <<"PAT", "CAT", "TSDT", "PMT", "SDT ACTUAL", "SDT OTHER", "NIT ACTUAL", "NIT OTHER",
    "BAT", "TDT", "TOT", "EIT">>
dump_atsc_tables ==
  <<"MGT", "TVCT", "CVCT", "RRT", "ATSC EIT", "ETT", "STT", "DCCT", "DCCSCT">>
dump_result == dump_tables \o dump_atsc_tables \o <<"PES", "SCTE", "TS">>

(* Lists of PATs and of CATs, a PMT per PID, and EIT actual and other. *)
Repeated == {"PAT", "CAT", "PMT", "EIT"}

Calls(t, n, d) ==
  CASE t = "PAT" -> dump_pat(n, d)     [] t = "CAT" -> dump_cat(n, d)
    [] t = "TSDT" -> dump_tsdt(n, d)   [] t = "PMT" -> dump_pmt(n, d)
    [] t \in {"SDT ACTUAL", "SDT OTHER"} -> dump_sdt(t, n, d)
    [] t \in {"NIT ACTUAL", "NIT OTHER"} -> dump_nit(t, n, d)
    [] t = "BAT" -> dump_bat(n, d)     [] t = "TDT" -> dump_tdt(n, d)
    [] t = "TOT" -> dump_tot(n, d)     [] t = "EIT" -> dump_eit(n, d)
    [] t = "MGT" -> dump_mgt(n, d)     [] t \in {"TVCT", "CVCT"} -> dump_vct(t, n, d)
    [] t = "RRT" -> dump_rrt(n, d)     [] t = "ATSC EIT" -> dump_atsc_eit(n, d)
    [] t = "ETT" -> dump_ett(n, d)     [] t = "STT" -> dump_stt(n, d)
    [] t = "DCCT" -> dump_dcct(n, d)   [] t = "DCCSCT" -> dump_dccsct(n, d)
    [] t = "PES" -> dump_pes_infos(n, d) [] t = "SCTE" -> dump_scte_info(n, d)
    [] t = "TS" -> dump_ts_info(n, d)
=============================================================================
