-------------------------- MODULE DescriptorLayouts --------------------------
(***************************************************************************)
(* The descriptor tables of include/descriptor.h and of its dvb, atsc and  *)
(* isdb parts: which tag has which name, and for every name the members    *)
(* its foreach_<name>_member macro lists, in order.  A member keeps what   *)
(* decides how the parser moves: its kind, its width in bytes, its number  *)
(* of bits, and the field a later member depends on.  What the other       *)
(* fields are called and how they are printed is left out.                 *)
(*                                                                         *)
(*   m    __m        n bits read from a word of w bytes                    *)
(*   m1   __m1       w bytes, skipped beyond the end of the descriptor     *)
(*   if   __mif      w bytes, present when field c has a value of S        *)
(*   lv   __mlv      as many elements of w bytes as field c says           *)
(*   last __mplast   elements of w bytes up to the end of the descriptor   *)
(*   loop __mploop   entries of w bytes, a length byte, and that many more *)
(*                   (n is the size of the structure an entry is kept in)  *)
(*   subif, sublast, subloop   the forms that call a parser of their own,  *)
(*                   which takes one of the numbers of bytes in R          *)
(*                                                                         *)
(* A field that a later member looks at is named: f, with values in V.     *)
(***************************************************************************)
EXTENDS Integers, Sequences, FiniteSets, TLC

CONSTANT
  Lengths     \* the values a length or count field is given

ASSUME LengthsAssumption == Lengths \subseteq 0..255 /\ 0 \in Lengths

Flag == {0, 1}

(***************************************************************************)
(* One constructor per member macro.                                       *)
(***************************************************************************)
Member(k, w, n, f, V, c, S, R) ==
  [k |-> k, w |-> w, n |-> n, f |-> f, V |-> V, c |-> c, S |-> S, R |-> R]

m(w, n)        == Member("m", w, n, "", {0}, "", {}, {})
mf(w, n, f, V) == Member("m", w, n, f, V \cap 0..(2^n - 1), "", {}, {})
m1(w)          == Member("m1", w, 0, "", {0}, "", {}, {})
m1f(w, f, V)   == Member("m1", w, 0, f, V, "", {}, {})
mif(w, c, S)   == Member("if", w, 0, "", {0}, c, S, {})
miff(w, c, S, f, V) == Member("if", w, 0, f, V, c, S, {})
mlv(w, c)      == Member("lv", w, 1, "", {0}, c, {}, {})
mlvdiv(w, c, d) == Member("lv", w, d, "", {0}, c, {}, {})
mplast(w)      == Member("last", w, 0, "", {0}, "", {}, {})
mploop(w, n)   == Member("loop", w, n, "", {0}, "", {}, {w + 1 + v : v \in Lengths})
msubif(c, S, R) == Member("subif", 0, 0, "", {0}, c, S, R)
msublast(R)    == Member("sublast", 0, 0, "", {0}, "", {}, R)
msubloop(R)    == Member("subloop", 0, 0, "", {0}, "", {}, R)

(* A run of bit fields in words of w bytes. *)
bits(w, ns) == [j \in DOMAIN ns |-> m(w, ns[j])]

(***************************************************************************)
(* What the parsers of nested structures return: the bytes they passed.    *)
(***************************************************************************)
extend_event_linkage_info == {1 + v : v \in Lengths}
multilingual_node         == {4 + v : v \in Lengths}
multilingual_service_node == {5 + v + u : v, u \in Lengths}
cell_list_bytes           == {10 + 8 * (v \div 8) : v \in Lengths}
cell_frequency_bytes      == {7 + 5 * (v \div 5) : v \in Lengths}
text_info                 == {4 + v : v \in Lengths}
module_info_list          == {2} \cup {9 + v : v \in Lengths}
compatibility_descriptor  == {4, 15} \cup {17 + v : v \in Lengths}

(***************************************************************************)
(* ISO/IEC 13818-1.                                                        *)
(***************************************************************************)
MpegTags ==
  2 :> "video_stream" @@ 3 :> "audio_stream" @@ 4 :> "hierarchy" @@
  5 :> "registration" @@ 6 :> "data_stream_alignment" @@ 7 :> "target_background_grid" @@
  8 :> "video_window" @@ 9 :> "CA" @@ 10 :> "ISO_639_language" @@ 11 :> "system_clock" @@
  12 :> "multiplex_buffer_utilization" @@ 13 :> "copyright" @@ 14 :> "maximum_bitrate" @@
  15 :> "private_data_indicator" @@ 16 :> "smoothing_buffer" @@ 17 :> "STD" @@
  18 :> "ibp" @@ 19 :> "carousel_identifier" @@ 20 :> "association_tag" @@
  21 :> "deferred_association_tags" @@ 23 :> "NPTRefrence" @@ 24 :> "NPTEndpoint" @@
  25 :> "StreamMode" @@ 26 :> "StreamEvent" @@ 27 :> "MPEG4_video" @@
  28 :> "MPEG4_audio" @@ 29 :> "IOD" @@ 30 :> "SL" @@ 31 :> "FMC" @@
  32 :> "external_ES_ID" @@ 33 :> "muxcode" @@ 34 :> "FmxBufferSize" @@
  35 :> "MultiplexBuffer"

MpegVideoAudio ==
  [video_stream  |-> bits(1, <<1, 4, 1, 1, 1>>) \o <<m1(1)>> \o bits(1, <<2, 1, 5>>),
   audio_stream  |-> bits(1, <<1, 1, 2, 1, 3>>),
   hierarchy     |-> bits(1, <<4, 4, 2, 6, 2, 6, 2, 6>>),
   registration  |-> <<m1(4), m1(1)>>]

MpegWindowCA ==
  [data_stream_alignment  |-> <<m1(1)>>,
   target_background_grid |-> bits(4, <<14, 14, 4>>),
   video_window           |-> bits(4, <<14, 14, 4>>),
   CA                     |-> <<m1(2), m(2, 3), m(2, 13), mplast(1)>>]

MpegClockToStream ==
  [ISO_639_language     |-> <<mplast(4)>>,
   system_clock         |-> bits(1, <<1, 1, 6, 3, 5>>),
   multiplex_buffer_utilization |-> bits(2, <<1, 15, 1, 15>>),
   copyright            |-> <<m1(4), mplast(1)>>,
   maximum_bitrate      |-> <<m(1, 2), m(1, 6), m1(1)>>,
   private_data_indicator |-> <<m1(4)>>,
   smoothing_buffer     |-> bits(4, <<2, 22, 2, 6>>) \o <<m1(2)>>,
   STD                  |-> bits(1, <<7, 1>>),
   ibp                  |-> bits(2, <<1, 1, 14>>),
   carousel_identifier  |-> <<m1(4), mplast(1)>>,
   association_tag      |-> <<m1(2), m1(2), m1f(1, "selector", Lengths),
                              mlv(1, "selector"), mplast(1)>>,
   deferred_association_tags |->
                            <<m1f(1, "loop", Lengths), mlv(2, "loop"), m1(2), m1(2), mplast(1)>>,
   NPTRefrence          |-> bits(1, <<1, 7, 7, 1>>) \o <<m1(4), m(8, 31), m(8, 33), m1(2), m1(2)>>,
   NPTEndpoint          |-> <<m(2, 15), m(2, 1), m1(4), m(8, 31), m(8, 33)>>,
   StreamMode           |-> <<m1(1), m1(1)>>,
   StreamEvent          |-> <<m1(2), m(8, 31), m(8, 33), mplast(1)>>,
   MPEG4_video          |-> <<m1(1)>>]

MpegSystems ==
  [MPEG4_audio     |-> <<m1(1)>>,
   IOD             |-> <<m1(1), m1(1)>>,
   SL              |-> <<m1(2)>>,
   FMC             |-> <<mplast(3)>>,
   external_ES_ID  |-> <<m1(2)>>,
   muxcode         |-> <<mplast(18)>>,
   FmxBufferSize   |-> <<m1(4), mplast(4)>>,
   MultiplexBuffer |-> bits(4, <<24, 24>>)]

(***************************************************************************)
(* ETSI EN 300 468: the tags 0x40 to 0x7F, without a gap.                  *)
(***************************************************************************)
DvbNames ==
  <<"network_name", "service_list", "stuffing", "satellite_delivery_system",
    "cable_delivery_system", "VBI_data", "VBI_teletext", "bouquet_name", "service",
    "country_availability", "linkage", "NVOD_reference", "time_shifted_service",
    "short_event", "extended_event", "time_shifted_event", "component", "mosaic",
    "stream_identifier", "CA_identifier", "content", "parental_rating", "teletext",
    "telephone", "local_time_offset", "subtitling", "terrestrial_delivery_system",
    "multilingual_network_name", "multilingual_bouquet_name",
    "multilingual_service_name", "multilingual_component", "private_data_specifier",
    "service_move", "short_smoothing_buffer", "frequency_list",
    "partial_transport_stream", "data_broadcast", "scrambling", "data_broadcast_id",
    "transport_stream", "DSNG", "PDC", "AC3", "ancillary_data", "cell_list",
    "cell_frequency_link", "announcement_support", "application_signalling",
    "adaptation_field_data", "service_identifier", "service_availability",
    "default_authority", "related_content", "TVA_id", "content_identifier",
    "time_slice_fec_identifier", "ECM_repetition_rate", "S2_satellite_delivery_system",
    "enhanced_AC3", "DTS", "AAC", "XAIT_location", "FTA_content_management", "extension">>

DvbTags == [t \in 64..127 |-> DvbNames[t - 63]]

DvbDelivery ==
  [network_name |-> <<mplast(1)>>,
   service_list |-> <<mplast(3)>>,
   stuffing     |-> <<mplast(1)>>,
   satellite_delivery_system |-> <<m1(4), m1(2)>> \o bits(1, <<1, 2, 2, 1, 2>>) \o bits(4, <<28, 4>>),
   cable_delivery_system |-> <<m1(4)>> \o bits(2, <<12, 4>>) \o <<m1(1)>> \o bits(4, <<28, 4>>),
   VBI_data     |-> <<mploop(1, 10)>>]

DvbService ==
  [VBI_teletext |-> <<mplast(5)>>,
   bouquet_name |-> <<mplast(1)>>,
   service      |-> <<m1(1), m1f(1, "provider", Lengths), mlv(1, "provider"),
                      m1f(1, "name", Lengths), mlv(1, "name")>>,
   country_availability |-> <<m(1, 1), m(1, 7), mplast(3)>>]

DvbLinkage ==
  [linkage |-> <<m1(2), m1(2), m1(2), m1f(1, "linkage_type", {0, 8, 13, 14, 31, 32}),
                 mif(3, "linkage_type", {8}), mif(3, "linkage_type", {13}),
                 msubif("linkage_type", 14..31, extend_event_linkage_info), mplast(1)>>]

DvbEvents ==
  [NVOD_reference       |-> <<mplast(6)>>,
   time_shifted_service |-> <<m1(1)>>,
   short_event          |-> <<m(4, 24), m1f(1, "name", Lengths), mlv(1, "name"),
                              m1f(1, "text", Lengths), mlv(1, "text")>>,
   extended_event       |-> bits(4, <<4, 4, 24>>) \o
                            <<m1f(1, "items", Lengths), mlv(32, "items"),
                              m1f(1, "text", Lengths), mlv(1, "text")>>,
   time_shifted_event   |-> <<m1(2), m1(2)>>,
   component            |-> bits(1, <<4, 4>>) \o <<m1(1)>> \o bits(4, <<8, 24>>) \o <<mplast(1)>>,
   mosaic               |-> bits(1, <<1, 3, 1, 3>>),
   stream_identifier    |-> <<m1(1)>>,
   CA_identifier        |-> <<mplast(2)>>,
   content              |-> <<mplast(2)>>]

DvbTextAndTime ==
  [parental_rating   |-> <<mplast(4)>>,
   teletext          |-> <<mplast(5)>>,
   telephone         |-> bits(1, <<2, 1, 5, 1>>) \o
                         <<mf(1, 2, "country", Lengths), mf(1, 3, "international", Lengths),
                           mf(1, 2, "operator", Lengths), m(1, 1),
                           mf(1, 3, "national", Lengths), mf(1, 4, "core", Lengths),
                           mlv(1, "country"), mlv(1, "international"), mlv(1, "operator"),
                           mlv(1, "national"), mlv(1, "core")>>,
   local_time_offset |-> <<mplast(13)>>,
   subtitling        |-> <<mplast(8)>>]

DvbMultilingual ==
  [terrestrial_delivery_system |->
     <<m1(4)>> \o bits(1, <<3, 1, 1, 1, 2, 2, 3, 3, 3, 2, 2, 1>>) \o <<m1(4)>>,
   multilingual_network_name |-> <<msubloop(multilingual_node)>>,
   multilingual_bouquet_name |-> <<msubloop(multilingual_node)>>]

DvbBroadcast ==
  [multilingual_service_name |-> <<msubloop(multilingual_service_node)>>,
   multilingual_component    |-> <<m1(1), msubloop(multilingual_node)>>,
   private_data_specifier    |-> <<m1(4)>>,
   service_move              |-> <<m1(2), m1(2), m1(2)>>,
   short_smoothing_buffer    |-> <<m(1, 2), m(1, 6), mplast(1)>>,
   frequency_list            |-> <<m(1, 6), m(1, 2), mplast(4)>>,
   partial_transport_stream  |-> bits(8, <<2, 22, 2, 22, 2, 14>>),
   data_broadcast            |-> <<m1(2), m1(1), m1f(1, "selector", Lengths),
                                   mlv(1, "selector"), m(4, 24), mf(4, 8, "text", Lengths),
                                   mlv(1, "text")>>,
   scrambling                |-> <<m1(1)>>,
   data_broadcast_id         |-> <<m1(2), mplast(1)>>,
   transport_stream          |-> <<mplast(1)>>,
   DSNG                      |-> <<mplast(1)>>,
   PDC                       |-> <<m(1, 4), m(1, 4), m1(2)>>,
   AC3                       |-> <<mf(1, 1, "ct", Flag), mf(1, 1, "bsid", Flag),
                                   mf(1, 1, "mainid", Flag), mf(1, 1, "asvc", Flag), m(1, 4),
                                   mif(1, "ct", {1}), mif(1, "bsid", {1}),
                                   mif(1, "mainid", {1}), mif(1, "asvc", {1}), mplast(1)>>,
   ancillary_data            |-> <<m1(1)>>]

DvbCells ==
  [cell_list           |-> <<msublast(cell_list_bytes)>>,
   cell_frequency_link |-> <<msublast(cell_frequency_bytes)>>]

DvbTail ==
  [announcement_support   |-> <<m1(2), mplast(8)>>,
   application_signalling |-> <<mplast(3)>>,
   adaptation_field_data  |-> <<m1(1)>>,
   service_identifier     |-> <<mplast(1)>>,
   service_availability   |-> <<m(1, 1), m(1, 7), mplast(2)>>,
   default_authority      |-> <<mplast(1)>>,
   related_content        |-> <<mplast(1)>>,
   TVA_id                 |-> <<mplast(3)>>,
   content_identifier     |-> <<mplast(1)>>,
   time_slice_fec_identifier |-> bits(1, <<1, 2, 2, 3>>) \o <<m1(1)>> \o bits(1, <<4, 4>>)
                                 \o <<mplast(1)>>,
   ECM_repetition_rate    |-> <<m1(2), m1(2), mplast(1)>>,
   S2_satellite_delivery_system |->
                             <<mf(1, 1, "scrambling", Flag), mf(1, 1, "mis", Flag), m(1, 1), m(1, 5),
                               mif(3, "scrambling", {1}), mif(1, "mis", {1})>>,
   enhanced_AC3           |-> <<mf(1, 1, "ct", Flag), mf(1, 1, "bsid", Flag), mf(1, 1, "mainid", Flag), mf(1, 1, "asvc", Flag),
                               m(1, 1), mf(1, 1, "s1", Flag), mf(1, 1, "s2", Flag),
                               mf(1, 1, "s3", Flag),
                               mif(1, "ct", {1}), mif(1, "bsid", {1}), mif(1, "mainid", {1}),
                               mif(1, "asvc", {1}), mif(1, "s1", {1}), mif(1, "s2", {1}),
                               mif(1, "s3", {1}), mplast(1)>>,
   DTS                    |-> bits(4, <<4, 6, 7, 14, 1>>) \o bits(1, <<5, 1, 2>>) \o <<mplast(1)>>,
   AAC                    |-> <<m1(1)>> \o bits(1, <<1, 1, 6>>) \o <<m1(1), mplast(1)>>,
   XAIT_location          |-> <<m1(2), m1(2), m(1, 5), m(1, 3)>>,
   FTA_content_management |-> bits(1, <<1, 3, 1, 2, 1>>),
   extension              |-> <<m1(1), mplast(1)>>]

(***************************************************************************)
(* ATSC A/65.                                                              *)
(***************************************************************************)
AtscTags ==
  128 :> "atsc_stuffing" @@ 129 :> "AC3_audio_stream" @@ 134 :> "caption_service" @@
  135 :> "content_advisory" @@ 160 :> "extended_channel_name" @@ 161 :> "service_location" @@
  162 :> "atsc_time_shifted_service" @@ 163 :> "component_name" @@
  168 :> "dcc_departing_request" @@ 169 :> "dcc_arriving_request" @@ 170 :> "rc" @@
  171 :> "genre" @@ 173 :> "private_information" @@ 178 :> "enhanced_signaling" @@
  204 :> "enhanced_AC3_audio_stream"

AtscAudioCaption ==
  [atsc_stuffing    |-> <<mplast(1)>>,
   AC3_audio_stream |-> bits(1, <<3, 5, 6, 2, 3>>) \o <<mf(1, 4, "num_channels", Flag), m(1, 1),
                          m1(1), mif(1, "num_channels", {0})>> \o bits(1, <<3, 2, 3>>) \o
                        <<mf(1, 7, "textlen", Lengths), m(1, 1), mlv(1, "textlen"),
                          mf(1, 1, "lang", Flag), mf(1, 1, "lang2", Flag), m(1, 6),
                          mif(3, "lang", {1}), mif(3, "lang2", {1}), mplast(1)>>,
   caption_service  |-> <<m(1, 3), m(1, 5), mplast(5)>>,
   content_advisory |-> <<m(1, 2), m(1, 6), mplast(32)>>]

AtscOthers ==
  [extended_channel_name |-> <<mplast(1)>>,
   service_location      |-> <<m(2, 3), m(2, 13), m1f(1, "elements", Lengths), mlv(6, "elements")>>,
   atsc_time_shifted_service |-> <<m(1, 3), mf(1, 5, "services", Lengths), mlv(5, "services")>>,
   component_name        |-> <<mplast(1)>>,
   dcc_departing_request |-> <<m1(1), m1f(1, "text", Lengths), mlv(1, "text")>>,
   dcc_arriving_request  |-> <<m1(1), m1f(1, "text", Lengths), mlv(1, "text")>>,
   rc                    |-> <<mplast(1)>>,
   genre                 |-> <<m(1, 3), mf(1, 5, "attributes", Lengths), mlv(1, "attributes")>>,
   private_information   |-> <<m1(4), mplast(1)>>,
   enhanced_signaling    |-> bits(1, <<2, 2, 4>>),
   enhanced_AC3_audio_stream |->
     bits(1, <<1, 1>>) \o
     <<mf(1, 1, "mainid", Flag), mf(1, 1, "asvc", Flag), m(1, 1), mf(1, 1, "s1", Flag),
       mf(1, 1, "s2", Flag), mf(1, 1, "s3", Flag)>> \o bits(1, <<1, 1, 3, 3>>) \o
     <<mf(1, 1, "lang", Flag), mf(1, 1, "lang2", Flag), m(1, 5),
       mif(1, "mainid", {1}), mif(1, "asvc", {1}), mif(1, "s1", {1}), mif(1, "s2", {1}),
       mif(1, "s3", {1}), mif(3, "lang", {1}), mif(3, "lang2", {1}), mif(3, "s1", {1}),
       mif(3, "s2", {1}), mif(3, "s3", {1}), mplast(1)>>]

(***************************************************************************)
(* ARIB STD-B10.                                                           *)
(***************************************************************************)
IsdbTags ==
  40 :> "AVC_video" @@ 42 :> "AVC_timing_and_HRD" @@ 192 :> "hierarchical_transmission" @@
  193 :> "digital_copy_control" @@ 194 :> "network_identification" @@
  195 :> "Partial_Transport_Stream_time" @@ 196 :> "audio_component" @@ 197 :> "hyperlink" @@
  198 :> "target_region" @@ 199 :> "data_content" @@ 200 :> "video_decode_control" @@
  201 :> "download_content" @@ 202 :> "CA_emm_ts" @@ 203 :> "CA_contract_info" @@
  204 :> "CA_service" @@ 205 :> "ts_information" @@ 206 :> "extended_broadcaster" @@
  207 :> "logo_transmission" @@ 208 :> "basic_local_event" @@ 209 :> "reference" @@
  210 :> "node_relation" @@ 211 :> "short_node_information" @@ 212 :> "STC_reference" @@
  213 :> "series" @@ 214 :> "event_group" @@ 215 :> "SI_parameter" @@
  216 :> "broadcaster_name" @@ 217 :> "component_group" @@ 218 :> "SI_prime_TS" @@
  219 :> "board_information" @@ 220 :> "LDT_linkage" @@ 221 :> "connected_transmission" @@
  222 :> "content_availability" @@ 223 :> "composite" @@ 224 :> "service_group" @@
  247 :> "carousel_compatible_composite" @@ 248 :> "conditional_playback" @@
  250 :> "isdb_terrestrial_delivery_system" @@ 251 :> "partial_reception" @@
  252 :> "emergency_information" @@ 253 :> "data_component" @@ 254 :> "system_management"

IsdbVideoAudio ==
  [AVC_video          |-> <<m1(1)>> \o bits(1, <<1, 1, 1, 5>>) \o <<m1(1)>> \o bits(1, <<1, 1, 6>>),
   AVC_timing_and_HRD |-> <<m(1, 1), m(1, 6), mf(1, 1, "timing", Flag),
                            miff(1, "timing", {1}, "_90kHz_flag", Flag),
                            mif(4, "_90kHz_flag", {0}), mif(4, "_90kHz_flag", {0}),
                            mif(4, "timing", {1})>> \o bits(1, <<1, 1, 1, 5>>),
   hierarchical_transmission |-> bits(1, <<7, 1>>) \o bits(2, <<3, 13>>),
   digital_copy_control |-> <<m(1, 2), mf(1, 1, "maxrate", Flag), mf(1, 1, "control", Flag), m(1, 4),
                              mif(1, "maxrate", {1}), mif(1, "control", {1}), mplast(3)>>,
   network_identification |-> <<m1(3), m1(2), m1(2), mplast(1)>>,
   Partial_Transport_Stream_time |-> <<mplast(1)>>,
   audio_component    |-> <<m(1, 4), m(1, 4), m1(1), m1(1), m1(1), m1(1),
                            mf(4, 1, "multi", Flag)>> \o bits(4, <<1, 2, 3, 1, 1>>) \o
                          <<mif(3, "multi", {1}), mplast(1)>>,
   hyperlink          |-> <<m1(2), m1(1), m1f(1, "selector", Lengths), mlv(1, "selector"), mplast(1)>>,
   target_region      |-> <<m1(1), mplast(1)>>,
   data_content       |-> <<m1(2), m1(1), m1f(1, "selector", Lengths), mlv(1, "selector"),
                            m1f(1, "refs", Lengths), mlv(1, "refs"), m(4, 24),
                            mf(4, 8, "text", Lengths), mlv(1, "text")>>,
   video_decode_control |-> bits(1, <<1, 1, 4, 2>>)]

IsdbDownload ==
  [download_content |->
     bits(1, <<1, 1>>) \o <<mf(1, 1, "compat", Flag), mf(1, 1, "module", Flag),
       mf(1, 1, "textinfo", Flag), m(1, 3), m1(4), m1(4), m1(4), m(4, 22), m(4, 2), m(4, 8),
       msubif("compat", {1}, compatibility_descriptor), msubif("module", {1}, module_info_list),
       m1f(1, "private", Lengths), mlv(1, "private"), msubif("textinfo", {1}, text_info)>>]

IsdbConditionalAccess ==
  [CA_emm_ts            |-> <<m1(2), m1(2), m1(2), m1(1)>>,
   CA_contract_info     |-> <<m1(2), m(1, 4), mf(1, 4, "components", Lengths), mlv(1, "components"),
                              m1f(1, "info", Lengths), mlv(1, "info"),
                              m1f(1, "fee", Lengths), mlv(1, "fee")>>,
   CA_service           |-> <<m1(2), m1(1), m1(1), mplast(2)>>,
   ts_information       |-> <<m1(1), mf(1, 6, "name", Lengths), m(1, 2), mlv(1, "name"),
                              mploop(1, 16), mplast(1)>>,
   extended_broadcaster |-> <<m(1, 4), m(1, 4), m1(2), mf(1, 4, "affiliations", Lengths),
                              mf(1, 4, "broadcasters", Lengths), mlv(1, "affiliations"),
                              mlv(3, "broadcasters"), mplast(1)>>,
   logo_transmission    |-> <<m1f(1, "type", {0, 1, 2}), mif(6, "type", {1}), mif(2, "type", {2}),
                              mplast(1)>>,
   basic_local_event    |-> <<m(1, 4), m(1, 4), m1f(1, "info", Lengths), mlv(1, "info"), mplast(1)>>]

IsdbEvents ==
  [reference      |-> <<m1(2), m1(2), mplast(4)>>,
   node_relation  |-> <<m(1, 4), mf(1, 1, "external", Flag), m(1, 3), mif(2, "external", {1}),
                        mif(2, "external", {1}), m1(2), m1(1)>>,
   short_node_information |-> <<m(4, 24), mf(4, 8, "name", Lengths), mlv(1, "name"),
                                m1f(1, "text", Lengths), mlv(1, "text")>>,
   STC_reference  |-> <<m(1, 3), mf(1, 1, "external", Flag), m(1, 4), mif(2, "external", {1}),
                        mif(2, "external", {1}), mif(2, "external", {1}), mplast(1)>>,
   series         |-> <<m1(2)>> \o bits(1, <<4, 3, 1>>) \o <<m1(2), m1(1), m1(2), mplast(1)>>,
   event_group    |-> <<m(1, 4), mf(1, 4, "events", Lengths), mlv(4, "events"), mplast(8)>>,
   SI_parameter   |-> <<m1(1), m1(2), mploop(1, 10)>>,
   broadcaster_name |-> <<mplast(1)>>,
   component_group  |-> bits(1, <<3, 1, 4>>),
   SI_prime_TS    |-> <<m1(1), m1(2), m1(2), m1(2), mploop(1, 10)>>,
   board_information |-> <<m1f(1, "title", Lengths), mlv(1, "title"),
                           m1f(1, "text", Lengths), mlv(1, "text")>>,
   LDT_linkage    |-> <<m1(2), m1(2), m1(2), mplast(4)>>]

IsdbTail ==
  [connected_transmission |-> <<m1(2)>> \o bits(1, <<2, 2, 2, 2>>) \o <<mplast(1)>>,
   content_availability   |-> bits(1, <<1, 1, 1, 1, 3, 1>>) \o <<mplast(1)>>,
   composite              |-> <<m1(1), m1f(1, "length", Lengths), mlv(1, "length")>>,
   service_group          |-> <<m(1, 4), m(1, 4), mplast(4)>>,
   carousel_compatible_composite |-> <<mploop(1, 10)>>,
   conditional_playback   |-> <<m1(2), m(2, 3), m(2, 13), mplast(1)>>,
   isdb_terrestrial_delivery_system |-> bits(2, <<12, 2, 2>>) \o <<mplast(2)>>,
   partial_reception      |-> <<mplast(2)>>,
   emergency_information  |-> <<m1(2), m(1, 1), m(1, 1), m(1, 6), m1f(1, "area", Lengths),
                                mlvdiv(2, "area", 2)>>,
   data_component         |-> <<m1(2), mplast(1)>>,
   system_management      |-> <<m1(2), mplast(1)>>]

(***************************************************************************)
(* The table of parsers.  The macro list is expanded part by part, so a    *)
(* tag named twice (0xCC, in the atsc and in the isdb part) belongs to the *)
(* part named last; @@ keeps its left operand.                             *)
(***************************************************************************)
Layouts ==
  MpegVideoAudio @@ MpegWindowCA @@ MpegClockToStream @@ MpegSystems @@
  DvbDelivery @@ DvbService @@ DvbLinkage @@ DvbEvents @@ DvbTextAndTime @@
  DvbMultilingual @@ DvbBroadcast @@ DvbCells @@ DvbTail @@
  AtscAudioCaption @@ AtscOthers @@
  IsdbVideoAudio @@ IsdbDownload @@ IsdbConditionalAccess @@ IsdbEvents @@ IsdbTail

TagNames == IsdbTags @@ AtscTags @@ DvbTags @@ MpegTags

Reserved == 255   \* a tag no part names

AllTags == DOMAIN TagNames \cup {Reserved}
=============================================================================
