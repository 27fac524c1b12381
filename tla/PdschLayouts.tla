---------------------------- MODULE PdschLayouts ----------------------------
(***************************************************************************)
(* The decoders of the downlink data channel of the LTE physical layer:    *)
(* decoding results, statistics and demapper.  A table (...Fmt and the     *)
(* like) has the name of its source, with the fields its decoder comes     *)
(* back to; a decoder has the name of its packet and the version it is     *)
(* for, and what is behind its name (_Record, _Subpkt ...) names the list  *)
(* inside it.  A part named _Rest continues the part of its name.          *)
(***************************************************************************)
EXTENDS Layout

-----------------------------------------------------------------------------
(* _decode_lte_phy_pdsch_decoding_result_payload *)

LtePhyPdschDecodingResult_Fmt == Fmt(1, <<<<"Version", 1>>>>, {})
LtePhyPdschDecodingResult_Payload_v24 == Fmt(7, <<<<"Serving Cell ID", 4>>,
      <<"TM Mode", 1>>, <<"Carrier Index", 1>>>>,
    {"Starting Subframe Number", "Starting System Frame Number", "UE Category",
      "Num DL HARQ", "Number of Records"})
LtePhyPdschDecodingResult_Record_v24 == Fmt(8, <<<<"Subframe Offset", 2>>,
      <<"HARQ ID", 1>>, <<"System Information Msg Number", 2>>,
      <<"HARQ Log Status", 1>>>>,
    {"Subframe Number", "RNTI Type", "System Information Mask", "Codeword Swap",
      "Number of Streams"})
LtePhyPdschDecodingResult_Stream_v24 == Fmt(8, <<<<"Transport Block CRC", 4>>,
      <<"Num RE", 4>>>>,
    {"NDI", "Code Block Size Plus", "Num Code Block Plus", "Max TDEC Iter",
      "Retransmission Number", "RVID", "Companding Stats", "HARQ Combining",
      "Decob TB CRC", "Codeword Index"})
LtePhyPdschDecodingResult_EnergyMetric_v24 == Fmt(4, <<<<"Energy Metric", 4>>>>,
    {"Iteration Number", "Code Block CRC Pass", "Early Termination",
      "HARQ Combine Enable", "Deint Decode Bypass"})
LtePhyPdschDecodingResult_Stream_v27 == Fmt(12, <<<<"Transport Block CRC", 4>>,
      <<"Num RE", 4>>, <<"Retransmission Number", 4>>>>,
    {"NDI", "Code Block Size Plus", "Num Code Block Plus", "Max TDEC Iter", "RVID",
      "Companding Stats", "HARQ Combining", "Decob TB CRC", "Codeword Index"})
LtePhyPdschDecodingResult_Payload_v44 == Fmt(11, <<<<"Serving Cell ID", 4>>,
      <<"TM Mode", 1>>, <<"Carrier Index", 2>>>>,
    {"Starting Subframe Number", "Starting System Frame Number", "UE Category",
      "Num DL HARQ", "Number of Records"})
LtePhyPdschDecodingResult_Record_v44 == Fmt(12, <<<<"Subframe Offset", 2>>,
      <<"HARQ ID", 1>>, <<"System Information Msg Number", 2>>,
      <<"HARQ Log Status", 1>>, <<"Demap Sic Status", 2>>>>,
    {"Subframe Number", "RNTI Type", "System Information Mask", "Codeword Swap",
      "Number of Streams"})
LtePhyPdschDecodingResult_Stream_v44 == Fmt(12, <<<<"Transport Block CRC", 4>>,
      <<"Num RE", 4>>, <<"LLR Scale", 1>>>>,
    {"NDI", "Code Block Size Plus", "Num Code Block Plus", "Max TDEC Iter",
      "Retransmission Number", "RVID", "Companding Stats", "HARQ Combining",
      "Decob TB CRC", "Codeword Index"})
LtePhyPdschDecodingResult_EnergyMetric_v44 == Fmt(4, <<<<"Energy Metric", 4>>>>,
    {"Iteration Number", "Code Block CRC Pass", "Early Termination",
      "HARQ Combine Enable", "Deint Decode Bypass"})
LtePhyPdschDecodingResult_Payload_v106 == Fmt(11, <<<<"Serving Cell ID", 4>>,
      <<"TM Mode", 1>>, <<"Nir", 4>>>>,
    {"Starting Subframe Number", "Starting System Frame Number", "UE Category",
      "Num DL HARQ", "Carrier Index", "Number of Records"})
LtePhyPdschDecodingResult_Record_v105 == Fmt(12, <<<<"Subframe Offset", 2>>,
      <<"HARQ ID", 1>>, <<"System Information Msg Number", 2>>,
      <<"HARQ Log Status", 1>>, <<"Demap Sic Status", 2>>>>,
    {"Subframe Number", "RNTI Type", "System Information Mask", "Codeword Swap",
      "Number of Streams"})
LtePhyPdschDecodingResult_Stream_v106 == Fmt(12, <<<<"Transport Block CRC", 4>>,
      <<"Companding Stats", 4>>, <<"LLR Scale", 1>>>>,
    {"NDI", "Code Block Size Plus", "Num Code Block Plus Data", "Num Code Block Plus",
      "Max TDEC Iter", "Retransmission Number", "RVID", "HARQ Combining",
      "Decob TB CRC", "Effective Code Rate Data", "Num RE", "Codeword Index"})
LtePhyPdschDecodingResult_Record_v106 == Fmt(12, <<<<"Subframe Offset", 2>>,
      <<"HARQ ID", 1>>, <<"System Information Msg Number", 2>>,
      <<"HARQ Log Status", 1>>, <<"Demap Sic Status", 2>>>>,
    {"Subframe Number", "RNTI Type", "System Information Mask", "Codeword Swap",
      "Number of Streams", "MVC Status", "MVC Clock Request"})
LtePhyPdschDecodingResult_Payload_v124 == Fmt(15, <<<<"Serving Cell ID", 4>>,
      <<"TM Mode", 1>>, <<"Carrier Index", 2>>>>,
    {"Starting Subframe Number", "Starting System Frame Number", "UE Category",
      "Num DL HARQ", "Number of Records"})
LtePhyPdschDecodingResult_Record_v124 == Fmt(4, <<<<"Subframe Offset", 2>>,
      <<"HARQ ID", 1>>, <<"Codeword Swap", 1>>>>,
    {"RNTI Type", "Number of Transport Blks"})
LtePhyPdschDecodingResult_TBlks_v124 == Fmt(16, <<<<"Transport Block CRC", 4>>,
      <<"Num Channel Bits", 4>>, <<"First Decoded CB Index Qed Iter2 Data", 4>>,
      <<"Effective Code Rate Data", 2>>, <<"HARQ Combine Enable", 1>>>>,
    {"NDI", "Retransmission Number", "RVID", "Code Block Size Plus",
      "Num Code Block Plus Data", "Num Code Block Plus", "Max Half Iter Data", "CW Idx",
      "Llr Buf Valid", "First Decoded CB Index", "Last Decoded CB Index Qed Iter2 Data",
      "Companding Format", "Effective Code Rate"})
LtePhyPdschDecodingResult_Hidden_Energy_Metrics_v124 == Fmt(8, <<
      <<"Hidden Energy Metric First Half", 4>>,
      <<"Hidden Energy Metric Second Half", 4>>>>,
    {})
LtePhyPdschDecodingResult_Record_v125 == Fmt(4, <<<<"Subframe Offset", 2>>,
      <<"HARQ ID", 1>>, <<"Codeword Swap", 1>>>>,
    {"Subframe Number", "System Subframe Number", "RNTI Type",
      "Number of Transport Blks"})
LtePhyPdschDecodingResult_Payload_v126 == Fmt(15, <<<<"Serving Cell ID", 4>>,
      <<"TM Mode", 1>>, <<"Carrier Index", 2>>>>,
    {"Starting Subframe Number", "Starting System Frame Number", "UE Category",
      "Num DL HARQ", "Number of Records"})
LtePhyPdschDecodingResult_Record_v126 == Fmt(4, <<<<"Subframe Offset", 2>>,
      <<"HARQ ID", 1>>, <<"Codeword Swap", 1>>>>,
    {"RNTI Type", "Number of Transport Blks"})
LtePhyPdschDecodingResult_TBlks_v126 == Fmt(16, <<<<"Transport Block CRC", 4>>,
      <<"Num Channel Bits", 4>>, <<"First Decoded CB Index Qed Iter2 Data", 4>>,
      <<"Effective Code Rate Data", 2>>, <<"HARQ Combine Enable", 1>>>>,
    {"NDI", "Retransmission Number", "RVID", "Code Block Size Plus",
      "Num Code Block Plus Data", "Num Code Block Plus", "Max Half Iter Data", "CW Idx",
      "Llr Buf Valid", "First Decoded CB Index", "Last Decoded CB Index Qed Iter2 Data",
      "Companding Format", "Effective Code Rate"})
LtePhyPdschDecodingResult_Hidden_Energy_Metrics_v126 == Fmt(8, <<
      <<"Hidden Energy Metric First Half", 4>>,
      <<"Hidden Energy Metric Second Half", 4>>>>,
    {})
LtePhyPdschDecodingResult_Payload_v143 == Fmt(15, <<<<"Serving Cell ID", 4>>,
      <<"TM Mode", 1>>, <<"Carrier Index", 2>>>>,
    {"Starting Subframe Number", "Starting System Frame Number", "UE Category",
      "Num DL HARQ", "Number of Records"})
LtePhyPdschDecodingResult_Record_v143 == Fmt(4, <<<<"Subframe Offset", 2>>,
      <<"HARQ ID", 1>>, <<"Codeword Swap", 1>>>>,
    {"RNTI Type", "Number of Transport Blks"})
LtePhyPdschDecodingResult_TBlks_v143 == Fmt(16, <<<<"Transport Block CRC", 4>>,
      <<"Max Half Iter Data", 4>>, <<"Companding Format", 4>>,
      <<"Effective Code Rate Data", 2>>, <<"HARQ Combine Enable", 1>>>>,
    {"NDI", "Retransmission Number", "RVID", "Code Block Size Plus",
      "Num Code Block Plus Data", "Num Code Block Plus", "Num Channel Bits", "CW Idx",
      "Llr Buf Valid", "First Decoded CB Index"})
LtePhyPdschDecodingResult_Hidden_Energy_Metrics_v143 == Fmt(8, <<
      <<"Hidden Energy Metric First Half", 4>>,
      <<"Hidden Energy Metric Second Half", 4>>>>,
    {})

PdschDecoding_v24_Record_Stream_Metric ==
    << LtePhyPdschDecodingResult_EnergyMetric_v24,
       Split(<<Word("Energy Metric", <<<<"Energy Metric", 0, 21>>,
             <<"Iteration Number", 21, 4>>, <<"Code Block CRC Pass", 25, 1>>,
             <<"Early Termination", 26, 1>>, <<"HARQ Combine Enable", 27, 1>>,
             <<"Deint Decode Bypass", 28, 1>>>>)>>),
       Names({"Code Block CRC Pass", "Early Termination", "HARQ Combine Enable"}) >>
PdschDecoding_v24_Record_Stream ==
    << LtePhyPdschDecodingResult_Stream_v24,
       Split(<<Word("Transport Block CRC", <<<<"Transport Block CRC", 0, 1>>,
             <<"NDI", 1, 1>>, <<"Code Block Size Plus", 2, 13>>,
             <<"Num Code Block Plus", 15, 4>>, <<"Max TDEC Iter", 19, 4>>,
             <<"Retransmission Number", 23, 3>>, <<"RVID", 26, 2>>,
             <<"Companding Stats", 28, 2>>, <<"HARQ Combining", 30, 1>>,
             <<"Decob TB CRC", 31, 1>>>>),
         Word("Num RE", <<<<"Num RE", 10, 16>>, <<"Codeword Index", 27, 4>>>>)>>),
       Names({"Transport Block CRC", "Retransmission Number", "Companding Stats",
         "HARQ Combining"}),
       ForEach("Num Code Block Plus", PdschDecoding_v24_Record_Stream_Metric),
       Pad(FreeSlots(13, 4)) >>
PdschDecoding_v24_Record ==
    << LtePhyPdschDecodingResult_Record_v24, Reads({"Subframe Offset"}),
       Split(<<Word("HARQ ID", <<<<"HARQ ID", 0, 4>>, <<"RNTI Type", 4, 4>>>>),
         Word("System Information Msg Number", <<
             <<"System Information Msg Number", 0, 4>>,
             <<"System Information Mask", 4, 12>>>>),
         Word("HARQ Log Status", <<<<"HARQ Log Status", 3, 2>>,
             <<"Codeword Swap", 5, 1>>, <<"Number of Streams", 6, 2>>>>)>>),
       Sets({"Subframe Number"}), Names({"RNTI Type", "HARQ Log Status"}),
       ForEach("Number of Streams", PdschDecoding_v24_Record_Stream) >>
PdschDecoding_v24 ==
    << LtePhyPdschDecodingResult_Fmt, Reads({"Version"}),
       LtePhyPdschDecodingResult_Payload_v24,
       Split(<<Word("Carrier Index", <<<<"Number of Records", 3, 5>>,
             <<"Carrier Index", 0, 3>>>>),
         Word("Serving Cell ID", <<<<"Serving Cell ID", 0, 9>>,
             <<"Starting Subframe Number", 9, 4>>,
             <<"Starting System Frame Number", 13, 10>>, <<"UE Category", 24, 4>>,
             <<"Num DL HARQ", 28, 4>>>>),
         Word("TM Mode", <<<<"TM Mode", 4, 4>>>>)>>),
       Names({"Carrier Index"}),
       ForEach("Number of Records", PdschDecoding_v24_Record) >>

PdschDecoding_v27_Record_Stream_Metric == PdschDecoding_v24_Record_Stream_Metric
PdschDecoding_v27_Record_Stream ==
    << LtePhyPdschDecodingResult_Stream_v27,
       Split(<<Word("Transport Block CRC", <<<<"Transport Block CRC", 0, 1>>,
             <<"NDI", 1, 1>>, <<"Code Block Size Plus", 2, 13>>,
             <<"Num Code Block Plus", 15, 4>>, <<"Max TDEC Iter", 19, 4>>,
             <<"RVID", 26, 2>>, <<"Companding Stats", 28, 2>>,
             <<"HARQ Combining", 30, 1>>, <<"Decob TB CRC", 31, 1>>>>),
         Word("Retransmission Number", <<<<"Retransmission Number", 0, 12>>>>),
         Word("Num RE", <<<<"Num RE", 10, 16>>, <<"Codeword Index", 27, 1>>>>)>>),
       Names({"Transport Block CRC", "Retransmission Number", "Companding Stats",
         "HARQ Combining"}),
       ForEach("Num Code Block Plus", PdschDecoding_v27_Record_Stream_Metric),
       Pad(FreeSlots(13, 4)) >>
PdschDecoding_v27_Record ==
    << LtePhyPdschDecodingResult_Record_v24,
       Split(<<Word("HARQ ID", <<<<"HARQ ID", 0, 4>>, <<"RNTI Type", 4, 4>>>>),
         Word("System Information Msg Number", <<
             <<"System Information Msg Number", 0, 4>>,
             <<"System Information Mask", 4, 12>>>>),
         Word("HARQ Log Status", <<<<"HARQ Log Status", 3, 2>>,
             <<"Codeword Swap", 5, 1>>, <<"Number of Streams", 6, 2>>>>)>>),
       Names({"RNTI Type", "HARQ Log Status"}),
       ForEach("Number of Streams", PdschDecoding_v27_Record_Stream) >>
PdschDecoding_v27 ==
    << LtePhyPdschDecodingResult_Fmt, Reads({"Version"}),
       LtePhyPdschDecodingResult_Payload_v24,
       Split(<<Word("Carrier Index", <<<<"Number of Records", 3, 5>>,
             <<"Carrier Index", 0, 3>>>>),
         Word("Serving Cell ID", <<<<"Serving Cell ID", 0, 9>>,
             <<"Starting Subframe Number", 9, 4>>,
             <<"Starting System Frame Number", 13, 10>>, <<"UE Category", 24, 4>>,
             <<"Num DL HARQ", 28, 4>>>>),
         Word("TM Mode", <<<<"TM Mode", 4, 4>>>>)>>),
       Names({"Carrier Index"}),
       ForEach("Number of Records", PdschDecoding_v27_Record) >>

PdschDecoding_v44_Record_Stream_Metric ==
    << LtePhyPdschDecodingResult_EnergyMetric_v44,
       Split(<<Word("Energy Metric", <<<<"Energy Metric", 0, 21>>,
             <<"Iteration Number", 21, 4>>, <<"Code Block CRC Pass", 25, 1>>,
             <<"Early Termination", 26, 1>>, <<"HARQ Combine Enable", 27, 1>>,
             <<"Deint Decode Bypass", 28, 1>>>>)>>),
       Names({"Code Block CRC Pass", "Early Termination", "HARQ Combine Enable"}) >>
PdschDecoding_v44_Record_Stream ==
    << LtePhyPdschDecodingResult_Stream_v44,
       Split(<<Word("Transport Block CRC", <<<<"Transport Block CRC", 0, 1>>,
             <<"NDI", 1, 1>>, <<"Code Block Size Plus", 2, 13>>,
             <<"Num Code Block Plus", 15, 4>>, <<"Max TDEC Iter", 19, 4>>,
             <<"Retransmission Number", 23, 3>>, <<"RVID", 26, 2>>,
             <<"Companding Stats", 28, 2>>, <<"HARQ Combining", 30, 1>>,
             <<"Decob TB CRC", 31, 1>>>>),
         Word("Num RE", <<<<"Num RE", 10, 16>>, <<"Codeword Index", 27, 4>>>>),
         Word("LLR Scale", <<<<"LLR Scale", 0, 4>>>>)>>),
       Names({"Transport Block CRC", "Retransmission Number", "Companding Stats",
         "HARQ Combining"}),
       ForEach("Num Code Block Plus", PdschDecoding_v44_Record_Stream_Metric),
       Pad(FreeSlots(13, 4)) >>
PdschDecoding_v44_Record ==
    << LtePhyPdschDecodingResult_Record_v44, Reads({"Subframe Offset"}),
       Split(<<Word("HARQ ID", <<<<"HARQ ID", 0, 4>>, <<"RNTI Type", 4, 4>>>>),
         Word("System Information Msg Number", <<
             <<"System Information Msg Number", 0, 4>>,
             <<"System Information Mask", 4, 12>>>>),
         Word("HARQ Log Status", <<<<"HARQ Log Status", 3, 2>>,
             <<"Codeword Swap", 5, 1>>, <<"Number of Streams", 6, 2>>>>)>>),
       Sets({"Subframe Number"}), Names({"RNTI Type", "HARQ Log Status"}),
       ForEach("Number of Streams", PdschDecoding_v44_Record_Stream) >>
PdschDecoding_v44 ==
    << LtePhyPdschDecodingResult_Fmt, Reads({"Version"}),
       LtePhyPdschDecodingResult_Payload_v44,
       Split(<<Word("Carrier Index", <<<<"Number of Records", 11, 5>>,
             <<"Carrier Index", 7, 4>>>>),
         Word("Serving Cell ID", <<<<"Serving Cell ID", 0, 9>>,
             <<"Starting Subframe Number", 9, 4>>,
             <<"Starting System Frame Number", 13, 10>>, <<"UE Category", 24, 4>>,
             <<"Num DL HARQ", 28, 4>>>>),
         Word("TM Mode", <<<<"TM Mode", 4, 4>>>>)>>),
       Names({"Carrier Index"}),
       ForEach("Number of Records", PdschDecoding_v44_Record) >>

PdschDecoding_v105_Record_Stream_Metric == PdschDecoding_v44_Record_Stream_Metric
PdschDecoding_v105_Record_Stream ==
    << LtePhyPdschDecodingResult_Stream_v106,
       Split(<<Word("Transport Block CRC", <<<<"Transport Block CRC", 0, 1>>,
             <<"NDI", 1, 1>>, <<"Code Block Size Plus", 2, 13>>,
             <<"Num Code Block Plus Data", 15, 5>>,
             <<"Max TDEC Iter", 20, 4>>, <<"Retransmission Number", 24, 6>>,
             <<"RVID", 30, 2>>>>),
         Word("Companding Stats", <<<<"Companding Stats", 0, 2>>,
             <<"HARQ Combining", 2, 1>>, <<"Decob TB CRC", 3, 1>>, <<"Num RE", 14, 15>>,
             <<"Codeword Index", 30, 1>>>>),
         Word("LLR Scale", <<<<"LLR Scale", 6, 2>>>>)>>),
       Sets({"Num Code Block Plus"}),
       Names({"Transport Block CRC", "Retransmission Number", "Companding Stats",
         "HARQ Combining"}),
       Repeat(PdschDecoding_v105_Record_Stream_Metric), Pad(FreeSlots(32, 4)) >>
PdschDecoding_v105_Record ==
    << LtePhyPdschDecodingResult_Record_v105, Reads({"Subframe Offset"}),
       Split(<<Word("HARQ ID", <<<<"HARQ ID", 0, 4>>, <<"RNTI Type", 4, 4>>>>),
         Word("System Information Msg Number", <<
             <<"System Information Msg Number", 0, 4>>,
             <<"System Information Mask", 4, 12>>>>),
         Word("HARQ Log Status", <<<<"HARQ Log Status", 3, 2>>,
             <<"Codeword Swap", 5, 1>>, <<"Number of Streams", 6, 2>>>>),
         Word("Demap Sic Status", <<<<"Demap Sic Status", 0, 13>>>>)>>),
       Sets({"Subframe Number"}), Names({"RNTI Type", "HARQ Log Status"}),
       ForEach("Number of Streams", PdschDecoding_v105_Record_Stream) >>
PdschDecoding_v105 ==
    << LtePhyPdschDecodingResult_Fmt, Reads({"Version"}),
       LtePhyPdschDecodingResult_Payload_v106,
       Split(<<Word("Serving Cell ID", <<<<"Serving Cell ID", 0, 9>>,
             <<"Starting Subframe Number", 9, 4>>,
             <<"Starting System Frame Number", 13, 10>>, <<"UE Category", 24, 4>>,
             <<"Num DL HARQ", 28, 4>>>>),
         Word("TM Mode", <<<<"TM Mode", 4, 4>>>>),
         Word("Nir", <<<<"Nir", 0, 23>>, <<"Carrier Index", 23, 4>>,
             <<"Number of Records", 27, 5>>>>)>>),
       Names({"Carrier Index"}),
       ForEach("Number of Records", PdschDecoding_v105_Record) >>

PdschDecoding_v106_Record_Stream_Metric == PdschDecoding_v44_Record_Stream_Metric
PdschDecoding_v106_Record_Stream ==
    << LtePhyPdschDecodingResult_Stream_v106,
       Split(<<Word("Transport Block CRC", <<<<"Transport Block CRC", 0, 1>>,
             <<"NDI", 1, 1>>, <<"Code Block Size Plus", 2, 13>>,
             <<"Num Code Block Plus Data", 15, 5>>,
             <<"Max TDEC Iter", 20, 4>>, <<"Retransmission Number", 24, 6>>,
             <<"RVID", 30, 2>>>>),
         Word("Companding Stats", <<<<"Companding Stats", 0, 2>>,
             <<"HARQ Combining", 2, 1>>, <<"Decob TB CRC", 3, 1>>,
             <<"Effective Code Rate Data", 4, 10>>, <<"Num RE", 14, 15>>,
             <<"Codeword Index", 30, 1>>>>),
         Word("LLR Scale", <<<<"LLR Scale", 6, 2>>>>)>>),
       Sets({"Num Code Block Plus"}),
       Names({"Transport Block CRC", "Retransmission Number", "Companding Stats",
         "HARQ Combining"}),
       Repeat(PdschDecoding_v106_Record_Stream_Metric), Pad(FreeSlots(32, 4)) >>
PdschDecoding_v106_Record ==
    << LtePhyPdschDecodingResult_Record_v106, Reads({"Subframe Offset"}),
       Split(<<Word("HARQ ID", <<<<"HARQ ID", 0, 4>>, <<"RNTI Type", 4, 4>>>>),
         Word("System Information Msg Number", <<
             <<"System Information Msg Number", 0, 4>>,
             <<"System Information Mask", 4, 12>>>>),
         Word("HARQ Log Status", <<<<"HARQ Log Status", 3, 2>>,
             <<"Codeword Swap", 5, 1>>, <<"Number of Streams", 6, 2>>>>),
         Word("Demap Sic Status", <<<<"Demap Sic Status", 0, 13>>,
             <<"MVC Status", 13, 1>>, <<"MVC Clock Request", 14, 2>>>>)>>),
       Sets({"Subframe Number"}), Names({"RNTI Type", "HARQ Log Status"}),
       ForEach("Number of Streams", PdschDecoding_v106_Record_Stream) >>
PdschDecoding_v106 ==
    << LtePhyPdschDecodingResult_Fmt, Reads({"Version"}),
       LtePhyPdschDecodingResult_Payload_v106,
       Split(<<Word("Serving Cell ID", <<<<"Serving Cell ID", 0, 9>>,
             <<"Starting Subframe Number", 9, 4>>,
             <<"Starting System Frame Number", 13, 10>>, <<"UE Category", 24, 4>>,
             <<"Num DL HARQ", 28, 4>>>>),
         Word("TM Mode", <<<<"TM Mode", 4, 4>>>>),
         Word("Nir", <<<<"Nir", 0, 23>>, <<"Carrier Index", 23, 4>>,
             <<"Number of Records", 27, 5>>>>)>>),
       Names({"Carrier Index"}),
       ForEach("Number of Records", PdschDecoding_v106_Record) >>

PdschDecoding_v124_Record_Stream_Rest ==
    << Repeat(
         << LtePhyPdschDecodingResult_Hidden_Energy_Metrics_v124,
            Reads({"Hidden Energy Metric First Half",
              "Hidden Energy Metric Second Half"}) >>) >>
PdschDecoding_v124_Record_Stream ==
    << LtePhyPdschDecodingResult_TBlks_v124,
       Split(<<Word("Transport Block CRC", <<<<"Transport Block CRC", 0, 1>>,
             <<"NDI", 1, 1>>, <<"Retransmission Number", 2, 3>>, <<"RVID", 8, 2>>,
             <<"Code Block Size Plus", 10, 14>>, <<"Num Code Block Plus Data", 23, 2>>,
             <<"Max Half Iter Data", 28, 4>>>>),
         Word("Num Channel Bits", <<<<"Num Channel Bits", 0, 10>>, <<"CW Idx", 6, 2>>,
             <<"Llr Buf Valid", 9, 2>>, <<"First Decoded CB Index", 11, 3>>>>),
         Word("First Decoded CB Index Qed Iter2 Data", <<
             <<"First Decoded CB Index Qed Iter2 Data", 6, 6>>,
             <<"Last Decoded CB Index Qed Iter2 Data", 12, 6>>,
             <<"Companding Format", 18, 5>>>>),
         Word("Effective Code Rate Data", <<<<"Effective Code Rate Data", 5, 11>>>>),
         Word("HARQ Combine Enable", <<<<"HARQ Combine Enable", 1, 3>>>>)>>),
       Sets({"Num Code Block Plus", "Effective Code Rate"}),
       Names({"Transport Block CRC", "Retransmission Number", "Companding Format"}),
       PduBytes >>
    \o PdschDecoding_v124_Record_Stream_Rest
PdschDecoding_v124_Record ==
    << LtePhyPdschDecodingResult_Record_v124,
       Split(<<Word("HARQ ID", <<<<"HARQ ID", 0, 4>>, <<"RNTI Type", 4, 4>>>>),
         Word("Codeword Swap", <<<<"Codeword Swap", 0, 1>>,
             <<"Number of Transport Blks", 1, 3>>>>)>>),
       Names({"RNTI Type"}), Skip(8),
       ForEach("Number of Transport Blks", PdschDecoding_v124_Record_Stream) >>
PdschDecoding_v124 ==
    << LtePhyPdschDecodingResult_Fmt, Reads({"Version"}),
       LtePhyPdschDecodingResult_Payload_v124,
       Split(<<Word("Carrier Index", <<<<"Number of Records", 11, 5>>,
             <<"Carrier Index", 7, 4>>>>),
         Word("Serving Cell ID", <<<<"Serving Cell ID", 0, 9>>,
             <<"Starting Subframe Number", 9, 4>>,
             <<"Starting System Frame Number", 13, 11>>, <<"UE Category", 24, 4>>,
             <<"Num DL HARQ", 28, 4>>>>),
         Word("TM Mode", <<<<"TM Mode", 4, 4>>>>)>>),
       Names({"Carrier Index"}),
       ForEach("Number of Records", PdschDecoding_v124_Record) >>

PdschDecoding_v125_Record_Stream_Rest == PdschDecoding_v124_Record_Stream_Rest
PdschDecoding_v125_Record_Stream ==
    << LtePhyPdschDecodingResult_TBlks_v124,
       Split(<<Word("Transport Block CRC", <<<<"Transport Block CRC", 0, 1>>,
             <<"NDI", 1, 1>>, <<"Retransmission Number", 2, 6>>, <<"RVID", 8, 2>>,
             <<"Code Block Size Plus", 10, 13>>, <<"Num Code Block Plus Data", 23, 5>>,
             <<"Max Half Iter Data", 28, 4>>>>),
         Word("Num Channel Bits", <<<<"Num Channel Bits", 0, 19>>, <<"CW Idx", 19, 1>>,
             <<"Llr Buf Valid", 20, 1>>, <<"First Decoded CB Index", 21, 6>>>>),
         Word("First Decoded CB Index Qed Iter2 Data", <<
             <<"First Decoded CB Index Qed Iter2 Data", 6, 6>>,
             <<"Last Decoded CB Index Qed Iter2 Data", 12, 6>>,
             <<"Companding Format", 18, 5>>>>),
         Word("Effective Code Rate Data", <<<<"Effective Code Rate Data", 5, 11>>>>),
         Word("HARQ Combine Enable", <<<<"HARQ Combine Enable", 1, 3>>>>)>>),
       Sets({"Num Code Block Plus", "Effective Code Rate"}),
       Names({"Transport Block CRC", "Retransmission Number", "Companding Format"}),
       PduBytes >>
    \o PdschDecoding_v125_Record_Stream_Rest
PdschDecoding_v125_Record ==
    << LtePhyPdschDecodingResult_Record_v125, Reads({"Subframe Offset"}),
       Split(<<Word("HARQ ID", <<<<"HARQ ID", 0, 4>>, <<"RNTI Type", 4, 4>>>>),
         Word("Codeword Swap", <<<<"Codeword Swap", 0, 1>>,
             <<"Number of Transport Blks", 1, 3>>>>)>>),
       Sets({"Subframe Number", "System Subframe Number"}), Names({"RNTI Type"}),
       Skip(8), ForEach("Number of Transport Blks", PdschDecoding_v125_Record_Stream) >>
PdschDecoding_v125 ==
    << LtePhyPdschDecodingResult_Fmt, Reads({"Version"}),
       LtePhyPdschDecodingResult_Payload_v124,
       Split(<<Word("Carrier Index", <<<<"Number of Records", 11, 5>>,
             <<"Carrier Index", 7, 4>>>>),
         Word("Serving Cell ID", <<<<"Serving Cell ID", 0, 9>>,
             <<"Starting Subframe Number", 9, 4>>,
             <<"Starting System Frame Number", 13, 11>>, <<"UE Category", 24, 4>>,
             <<"Num DL HARQ", 28, 4>>>>),
         Word("TM Mode", <<<<"TM Mode", 4, 4>>>>)>>),
       Names({"Carrier Index"}),
       ForEach("Number of Records", PdschDecoding_v125_Record) >>

PdschDecoding_v126_Record_Stream_Rest ==
    << Repeat(
         << LtePhyPdschDecodingResult_Hidden_Energy_Metrics_v126,
            Reads({"Hidden Energy Metric First Half",
              "Hidden Energy Metric Second Half"}) >>) >>
PdschDecoding_v126_Record_Stream ==
    << LtePhyPdschDecodingResult_TBlks_v126,
       Split(<<Word("Transport Block CRC", <<<<"Transport Block CRC", 0, 1>>,
             <<"NDI", 1, 1>>, <<"Retransmission Number", 2, 6>>, <<"RVID", 8, 2>>,
             <<"Code Block Size Plus", 10, 13>>, <<"Num Code Block Plus Data", 23, 5>>,
             <<"Max Half Iter Data", 28, 4>>>>),
         Word("Num Channel Bits", <<<<"Num Channel Bits", 0, 19>>, <<"CW Idx", 19, 1>>,
             <<"Llr Buf Valid", 20, 1>>, <<"First Decoded CB Index", 21, 6>>>>),
         Word("First Decoded CB Index Qed Iter2 Data", <<
             <<"First Decoded CB Index Qed Iter2 Data", 6, 6>>,
             <<"Last Decoded CB Index Qed Iter2 Data", 12, 6>>,
             <<"Companding Format", 18, 5>>>>),
         Word("Effective Code Rate Data", <<<<"Effective Code Rate Data", 5, 11>>>>),
         Word("HARQ Combine Enable", <<<<"HARQ Combine Enable", 1, 3>>>>)>>),
       Sets({"Num Code Block Plus", "Effective Code Rate"}),
       Names({"Transport Block CRC", "Retransmission Number", "Companding Format"}),
       PduBytes >>
    \o PdschDecoding_v126_Record_Stream_Rest
PdschDecoding_v126_Record ==
    << LtePhyPdschDecodingResult_Record_v126,
       Split(<<Word("HARQ ID", <<<<"HARQ ID", 0, 4>>, <<"RNTI Type", 4, 4>>>>),
         Word("Codeword Swap", <<<<"Codeword Swap", 0, 1>>,
             <<"Number of Transport Blks", 1, 3>>>>)>>),
       Names({"RNTI Type"}), Skip(8),
       ForEach("Number of Transport Blks", PdschDecoding_v126_Record_Stream) >>
PdschDecoding_v126 ==
    << LtePhyPdschDecodingResult_Fmt, Reads({"Version"}),
       LtePhyPdschDecodingResult_Payload_v126,
       Split(<<Word("Carrier Index", <<<<"Number of Records", 11, 5>>,
             <<"Carrier Index", 7, 4>>>>),
         Word("Serving Cell ID", <<<<"Serving Cell ID", 0, 9>>,
             <<"Starting Subframe Number", 9, 4>>,
             <<"Starting System Frame Number", 13, 11>>, <<"UE Category", 24, 4>>,
             <<"Num DL HARQ", 28, 4>>>>),
         Word("TM Mode", <<<<"TM Mode", 4, 4>>>>)>>),
       Names({"Carrier Index"}),
       ForEach("Number of Records", PdschDecoding_v126_Record) >>

PdschDecoding_v143_Record_Stream_Rest ==
    << Repeat(
         << LtePhyPdschDecodingResult_Hidden_Energy_Metrics_v143,
            Reads({"Hidden Energy Metric First Half",
              "Hidden Energy Metric Second Half"}) >>) >>
PdschDecoding_v143_Record_Stream ==
    << LtePhyPdschDecodingResult_TBlks_v143,
       Split(<<Word("Transport Block CRC", <<<<"Transport Block CRC", 0, 1>>,
             <<"NDI", 1, 1>>, <<"Retransmission Number", 2, 6>>, <<"RVID", 8, 2>>,
             <<"Code Block Size Plus", 10, 13>>, <<"Num Code Block Plus Data", 23, 5>>>>),
         Word("Max Half Iter Data", <<<<"Max Half Iter Data", 0, 4>>,
             <<"Num Channel Bits", 4, 19>>, <<"CW Idx", 23, 1>>,
             <<"Llr Buf Valid", 24, 1>>, <<"First Decoded CB Index", 26, 6>>>>),
         Word("Companding Format", <<<<"Companding Format", 18, 2>>>>),
         Word("Effective Code Rate Data", <<<<"Effective Code Rate Data", 5, 11>>>>),
         Word("HARQ Combine Enable", <<<<"HARQ Combine Enable", 1, 3>>>>)>>),
       Sets({"Num Code Block Plus"}),
       Names({"Transport Block CRC", "Retransmission Number", "Companding Format"}),
       PduBytes >>
    \o PdschDecoding_v143_Record_Stream_Rest
PdschDecoding_v143_Record ==
    << LtePhyPdschDecodingResult_Record_v143,
       Split(<<Word("HARQ ID", <<<<"HARQ ID", 0, 4>>, <<"RNTI Type", 4, 4>>>>),
         Word("Codeword Swap", <<<<"Codeword Swap", 0, 1>>,
             <<"Number of Transport Blks", 1, 2>>>>)>>),
       Names({"RNTI Type"}), Skip(8),
       ForEach("Number of Transport Blks", PdschDecoding_v143_Record_Stream) >>
PdschDecoding_v143 ==
    << LtePhyPdschDecodingResult_Fmt, Reads({"Version"}),
       LtePhyPdschDecodingResult_Payload_v143,
       Split(<<Word("Carrier Index", <<<<"Number of Records", 11, 5>>,
             <<"Carrier Index", 7, 4>>>>),
         Word("Serving Cell ID", <<<<"Serving Cell ID", 0, 9>>,
             <<"Starting Subframe Number", 9, 4>>,
             <<"Starting System Frame Number", 13, 11>>, <<"UE Category", 24, 4>>,
             <<"Num DL HARQ", 28, 4>>>>),
         Word("TM Mode", <<<<"TM Mode", 4, 4>>>>)>>),
       Names({"Carrier Index"}),
       ForEach("Number of Records", PdschDecoding_v143_Record) >>
-----------------------------------------------------------------------------
(* _decode_lte_pdsch_stat_indication_payload *)

LtePdschStatIndication_Fmt == Fmt(1, <<<<"Version", 1>>>>, {})
LtePdschStatIndication_Payload_v36 == Fmt(3, <<<<"Num Records", 1>>>>, {})
LtePdschStatIndication_Record_v36_P1 == Fmt(12, <<<<"Subframe Num", 2>>,
      <<"Num Transport Blocks Present", 1>>, <<"Serving Cell Index", 1>>>>,
    {"Frame Num", "HSIC Enabled"})
LtePdschStatIndication_Record_TB_v36 == Fmt(12, <<<<"HARQ ID", 1>>, <<"RNTI Type", 1>>,
      <<"MCS", 1>>, <<"Modulation Type", 1>>, <<"QED2 Interim Status", 1>>>>,
    {"RV", "NDI", "CRC Result", "TB Index", "Discarded reTx Present", "Did Recombining",
      "QED Iteration", "ACK/NACK Decision"})
LtePdschStatIndication_Record_v36_P2 == Fmt(4, <<>>, {})
LtePdschStatIndication_Payload_v32 == Fmt(3, <<<<"Num Records", 1>>>>, {})
LtePdschStatIndication_Record_v32_P1 == Fmt(6, <<<<"Subframe Num", 2>>,
      <<"Num Transport Blocks Present", 1>>, <<"Serving Cell Index", 1>>>>,
    {"Frame Num", "HSIC Enabled"})
LtePdschStatIndication_Record_TB_v32 == Fmt(8, <<<<"HARQ ID", 1>>, <<"RNTI Type", 1>>,
      <<"MCS", 1>>, <<"Modulation Type", 1>>>>,
    {"RV", "NDI", "CRC Result", "TB Index", "Discarded reTx Present", "Did Recombining",
      "ACK/NACK Decision"})
LtePdschStatIndication_Record_v32_P2 == Fmt(2, <<>>, {})
LtePdschStatIndication_Payload_v24 == Fmt(3, <<<<"Num Records", 1>>>>, {})
LtePdschStatIndication_Record_v24_P1 == Fmt(6, <<<<"Subframe Num", 2>>,
      <<"Num Transport Blocks Present", 1>>, <<"Serving Cell Index", 1>>>>,
    {"Frame Num", "HSIC Enabled"})
LtePdschStatIndication_Record_TB_v24 == Fmt(8, <<<<"HARQ ID", 1>>, <<"RNTI Type", 1>>,
      <<"MCS", 1>>, <<"Modulation Type", 1>>>>,
    {"RV", "NDI", "CRC Result", "TB Index", "Discarded reTx Present", "Did Recombining",
      "ACK/NACK Decision"})
LtePdschStatIndication_Record_v24_P2 == Fmt(2, <<>>, {})
LtePdschStatIndication_Payload_v16 == Fmt(3, <<<<"Num Records", 1>>>>, {})
LtePdschStatIndication_Record_v16_P1 == Fmt(6, <<<<"Subframe Num", 2>>,
      <<"Num Transport Blocks Present", 1>>, <<"Serving Cell Index", 1>>>>,
    {"Frame Num", "HSIC Enabled"})
LtePdschStatIndication_Record_TB_v16 == Fmt(6, <<<<"HARQ ID", 1>>, <<"RNTI Type", 1>>,
      <<"MCS", 1>>>>,
    {"RV", "NDI", "CRC Result", "TB Index", "Discarded reTx Present", "Did Recombining",
      "ACK/NACK Decision"})
LtePdschStatIndication_Record_v16_P2 == Fmt(2, <<>>, {})
LtePdschStatIndication_Payload_v5 == Fmt(3, <<<<"Num Records", 1>>>>, {})
LtePdschStatIndication_Record_v5_P1 == Fmt(6, <<<<"Subframe Num", 2>>,
      <<"Num Transport Blocks Present", 1>>, <<"Serving Cell Index", 1>>>>,
    {"Frame Num"})
LtePdschStatIndication_Record_TB_v5 == Fmt(6, <<<<"HARQ ID", 1>>, <<"RNTI Type", 1>>,
      <<"MCS", 1>>>>,
    {"RV", "NDI", "CRC Result", "TB Index", "Discarded reTx Present", "Did Recombining",
      "Modulation Type", "ACK/NACK Decision"})
LtePdschStatIndication_Record_v5_P2 == Fmt(2, <<>>, {})
LtePdschStatIndication_Payload_v37 == Fmt(3, <<<<"Num Records", 1>>>>, {})
LtePdschStatIndication_Record_v37_P1 == Fmt(12, <<<<"Subframe Num", 2>>,
      <<"Num Transport Blocks Present", 1>>, <<"Serving Cell Index", 1>>>>,
    {"Frame Num"})
LtePdschStatIndication_Record_TB_v37 == Fmt(12, <<<<"HARQ ID", 1>>, <<"RNTI Type", 1>>,
      <<"Did Recombining", 1>>, <<"MCS", 1>>, <<"Modulation Type", 1>>,
      <<"QED2 Interim Status", 1>>>>,
    {"RV", "NDI", "CRC Result", "TB Index", "Discarded reTx Present", "Discarded ReTx",
      "QED Iteration", "ACK/NACK Decision"})
LtePdschStatIndication_Record_v37_P2 == Fmt(4, <<>>, {})
LtePdschStatIndication_Payload_v40 == Fmt(3, <<<<"Num Records", 1>>>>, {})
LtePdschStatIndication_Record_v40_P1 == Fmt(12, <<<<"Subframe Num", 2>>,
      <<"Num Transport Blocks Present", 1>>, <<"Serving Cell Index", 1>>>>,
    {"Frame Num"})
LtePdschStatIndication_Record_TB_v40 == Fmt(12, <<<<"HARQ ID", 1>>, <<"RNTI Type", 2>>,
      <<"MCS", 1>>, <<"Modulation Type", 1>>, <<"QED2 Interim Status", 1>>>>,
    {"RV", "NDI", "CRC Result", "TB Index", "Discarded reTx Present", "Discarded ReTx",
      "Did Recombining", "QED Iteration", "ACK/NACK Decision"})
LtePdschStatIndication_Record_v40_P2 == Fmt(4, <<>>, {})
LtePdschStatIndication_Payload_v34 == Fmt(3, <<<<"Num Records", 1>>>>, {})
LtePdschStatIndication_Record_v34_P1 == Fmt(6, <<<<"Subframe Num", 2>>,
      <<"Num Transport Blocks Present", 1>>, <<"Serving Cell Index", 1>>>>,
    {"Frame Num"})
LtePdschStatIndication_Record_TB_v34 == Fmt(8, <<<<"HARQ ID", 1>>, <<"RNTI Type", 1>>,
      <<"MCS", 1>>, <<"Modulation Type", 1>>, <<"QED2 Interim Status", 1>>>>,
    {"RV", "NDI", "CRC Result", "TB Index", "Discarded ReTx", "Did Recombining",
      "QED Iteration", "ACK/NACK Decision"})
LtePdschStatIndication_Record_v34_P2 == Fmt(2, <<>>, {})

PdschStat_v36_Record_TB ==
    << LtePdschStatIndication_Record_TB_v36,
       Split(<<Word("HARQ ID", <<<<"HARQ ID", 0, 4>>, <<"RV", 4, 2>>, <<"NDI", 6, 1>>,
             <<"CRC Result", 7, 1>>, <<"ACK/NACK Decision", 7, 1>>>>),
         Word("RNTI Type", <<<<"RNTI Type", 0, 4>>, <<"TB Index", 4, 1>>,
             <<"Discarded reTx Present", 5, 1>>, <<"Did Recombining", 6, 1>>>>),
         Word("QED2 Interim Status", <<<<"QED2 Interim Status", 0, 2>>,
             <<"QED Iteration", 2, 4>>, <<"QED Iteration", 7, 1>>>>)>>),
       Names({"CRC Result", "RNTI Type", "Discarded reTx Present", "Did Recombining",
         "Modulation Type", "ACK/NACK Decision"}) >>
PdschStat_v36_Record_Rest ==
    << Pad(SecondSlot(12)), LtePdschStatIndication_Record_v36_P2 >>
PdschStat_v36_Record ==
    << LtePdschStatIndication_Record_v36_P1, Reads({"Num Transport Blocks Present"}),
       Split(<<Word("Subframe Num", <<<<"Subframe Num", 0, 4>>,
             <<"Frame Num", 4, 12>>>>),
         Word("Serving Cell Index", <<<<"Serving Cell Index", 0, 3>>,
             <<"HSIC Enabled", 3, 4>>>>)>>),
       Names({"Serving Cell Index", "HSIC Enabled"}),
       ForEach("Num Transport Blocks Present", PdschStat_v36_Record_TB) >>
    \o PdschStat_v36_Record_Rest
PdschStat_v36 ==
    << LtePdschStatIndication_Fmt, Reads({"Version"}),
       LtePdschStatIndication_Payload_v36, Reads({"Num Records"}),
       ForEach("Num Records", PdschStat_v36_Record) >>

PdschStat_v32_Record_TB ==
    << LtePdschStatIndication_Record_TB_v32,
       Split(<<Word("HARQ ID", <<<<"HARQ ID", 0, 4>>, <<"RV", 4, 2>>, <<"NDI", 6, 1>>,
             <<"CRC Result", 7, 1>>, <<"ACK/NACK Decision", 7, 1>>>>),
         Word("RNTI Type", <<<<"RNTI Type", 0, 4>>, <<"TB Index", 4, 1>>,
             <<"Discarded reTx Present", 5, 1>>, <<"Did Recombining", 6, 1>>>>)>>),
       Names({"CRC Result", "RNTI Type", "Discarded reTx Present", "Did Recombining",
         "Modulation Type", "ACK/NACK Decision"}) >>
PdschStat_v32_Record ==
    << LtePdschStatIndication_Record_v32_P1, Reads({"Num Transport Blocks Present"}),
       Split(<<Word("Subframe Num", <<<<"Subframe Num", 0, 4>>,
             <<"Frame Num", 4, 12>>>>),
         Word("Serving Cell Index", <<<<"Serving Cell Index", 0, 3>>,
             <<"HSIC Enabled", 3, 4>>>>)>>),
       Names({"Serving Cell Index", "HSIC Enabled"}),
       ForEach("Num Transport Blocks Present", PdschStat_v32_Record_TB),
       Pad(SecondSlot(8)), LtePdschStatIndication_Record_v32_P2 >>
PdschStat_v32 ==
    << LtePdschStatIndication_Fmt, Reads({"Version"}),
       LtePdschStatIndication_Payload_v32, Reads({"Num Records"}),
       ForEach("Num Records", PdschStat_v32_Record) >>

PdschStat_v24_Record_TB ==
    << LtePdschStatIndication_Record_TB_v24,
       Split(<<Word("HARQ ID", <<<<"HARQ ID", 0, 4>>, <<"RV", 4, 2>>, <<"NDI", 6, 1>>,
             <<"CRC Result", 7, 1>>, <<"ACK/NACK Decision", 7, 1>>>>),
         Word("RNTI Type", <<<<"RNTI Type", 0, 4>>, <<"TB Index", 4, 1>>,
             <<"Discarded reTx Present", 5, 1>>, <<"Did Recombining", 6, 1>>>>)>>),
       Names({"CRC Result", "RNTI Type", "Discarded reTx Present", "Did Recombining",
         "Modulation Type", "ACK/NACK Decision"}) >>
PdschStat_v24_Record ==
    << LtePdschStatIndication_Record_v24_P1, Reads({"Num Transport Blocks Present"}),
       Split(<<Word("Subframe Num", <<<<"Subframe Num", 0, 4>>,
             <<"Frame Num", 4, 12>>>>),
         Word("Serving Cell Index", <<<<"Serving Cell Index", 0, 3>>,
             <<"HSIC Enabled", 3, 4>>>>)>>),
       Names({"Serving Cell Index", "HSIC Enabled"}),
       ForEach("Num Transport Blocks Present", PdschStat_v24_Record_TB),
       Pad(SecondSlot(8)), LtePdschStatIndication_Record_v24_P2 >>
PdschStat_v24 ==
    << LtePdschStatIndication_Fmt, Reads({"Version"}),
       LtePdschStatIndication_Payload_v24, Reads({"Num Records"}),
       ForEach("Num Records", PdschStat_v24_Record) >>

PdschStat_v16_Record ==
    << LtePdschStatIndication_Record_v16_P1, Reads({"Num Transport Blocks Present"}),
       Split(<<Word("Subframe Num", <<<<"Subframe Num", 0, 4>>,
             <<"Frame Num", 4, 12>>>>),
         Word("Serving Cell Index", <<<<"Serving Cell Index", 0, 3>>,
             <<"HSIC Enabled", 3, 4>>>>)>>),
       Names({"Serving Cell Index", "HSIC Enabled"}),
       ForEach("Num Transport Blocks Present",
         << LtePdschStatIndication_Record_TB_v16,
            Split(<<Word("HARQ ID", <<<<"HARQ ID", 0, 4>>, <<"RV", 4, 2>>,
                  <<"NDI", 6, 1>>, <<"CRC Result", 7, 1>>,
                  <<"ACK/NACK Decision", 7, 1>>>>),
              Word("RNTI Type", <<<<"RNTI Type", 0, 4>>, <<"TB Index", 4, 1>>,
                  <<"Discarded reTx Present", 5, 1>>, <<"Did Recombining", 6, 1>>>>)>>),
            Names({"CRC Result", "RNTI Type", "Discarded reTx Present",
              "Did Recombining", "ACK/NACK Decision"}) >>),
       Pad(SecondSlot(6)), LtePdschStatIndication_Record_v16_P2 >>
PdschStat_v16 ==
    << LtePdschStatIndication_Fmt, Reads({"Version"}),
       LtePdschStatIndication_Payload_v16, Reads({"Num Records"}),
       ForEach("Num Records", PdschStat_v16_Record) >>

PdschStat_v5_Record_TB ==
    << LtePdschStatIndication_Record_TB_v5, Reads({"MCS"}),
       Split(<<Word("HARQ ID", <<<<"HARQ ID", 0, 4>>, <<"RV", 4, 2>>, <<"NDI", 6, 1>>,
             <<"CRC Result", 7, 1>>, <<"ACK/NACK Decision", 7, 1>>>>),
         Word("RNTI Type", <<<<"RNTI Type", 0, 4>>, <<"TB Index", 4, 1>>,
             <<"Discarded reTx Present", 5, 1>>, <<"Did Recombining", 6, 1>>>>)>>),
       Sets({"Modulation Type"}),
       Names({"CRC Result", "RNTI Type", "Discarded reTx Present", "Did Recombining",
         "Modulation Type", "ACK/NACK Decision"}) >>
PdschStat_v5_Record ==
    << LtePdschStatIndication_Record_v5_P1, Reads({"Num Transport Blocks Present"}),
       Split(<<Word("Subframe Num", <<<<"Subframe Num", 0, 4>>,
             <<"Frame Num", 4, 12>>>>),
         Word("Serving Cell Index", <<<<"Serving Cell Index", 0, 3>>>>)>>),
       Names({"Serving Cell Index"}),
       ForEach("Num Transport Blocks Present", PdschStat_v5_Record_TB),
       Pad(SecondSlot(6)), LtePdschStatIndication_Record_v5_P2 >>
PdschStat_v5 ==
    << LtePdschStatIndication_Fmt, Reads({"Version"}),
       LtePdschStatIndication_Payload_v5, Reads({"Num Records"}),
       ForEach("Num Records", PdschStat_v5_Record) >>

PdschStat_v37_Record_TB ==
    << LtePdschStatIndication_Record_TB_v37,
       Split(<<Word("HARQ ID", <<<<"HARQ ID", 0, 4>>, <<"RV", 4, 2>>, <<"NDI", 6, 1>>,
             <<"CRC Result", 7, 1>>, <<"ACK/NACK Decision", 7, 1>>>>),
         Word("RNTI Type", <<<<"RNTI Type", 0, 4>>, <<"TB Index", 4, 1>>,
             <<"Discarded ReTx", 6, 2>>, <<"Discarded reTx Present", 5, 1>>>>),
         Word("Did Recombining", <<<<"Did Recombining", 0, 1>>>>),
         Word("QED2 Interim Status", <<<<"QED2 Interim Status", 0, 2>>,
             <<"QED Iteration", 2, 4>>, <<"QED Iteration", 7, 1>>>>)>>),
       Names({"CRC Result", "RNTI Type", "Discarded ReTx", "Discarded reTx Present",
         "Did Recombining", "Modulation Type", "ACK/NACK Decision"}) >>
PdschStat_v37_Record_Rest ==
    << Pad(SecondSlot(12)), LtePdschStatIndication_Record_v37_P2 >>
PdschStat_v37_Record ==
    << LtePdschStatIndication_Record_v37_P1, Reads({"Num Transport Blocks Present"}),
       Split(<<Word("Subframe Num", <<<<"Subframe Num", 0, 4>>,
             <<"Frame Num", 4, 12>>>>),
         Word("Serving Cell Index", <<<<"Serving Cell Index", 0, 3>>>>)>>),
       Names({"Serving Cell Index"}),
       ForEach("Num Transport Blocks Present", PdschStat_v37_Record_TB) >>
    \o PdschStat_v37_Record_Rest
PdschStat_v37 ==
    << LtePdschStatIndication_Fmt, Reads({"Version"}),
       LtePdschStatIndication_Payload_v37, Reads({"Num Records"}),
       ForEach("Num Records", PdschStat_v37_Record) >>

PdschStat_v40_Record_TB ==
    << LtePdschStatIndication_Record_TB_v40,
       Split(<<Word("HARQ ID", <<<<"HARQ ID", 0, 4>>, <<"RV", 4, 2>>, <<"NDI", 6, 1>>,
             <<"CRC Result", 7, 1>>, <<"ACK/NACK Decision", 7, 1>>>>),
         Word("RNTI Type", <<<<"RNTI Type", 0, 4>>, <<"TB Index", 4, 1>>,
             <<"Discarded reTx Present", 5, 1>>, <<"Discarded ReTx", 6, 4>>,
             <<"Did Recombining", 10, 1>>>>),
         Word("QED2 Interim Status", <<<<"QED2 Interim Status", 0, 2>>,
             <<"QED Iteration", 2, 4>>, <<"QED Iteration", 7, 1>>>>)>>),
       Names({"CRC Result", "RNTI Type", "Discarded reTx Present", "Did Recombining",
         "Modulation Type", "ACK/NACK Decision"}) >>
PdschStat_v40_Record_Rest ==
    << Pad(SecondSlot(12)), LtePdschStatIndication_Record_v40_P2 >>
PdschStat_v40_Record ==
    << LtePdschStatIndication_Record_v40_P1, Reads({"Num Transport Blocks Present"}),
       Split(<<Word("Subframe Num", <<<<"Subframe Num", 0, 4>>,
             <<"Frame Num", 4, 12>>>>),
         Word("Serving Cell Index", <<<<"Serving Cell Index", 0, 3>>>>)>>),
       Names({"Serving Cell Index", "HSIC Enabled"}),
       ForEach("Num Transport Blocks Present", PdschStat_v40_Record_TB) >>
    \o PdschStat_v40_Record_Rest
PdschStat_v40 ==
    << LtePdschStatIndication_Fmt, Reads({"Version"}),
       LtePdschStatIndication_Payload_v40, Reads({"Num Records"}),
       ForEach("Num Records", PdschStat_v40_Record) >>

PdschStat_v34_Record_TB ==
    << LtePdschStatIndication_Record_TB_v34,
       Split(<<Word("HARQ ID", <<<<"HARQ ID", 0, 4>>, <<"RV", 4, 2>>, <<"NDI", 6, 1>>,
             <<"CRC Result", 7, 1>>, <<"ACK/NACK Decision", 7, 1>>>>),
         Word("RNTI Type", <<<<"RNTI Type", 0, 4>>, <<"TB Index", 4, 1>>,
             <<"Discarded ReTx", 5, 1>>, <<"Did Recombining", 6, 1>>>>),
         Word("QED2 Interim Status", <<<<"QED2 Interim Status", 0, 2>>,
             <<"QED Iteration", 2, 4>>, <<"QED Iteration", 7, 1>>>>)>>),
       Names({"CRC Result", "RNTI Type", "Discarded ReTx", "Did Recombining",
         "Modulation Type", "ACK/NACK Decision", "QED Iteration"}) >>
PdschStat_v34_Record_Rest ==
    << Pad(SecondSlot(8)), LtePdschStatIndication_Record_v34_P2 >>
PdschStat_v34_Record ==
    << LtePdschStatIndication_Record_v34_P1, Reads({"Num Transport Blocks Present"}),
       Split(<<Word("Subframe Num", <<<<"Subframe Num", 0, 4>>,
             <<"Frame Num", 4, 12>>>>),
         Word("Serving Cell Index", <<<<"Serving Cell Index", 0, 3>>>>)>>),
       Names({"Serving Cell Index"}),
       ForEach("Num Transport Blocks Present", PdschStat_v34_Record_TB) >>
    \o PdschStat_v34_Record_Rest
PdschStat_v34 ==
    << LtePdschStatIndication_Fmt, Reads({"Version"}),
       LtePdschStatIndication_Payload_v34, Reads({"Num Records"}),
       ForEach("Num Records", PdschStat_v34_Record) >>
-----------------------------------------------------------------------------
(* _decode_lte_phy_pdsch_demapper_config *)

LtePhyPdschDemapperConfigFmt == Fmt(1, <<<<"Version", 1>>>>, {})
LtePhyPdschDemapperConfigFmt_v23 == Fmt(51, <<<<"Serving Cell ID", 1>>,
      <<"System Frame Number", 2>>, <<"Number of Tx Antennas(M)", 2>>,
      <<"Frequency Selective PMI", 1>>, <<"Transmission Scheme", 1>>, <<"MCS 0", 2>>,
      <<"MCS 1", 2>>>>,
    {"Subframe Number", "PDSCH RNTI Type", "Number of Rx Antennas(N)", "Spatial Rank",
      "PMI Index", "Traffic to Pilot Ratio", "Carrier Index"})
LtePhyPdschDemapperConfigFmt_v28 == Fmt(55, <<<<"Serving Cell ID", 1>>,
      <<"System Frame Number", 2>>, <<"Number of Tx Antennas(M)", 2>>,
      <<"Frequency Selective PMI", 1>>, <<"Transmission Scheme", 1>>,
      <<"Repetition Index Data", 2>>, <<"MCS 0", 2>>, <<"MCS 1", 2>>,
      <<"Repetition Total", 4>>>>,
    {"Subframe Number", "PDSCH RNTI Type", "Number of Rx Antennas(N)", "Spatial Rank",
      "PMI Index", "Traffic to Pilot Ratio", "Carrier Index", "NB Index",
      "SIB1-BR Collision", "SIBx Collision"})
LtePhyPdschDemapperConfigFmt_v103 == Fmt(55, <<<<"Serving Cell ID", 1>>,
      <<"System Frame Number", 2>>, <<"Number of Tx Antennas(M)", 2>>,
      <<"Frequency Selective PMI", 1>>, <<"Transmission Scheme", 1>>, <<"MCS 0", 2>>,
      <<"MCS 1", 2>>>>,
    {"Subframe Number", "PDSCH RNTI Type", "Number of Rx Antennas(N)", "Spatial Rank",
      "PMI Index", "Traffic to Pilot Ratio", "Carrier Index"})
LtePhyPdschDemapperConfigFmt_v104 == Fmt(55, <<<<"Serving Cell ID", 1>>,
      <<"System Frame Number", 2>>, <<"Number of Tx Antennas(M)", 2>>,
      <<"Frequency Selective PMI", 1>>, <<"Transmission Scheme", 1>>, <<"MCS 0", 2>>,
      <<"MCS 1", 2>>>>,
    {"Subframe Number", "PDSCH RNTI Type", "Number of Rx Antennas(N)", "Spatial Rank",
      "PMI Index", "Traffic to Pilot Ratio", "Carrier Index"})
LtePhyPdschDemapperConfigFmt_v122 == Fmt(55, <<<<"Serving Cell ID", 1>>,
      <<"System Frame Number", 2>>, <<"Number of Tx Antennas(M)", 2>>,
      <<"PMI Index", 2>>, <<"MVC", 1>>, <<"MCS 0", 2>>, <<"MCS 1", 2>>,
      <<"Op Mode", 4>>>>,
    {"Subframe Number", "PDSCH RNTI Type", "Number of Rx Antennas(N)", "Spatial Rank",
      "Frequency Selective PMI", "Transmission Scheme", "BMOD FD Sym Index",
      "MVC Clock", "MVC Request Up", "Traffic to Pilot Ratio", "PB", "Carrier Index",
      "CSI-RS Exist", "ZP CSI-RS Exist", "CSI-RS Symbol Skipped", "Strong ICell ID",
      "Joint Demod Skip Reason"})
LtePhyPdschDemapperConfigFmt_v123 == Fmt(55, <<<<"Serving Cell ID", 1>>,
      <<"System Frame Number", 2>>, <<"Number of Tx Antennas(M)", 2>>,
      <<"PMI Index", 2>>, <<"MCS 0", 2>>, <<"MCS 1", 2>>, <<"Op Mode", 4>>>>,
    {"Subframe Number", "PDSCH RNTI Type", "Number of Rx Antennas(N)", "Spatial Rank",
      "Frequency Selective PMI", "Transmission Scheme", "BMOD FD Sym Index",
      "Traffic to Pilot Ratio", "PB", "Carrier Index", "CSI-RS Exist",
      "ZP CSI-RS Exist", "CSI-RS Symbol Skipped", "Strong ICell ID",
      "Joint Demod Skip Reason"})
LtePhyPdschDemapperConfigFmt_header_144 == Fmt(7, <<<<"Carrier Index", 4>>>>,
    {"Num of Records"})
LtePhyPdschDemapperConfigFmt_v144 == Fmt(56, <<<<"Serving Cell ID", 4>>,
      <<"Spatial Rank", 1>>, <<"PMI Index", 1>>, <<"UERS Port Enabled", 4>>,
      <<"ZP CSI-RS Exist", 4>>, <<"Modulation Stream 1", 4>>>>,
    {"Sub-frame Number", "System Frame Number", "PDSCH RNTI Type",
      "Number of Tx Antennas (M)", "Number of Rx Antennas (N)",
      "Frequency Selective PMI", "MU Receiver Mode", "Transmission Scheme",
      "BMOD FD Sym Index", "Transport Block Size Stream 0", "Modulation Stream 0", "PB",
      "RhoB/RhoA", "CSI-RS Exist", "CSI-RS Symbol Skipped",
      "Traffic to Pilot Ratio Data", "Transport Block Size Stream 1",
      "SCH0 Memory Map Mode", "SCH1 Memory Map Mode", "Strong ICell ID",
      "Qice Enable Mode", "Qice Skip Reason", "Csf Dual Rnn Sel",
      "Plq Num Enabled Rd Groups", "Plg Num Loaded Rb Groups", "Qed Mode"})

PdschDemapper_v23 ==
    << LtePhyPdschDemapperConfigFmt, Reads({"Version"}),
       LtePhyPdschDemapperConfigFmt_v23,
       Split(<<Word("Serving Cell ID", <<<<"Serving Cell ID", 0, Above>>>>),
         Word("System Frame Number", <<<<"Serving Cell ID", 0, 1>>,
             <<"System Frame Number", 5, 10>>, <<"Subframe Number", 1, 4>>>>),
         Word("Number of Tx Antennas(M)", <<<<"PDSCH RNTI Type", 0, 4>>,
             <<"Number of Tx Antennas(M)", 8, 2>>,
             <<"Number of Rx Antennas(N)", 10, 1>>, <<"Spatial Rank", 14, 2>>>>),
         Word("Frequency Selective PMI", <<<<"Frequency Selective PMI", 1, 2>>,
             <<"PMI Index", 4, 4>>>>),
         Word("Transmission Scheme", <<<<"Transmission Scheme", 0, 4>>>>),
         Word("MCS 0", <<<<"MCS 0", 1, 2>>, <<"Traffic to Pilot Ratio", 3, 12>>>>),
         Word("MCS 1", <<<<"MCS 1", 1, 2>>, <<"Carrier Index", 9, 4>>>>)>>),
       Names({"PDSCH RNTI Type", "Spatial Rank", "Frequency Selective PMI",
         "Transmission Scheme", "MCS 0", "MCS 1", "Carrier Index"}) >>

PdschDemapper_v28 ==
    << LtePhyPdschDemapperConfigFmt, Reads({"Version"}),
       LtePhyPdschDemapperConfigFmt_v28,
       Split(<<Word("Serving Cell ID", <<<<"Serving Cell ID", 0, Above>>>>),
         Word("System Frame Number", <<<<"Serving Cell ID", 0, 1>>,
             <<"System Frame Number", 5, 10>>, <<"Subframe Number", 1, 4>>>>),
         Word("Number of Tx Antennas(M)", <<<<"PDSCH RNTI Type", 0, 4>>,
             <<"Number of Tx Antennas(M)", 8, 2>>,
             <<"Number of Rx Antennas(N)", 10, 1>>, <<"Spatial Rank", 14, 2>>>>),
         Word("Repetition Index Data", <<<<"Repetition Index Data", 0, 10>>>>),
         Word("Transmission Scheme", <<<<"Repetition Index Data", 6, 2>>,
             <<"Transmission Scheme", 0, 4>>>>),
         Word("Frequency Selective PMI", <<<<"Frequency Selective PMI", 1, 2>>,
             <<"PMI Index", 4, 4>>>>),
         Word("MCS 0", <<<<"MCS 0", 1, 2>>, <<"Traffic to Pilot Ratio", 3, 12>>>>),
         Word("MCS 1", <<<<"MCS 1", 1, 2>>, <<"Carrier Index", 9, 4>>>>),
         Word("Repetition Total", <<<<"Repetition Total", 8, 16>>,
             <<"NB Index", 24, 6>>, <<"SIB1-BR Collision", 30, 1>>,
             <<"SIBx Collision", 31, 1>>>>)>>),
       Names({"PDSCH RNTI Type", "Spatial Rank", "Frequency Selective PMI",
         "Transmission Scheme", "MCS 0", "MCS 1", "Carrier Index"}) >>

PdschDemapper_v103 ==
    << LtePhyPdschDemapperConfigFmt, Reads({"Version"}),
       LtePhyPdschDemapperConfigFmt_v103,
       Split(<<Word("Serving Cell ID", <<<<"Serving Cell ID", 0, Above>>>>),
         Word("System Frame Number", <<<<"Serving Cell ID", 0, 1>>,
             <<"System Frame Number", 5, 10>>, <<"Subframe Number", 1, 4>>>>),
         Word("Number of Tx Antennas(M)", <<<<"PDSCH RNTI Type", 0, 4>>,
             <<"Number of Tx Antennas(M)", 8, 2>>,
             <<"Number of Rx Antennas(N)", 10, 1>>, <<"Spatial Rank", 14, 2>>>>),
         Word("Frequency Selective PMI", <<<<"Frequency Selective PMI", 1, 2>>,
             <<"PMI Index", 4, 4>>>>),
         Word("Transmission Scheme", <<<<"Transmission Scheme", 0, 4>>>>),
         Word("MCS 0", <<<<"MCS 0", 2, 2>>, <<"Traffic to Pilot Ratio", 4, 13>>>>),
         Word("MCS 1", <<<<"MCS 1", 2, 2>>, <<"Carrier Index", 9, 4>>>>)>>),
       Names({"PDSCH RNTI Type", "Spatial Rank", "Frequency Selective PMI",
         "Transmission Scheme", "MCS 0", "MCS 1", "Carrier Index"}) >>

PdschDemapper_v104 ==
    << LtePhyPdschDemapperConfigFmt, Reads({"Version"}),
       LtePhyPdschDemapperConfigFmt_v104,
       Split(<<Word("Serving Cell ID", <<<<"Serving Cell ID", 0, Above>>>>),
         Word("System Frame Number", <<<<"Serving Cell ID", 0, 1>>,
             <<"System Frame Number", 5, 10>>, <<"Subframe Number", 1, 4>>>>),
         Word("Number of Tx Antennas(M)", <<<<"PDSCH RNTI Type", 0, 4>>,
             <<"Number of Tx Antennas(M)", 8, 2>>,
             <<"Number of Rx Antennas(N)", 10, 1>>, <<"Spatial Rank", 14, 2>>>>),
         Word("Frequency Selective PMI", <<<<"Frequency Selective PMI", 1, 2>>,
             <<"PMI Index", 4, 4>>>>),
         Word("Transmission Scheme", <<<<"Transmission Scheme", 0, 4>>>>),
         Word("MCS 0", <<<<"MCS 0", 2, 2>>, <<"Traffic to Pilot Ratio", 4, 13>>>>),
         Word("MCS 1", <<<<"MCS 1", 2, 2>>, <<"Carrier Index", 9, 4>>>>)>>),
       Names({"PDSCH RNTI Type", "Spatial Rank", "Frequency Selective PMI",
         "Transmission Scheme", "MCS 0", "MCS 1", "Carrier Index"}) >>

PdschDemapper_v122_Rest ==
    << Split(<<Word("MCS 0", <<<<"MCS 0", 2, 2>>,
             <<"Traffic to Pilot Ratio", 4, 13>>>>),
         Word("MCS 1", <<<<"MCS 1", 2, 2>>, <<"PB", 4, 2>>, <<"Carrier Index", 6, 4>>,
             <<"CSI-RS Exist", 10, 1>>, <<"ZP CSI-RS Exist", 11, 1>>,
             <<"CSI-RS Symbol Skipped", 12, 1>>>>),
         Word("Op Mode", <<<<"Op Mode", 0, 1>>, <<"Op Mode", 2, 1>>,
             <<"Op Mode", 4, 1>>, <<"Strong ICell ID", 4, 9>>,
             <<"Joint Demod Skip Reason", 13, 5>>>>)>>),
       Names({"PDSCH RNTI Type", "Number of Tx Antennas(M)", "Number of Rx Antennas(N)",
         "Spatial Rank", "Frequency Selective PMI", "Transmission Scheme", "MVC Clock",
         "MCS 0", "MCS 1", "Carrier Index", "Op Mode", "Joint Demod Skip Reason"}) >>
PdschDemapper_v122 ==
    << LtePhyPdschDemapperConfigFmt, Reads({"Version"}),
       LtePhyPdschDemapperConfigFmt_v122,
       Split(<<Word("Serving Cell ID", <<<<"Serving Cell ID", 0, Above>>>>),
         Word("System Frame Number", <<<<"Serving Cell ID", 0, 1>>,
             <<"System Frame Number", 5, 10>>, <<"Subframe Number", 1, 4>>>>),
         Word("Number of Tx Antennas(M)", <<<<"PDSCH RNTI Type", 0, 4>>,
             <<"Number of Tx Antennas(M)", 6, 2>>, <<"Number of Rx Antennas(N)", 8, 2>>,
             <<"Spatial Rank", 12, 2>>, <<"Frequency Selective PMI", 15, 1>>>>),
         Word("PMI Index", <<<<"PMI Index", 2, 4>>, <<"Transmission Scheme", 6, 4>>,
             <<"BMOD FD Sym Index", 12, 4>>>>),
         Word("MVC", <<<<"MVC", 2, 1>>, <<"MVC Clock", 3, 4>>,
             <<"MVC Request Up", 7, 1>>>>)>>) >>
    \o PdschDemapper_v122_Rest

PdschDemapper_v123_Rest ==
    << Split(<<Word("MCS 1", <<<<"MCS 1", 2, 2>>, <<"PB", 4, 2>>,
             <<"Carrier Index", 6, 4>>, <<"CSI-RS Exist", 10, 1>>,
             <<"ZP CSI-RS Exist", 11, 1>>, <<"CSI-RS Symbol Skipped", 12, 1>>>>),
         Word("Op Mode", <<<<"Op Mode", 0, 1>>, <<"Op Mode", 2, 1>>,
             <<"Op Mode", 4, 1>>, <<"Strong ICell ID", 4, 9>>,
             <<"Joint Demod Skip Reason", 13, 5>>>>)>>),
       Names({"PDSCH RNTI Type", "Number of Tx Antennas(M)", "Number of Rx Antennas(N)",
         "Spatial Rank", "Frequency Selective PMI", "Transmission Scheme", "MCS 0",
         "MCS 1", "Carrier Index", "Op Mode", "Joint Demod Skip Reason"}) >>
PdschDemapper_v123 ==
    << LtePhyPdschDemapperConfigFmt, Reads({"Version"}),
       LtePhyPdschDemapperConfigFmt_v123,
       Split(<<Word("Serving Cell ID", <<<<"Serving Cell ID", 0, Above>>>>),
         Word("System Frame Number", <<<<"Serving Cell ID", 0, 1>>,
             <<"System Frame Number", 5, 10>>, <<"Subframe Number", 1, 4>>>>),
         Word("Number of Tx Antennas(M)", <<<<"PDSCH RNTI Type", 0, 4>>,
             <<"Number of Tx Antennas(M)", 6, 2>>, <<"Number of Rx Antennas(N)", 8, 2>>,
             <<"Spatial Rank", 12, 2>>, <<"Frequency Selective PMI", 15, 1>>>>),
         Word("PMI Index", <<<<"PMI Index", 2, 4>>, <<"Transmission Scheme", 6, 4>>,
             <<"BMOD FD Sym Index", 12, 4>>>>),
         Word("MCS 0", <<<<"MCS 0", 2, 2>>, <<"Traffic to Pilot Ratio", 4, 13>>>>)>>) >>
    \o PdschDemapper_v123_Rest

PdschDemapper_v144_Item ==
    << LtePhyPdschDemapperConfigFmt_v144,
       Split(<<Word("Serving Cell ID", <<<<"Serving Cell ID", 0, 9>>,
             <<"Sub-frame Number", 9, 4>>, <<"System Frame Number", 13, 10>>,
             <<"PDSCH RNTI Type", 23, 4>>, <<"Number of Tx Antennas (M)", 27, 2>>,
             <<"Number of Rx Antennas (N)", 29, 2>>>>),
         Word("Spatial Rank", <<<<"Spatial Rank", 2, 2>>,
             <<"Frequency Selective PMI", 5, 1>>, <<"MU Receiver Mode", 6, 2>>>>),
         Word("PMI Index", <<<<"PMI Index", 0, 4>>, <<"Transmission Scheme", 4, 4>>>>),
         Word("UERS Port Enabled", <<<<"UERS Port Enabled", 0, 3>>,
             <<"BMOD FD Sym Index", 3, 4>>, <<"Transport Block Size Stream 0", 7, 18>>,
             <<"Modulation Stream 0", 25, 2>>, <<"PB", 27, 2>>, <<"RhoB/RhoA", 29, 2>>,
             <<"CSI-RS Exist", 31, 1>>>>),
         Word("ZP CSI-RS Exist", <<<<"ZP CSI-RS Exist", 0, 1>>,
             <<"CSI-RS Symbol Skipped", 1, 1>>,
             <<"Traffic to Pilot Ratio Data", 2, 12>>,
             <<"Transport Block Size Stream 1", 14, 18>>>>)>>),
       Split(<<Word("Modulation Stream 1", <<<<"Modulation Stream 1", 0, 2>>,
             <<"SCH0 Memory Map Mode", 2, 2>>, <<"SCH1 Memory Map Mode", 4, 2>>,
             <<"Strong ICell ID", 6, 9>>, <<"Qice Enable Mode", 15, 2>>,
             <<"Qice Skip Reason", 17, 3>>, <<"Csf Dual Rnn Sel", 20, 1>>,
             <<"Plq Num Enabled Rd Groups", 21, 5>>,
             <<"Plg Num Loaded Rb Groups", 26, 5>>, <<"Qed Mode", 31, 3>>>>)>>),
       Names({"PDSCH RNTI Type", "Number of Tx Antennas (M)",
         "Number of Rx Antennas (N)", "Spatial Rank", "Frequency Selective PMI",
         "Transmission Scheme", "Modulation Stream 0", "Modulation Stream 1"}) >>
PdschDemapper_v144 ==
    << LtePhyPdschDemapperConfigFmt, Reads({"Version"}),
       LtePhyPdschDemapperConfigFmt_header_144,
       Split(<<Word("Carrier Index", <<<<"Carrier Index", 0, 4>>,
             <<"Num of Records", 4, 8>>>>)>>),
       Names({"Carrier Index"}), ForEach("Num of Records", PdschDemapper_v144_Item) >>

-----------------------------------------------------------------------------
(* The decoders of this module, by name *)

PdschDecoders == [
    PdschDecoding_v24 |-> PdschDecoding_v24,
    PdschDecoding_v27 |-> PdschDecoding_v27,
    PdschDecoding_v44 |-> PdschDecoding_v44,
    PdschDecoding_v105 |-> PdschDecoding_v105,
    PdschDecoding_v106 |-> PdschDecoding_v106,
    PdschDecoding_v124 |-> PdschDecoding_v124,
    PdschDecoding_v125 |-> PdschDecoding_v125,
    PdschDecoding_v126 |-> PdschDecoding_v126,
    PdschDecoding_v143 |-> PdschDecoding_v143,
    PdschStat_v36 |-> PdschStat_v36,
    PdschStat_v32 |-> PdschStat_v32,
    PdschStat_v24 |-> PdschStat_v24,
    PdschStat_v16 |-> PdschStat_v16,
    PdschStat_v5 |-> PdschStat_v5,
    PdschStat_v37 |-> PdschStat_v37,
    PdschStat_v40 |-> PdschStat_v40,
    PdschStat_v34 |-> PdschStat_v34,
    PdschDemapper_v23 |-> PdschDemapper_v23,
    PdschDemapper_v28 |-> PdschDemapper_v28,
    PdschDemapper_v103 |-> PdschDemapper_v103,
    PdschDemapper_v104 |-> PdschDemapper_v104,
    PdschDemapper_v122 |-> PdschDemapper_v122,
    PdschDemapper_v123 |-> PdschDemapper_v123,
    PdschDemapper_v144 |-> PdschDemapper_v144]
=============================================================================
