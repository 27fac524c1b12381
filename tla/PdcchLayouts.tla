---------------------------- MODULE PdcchLayouts ----------------------------
(***************************************************************************)
(* The decoders of the downlink control channel of the LTE physical layer: *)
(* decoding results, and grants with acknowledgements.  A table (...Fmt    *)
(* and the like) has the name of its source, with the fields its decoder   *)
(* comes back to; a decoder has the name of its packet and the version it  *)
(* is for, and what is behind its name (_Record, _Subpkt ...) names the    *)
(* list inside it.  A part named _Rest continues the part of its name.     *)
(***************************************************************************)
EXTENDS Layout

-----------------------------------------------------------------------------
(* _decode_lte_phy_pdcch_decoding_result_payload *)

LtePhyPdcchDecodingResult_Fmt == Fmt(1, <<<<"Version", 1>>>>, {})
LtePhyPdcchDecodingResult_Payload_v21 == Fmt(7, <<<<"Subframe Number", 2>>,
      <<"Demback Mode Select", 1>>, <<"Number of Hypothesis", 1>>>>,
    {"System Frame Number", "Carrier Index"})
LtePhyPdcchDecodingResult_Hypothesis_v21 == Fmt(24, <<<<"Aggregation Level", 4>>,
      <<"Prune Status", 2>>, <<"Norm Energy Metric", 4>>, <<"Symbol Error Rate", 4>>>>,
    {"Candidate", "Search Space Type", "DCI Format", "Decode Status", "Start CCE",
      "Payload Size", "Tail Match"})
LtePhyPdcchDecodingResult_Hypothesis_v24 == Fmt(24, <<<<"Aggregation Level", 4>>,
      <<"Prune Status", 1>>, <<"Rmax", 1>>, <<"Decoded Repetition", 1>>, <<"Nb", 1>>,
      <<"Norm Energy Metric", 4>>, <<"Symbol Error Rate", 4>>>>,
    {"Candidate", "Search Space Type", "DCI Format", "Decode Status", "Start CCE",
      "Payload Size", "Tail Match", "Hypothesis Repetition", "Mpdcch Group"})
LtePhyPdcchDecodingResult_Payload_v42 == Fmt(7, <<<<"Subframe Number", 4>>,
      <<"Demback Mode Select", 1>>, <<"Number of Hypothesis", 1>>>>,
    {"System Frame Number", "Band Width (MHz)", "CIF Configured",
      "Two bits CSI Configured", "Aperiodic SRS Configured", "Frame Structure",
      "Num eNB Antennas", "DL CP", "SSC", "CA FDD TDD", "Carrier Index"})
LtePhyPdcchDecodingResult_Hypothesis_v42 == Fmt(28, <<<<"Aggregation Level", 4>>,
      <<"Start CCE", 4>>, <<"Prune Status", 4>>, <<"Norm Energy Metric", 4>>,
      <<"Symbol Error Rate", 4>>>>,
    {"Candidate", "Search Space Type", "DCI Format", "Decode States", "Payload Size",
      "Tail Match", "Non Zero Symbol Mismatch Count", "Non Zero Llr Count", "Normal",
      "Energy Metric"})
LtePhyPdcchDecodingResult_Payload_v43 == Fmt(7, <<<<"Num Records", 4>>,
      <<"Demback Mode Select", 1>>>>,
    {"Subframe Number", "System Frame Number", "Band Width (MHz)", "Frame Structure",
      "Num eNB Antennas", "Carrier Index"})
LtePhyPdcchDecodingResult_Record_v43 == Fmt(4, <<<<"CIF Configured", 2>>>>,
    {"Two bits CSI Configured", "Aperiodic SRS Configured", "Number of Hypothesis"})
LtePhyPdcchDecodingResult_Hypothesis_v43 == Fmt(28, <<<<"Aggregation Level", 4>>,
      <<"Start CCE", 4>>, <<"Prune Status", 4>>, <<"Norm Energy Metric", 4>>,
      <<"Symbol Error Rate", 4>>>>,
    {"Candidate", "Search Space Type", "DCI Format", "Decode States", "Payload Size",
      "Tail Match", "Non Zero Symbol Mismatch Count", "Non Zero Llr Count", "Normal",
      "Energy Metric"})
LtePhyPdcchDecodingResult_Payload_v101 == Fmt(7, <<<<"Subframe Number", 4>>,
      <<"Demback Mode Select", 1>>, <<"Number of Hypothesis", 1>>>>,
    {"System Frame Number", "Band Width (MHz)", "CIF Configured",
      "Two bits CSI Configured", "Aperiodic SRS Configured", "Frame Structure",
      "Num eNB Antennas", "DL CP", "SSC", "CA FDD TDD", "Carrier Index"})
LtePhyPdcchDecodingResult_Hypothesis_v101 == Fmt(28, <<<<"Aggregation Level", 4>>,
      <<"Start CCE", 4>>, <<"Prune Status", 4>>, <<"Norm Energy Metric", 4>>,
      <<"Symbol Error Rate", 4>>>>,
    {"Candidate", "Search Space Type", "DCI Format", "Decode States", "Payload Size",
      "Tail Match", "Non Zero Symbol Mismatch Count", "Non Zero Llr Count", "Normal",
      "Energy Metric"})
LtePhyPdcchDecodingResult_Payload_v121 == Fmt(7, <<<<"Subframe Number", 4>>,
      <<"__pad", 1>>, <<"Demback Mode Select", 1>>, <<"Number of Hypothesis", 1>>>>,
    {"System Frame Number", "Band Width (MHz)", "CIF Configured",
      "Two bits CSI Configured", "Aperiodic SRS Configured", "Frame Structure",
      "Num eNB Antennas", "DL CP", "SSC", "CA FDD TDD", "Carrier Index"})
LtePhyPdcchDecodingResult_Hypothesis_v121 == Fmt(28, <<<<"Aggregation Level", 4>>,
      <<"Start CCE", 4>>, <<"Prune Status", 4>>, <<"Norm Energy Metric", 4>>,
      <<"Symbol Error Rate", 4>>>>,
    {"Candidate", "Search Space Type", "DCI Format", "Decode States", "Payload Size",
      "Tail Match", "Non Zero Symbol Mismatch Count", "Alt TBS Enabled",
      "Non Zero Llr Count", "Normal", "Energy Metric"})
LtePhyPdcchDecodingResult_Payload_v123 == Fmt(7, <<<<"Subframe Number", 4>>,
      <<"__pad", 1>>, <<"Demback Mode Select", 1>>, <<"Number of Hypothesis", 1>>>>,
    {"System Frame Number", "Band Width (MHz)", "CIF Configured",
      "Two bits CSI Configured", "Aperiodic SRS Configured", "Frame Structure",
      "Num eNB Antennas", "DL CP", "SSC", "CA FDD TDD", "Carrier Index"})
LtePhyPdcchDecodingResult_Hypothesis_v123 == Fmt(28, <<<<"Aggregation Level", 4>>,
      <<"Start CCE", 4>>, <<"Prune Status", 4>>, <<"Norm Energy Metric", 4>>,
      <<"Symbol Error Rate", 4>>>>,
    {"Candidate", "Search Space Type", "DCI Format", "Decode States", "Payload Size",
      "Tail Match", "Non Zero Symbol Mismatch Count", "Alt TBS Enabled",
      "Non Zero Llr Count", "Normal", "Energy Metric"})
LtePhyPdcchDecodingResult_Payload_v141 == Fmt(3, <<<<"Carrier Index", 2>>>>,
    {"Number of Records"})
LtePhyPdcchDecodingResult_Hypothesis_v141 == Fmt(32, <<<<"Subframe Number", 4>>,
      <<"Aggregation Level", 4>>, <<"Start CCE", 4>>, <<"Prune Status", 4>>,
      <<"Norm Energy Metric", 4>>, <<"Symbol Error Rate", 4>>>>,
    {"System Frame Number", "Band Width (MHz)", "CIF Configured",
      "Two bits CSI Configured", "Aperiodic SRS Configured", "Frame Structure",
      "Num eNB Antennas", "DL CP", "SSC", "CA FDD TDD", "Candidate",
      "Search Space Type", "DCI Format", "Decode States", "Payload Size", "Tail Match",
      "Non Zero Symbol Mismatch Count", "Alt TBS Enabled", "Non Zero Llr Count",
      "Normal", "Energy Metric"})

PdcchDecoding_v21 ==
    << LtePhyPdcchDecodingResult_Fmt, Reads({"Version"}),
       LtePhyPdcchDecodingResult_Payload_v21, Reads({"Number of Hypothesis"}),
       Split(<<Word("Subframe Number", <<<<"Subframe Number", 0, 4>>,
             <<"System Frame Number", 4, 10>>>>),
         Word("Demback Mode Select", <<<<"Demback Mode Select", 0, 4>>,
             <<"Carrier Index", 4, 4>>>>)>>),
       Names({"Carrier Index"}),
       ForEach("Number of Hypothesis",
         << LtePhyPdcchDecodingResult_Hypothesis_v21,
            Split(<<Word("Aggregation Level", <<<<"Aggregation Level", 0, 2>>,
                  <<"Candidate", 2, 3>>, <<"Search Space Type", 5, 1>>,
                  <<"DCI Format", 6, 4>>, <<"Decode Status", 10, 4>>,
                  <<"Start CCE", 14, 7>>, <<"Payload Size", 21, 8>>,
                  <<"Tail Match", 29, 1>>>>)>>),
            Sets({"Norm Energy Metric", "Symbol Error Rate"}),
            Names({"Aggregation Level", "Search Space Type", "DCI Format",
              "Decode Status", "Tail Match", "Prune Status"}) >>) >>

PdcchDecoding_v24_Record ==
    << LtePhyPdcchDecodingResult_Hypothesis_v24,
       Split(<<Word("Aggregation Level", <<<<"Aggregation Level", 0, 3>>,
             <<"Candidate", 3, 3>>, <<"Search Space Type", 6, 2>>,
             <<"DCI Format", 8, 4>>, <<"Decode Status", 12, 4>>, <<"Start CCE", 16, 7>>,
             <<"Payload Size", 23, 8>>, <<"Tail Match", 31, 1>>>>),
         Word("Rmax", <<<<"Rmax", 0, 4>>, <<"Hypothesis Repetition", 4, 4>>>>),
         Word("Decoded Repetition", <<<<"Decoded Repetition", 0, 4>>,
             <<"Mpdcch Group", 4, 4>>>>),
         Word("Nb", <<<<"Nb", 0, 4>>>>)>>),
       Sets({"Norm Energy Metric", "Symbol Error Rate"}),
       Names({"Aggregation Level", "Search Space Type", "DCI Format", "Decode Status",
         "Tail Match", "Prune Status"}) >>
PdcchDecoding_v24 ==
    << LtePhyPdcchDecodingResult_Fmt, Reads({"Version"}),
       LtePhyPdcchDecodingResult_Payload_v21, Reads({"Number of Hypothesis"}),
       Split(<<Word("Subframe Number", <<<<"Subframe Number", 0, 4>>,
             <<"System Frame Number", 4, 10>>>>),
         Word("Demback Mode Select", <<<<"Demback Mode Select", 0, 4>>,
             <<"Carrier Index", 4, 4>>>>)>>),
       Names({"Carrier Index"}),
       ForEach("Number of Hypothesis", PdcchDecoding_v24_Record) >>

PdcchDecoding_v42_Record ==
    << LtePhyPdcchDecodingResult_Hypothesis_v42,
       Split(<<Word("Aggregation Level", <<<<"Aggregation Level", 0, 2>>,
             <<"Candidate", 2, 3>>, <<"Search Space Type", 5, 1>>,
             <<"DCI Format", 6, 4>>, <<"Decode States", 10, 4>>,
             <<"Payload Size", 14, 8>>, <<"Tail Match", 22, 1>>,
             <<"Non Zero Symbol Mismatch Count", 23, 9>>>>),
         Word("Start CCE", <<<<"Start CCE", 1, 7>>, <<"Non Zero Llr Count", 8, 9>>,
             <<"Normal", 17, 15>>>>),
         Word("Prune Status", <<<<"Prune Status", 0, 11>>,
             <<"Energy Metric", 11, Above>>>>)>>),
       Sets({"Norm Energy Metric", "Symbol Error Rate"}),
       Names({"Aggregation Level", "Search Space Type", "DCI Format", "Decode States",
         "Tail Match", "Prune Status"}) >>
PdcchDecoding_v42 ==
    << LtePhyPdcchDecodingResult_Fmt, Reads({"Version"}),
       LtePhyPdcchDecodingResult_Payload_v42, Reads({"Number of Hypothesis"}),
       Split(<<Word("Subframe Number", <<<<"Subframe Number", 0, 4>>,
             <<"System Frame Number", 4, 10>>, <<"Band Width (MHz)", 14, 3>>,
             <<"CIF Configured", 17, 1>>, <<"Two bits CSI Configured", 18, 1>>,
             <<"Aperiodic SRS Configured", 19, 1>>, <<"Frame Structure", 20, 2>>,
             <<"Num eNB Antennas", 22, 2>>, <<"DL CP", 24, 2>>, <<"SSC", 26, 2>>,
             <<"CA FDD TDD", 28, 2>>>>),
         Word("Demback Mode Select", <<<<"Demback Mode Select", 0, 4>>,
             <<"Carrier Index", 4, 4>>>>)>>),
       Names({"CIF Configured", "Two bits CSI Configured", "Aperiodic SRS Configured",
         "Frame Structure", "Num eNB Antennas", "DL CP", "Carrier Index"}),
       ForEach("Number of Hypothesis", PdcchDecoding_v42_Record) >>

PdcchDecoding_v43_Record_Hypothesis ==
    << LtePhyPdcchDecodingResult_Hypothesis_v43,
       Split(<<Word("Aggregation Level", <<<<"Aggregation Level", 0, 2>>,
             <<"Candidate", 2, 3>>, <<"Search Space Type", 5, 1>>,
             <<"DCI Format", 6, 4>>, <<"Decode States", 10, 4>>,
             <<"Payload Size", 14, 8>>, <<"Tail Match", 22, 1>>,
             <<"Non Zero Symbol Mismatch Count", 23, 9>>>>),
         Word("Start CCE", <<<<"Start CCE", 1, 7>>, <<"Non Zero Llr Count", 8, 9>>,
             <<"Normal", 17, 15>>>>),
         Word("Prune Status", <<<<"Prune Status", 0, 11>>,
             <<"Energy Metric", 11, Above>>>>)>>),
       Sets({"Norm Energy Metric", "Symbol Error Rate"}),
       Names({"Aggregation Level", "Search Space Type", "DCI Format", "Decode States",
         "Tail Match", "Prune Status"}) >>
PdcchDecoding_v43_Record ==
    << LtePhyPdcchDecodingResult_Record_v43,
       Split(<<Word("CIF Configured", <<<<"CIF Configured", 0, 1>>,
             <<"Two bits CSI Configured", 1, 1>>, <<"Aperiodic SRS Configured", 2, 1>>,
             <<"Number of Hypothesis", 3, 8>>>>)>>),
       Names({"CIF Configured", "Two bits CSI Configured", "Aperiodic SRS Configured"}),
       ForEach("Number of Hypothesis", PdcchDecoding_v43_Record_Hypothesis),
       Pad(FreeSlots(11, 28)) >>
PdcchDecoding_v43 ==
    << LtePhyPdcchDecodingResult_Fmt, Reads({"Version"}),
       LtePhyPdcchDecodingResult_Payload_v43,
       Split(<<Word("Num Records", <<<<"Num Records", 0, 4>>,
             <<"Subframe Number", 4, 4>>, <<"System Frame Number", 8, 10>>,
             <<"Band Width (MHz)", 18, 4>>, <<"Frame Structure", 22, 2>>,
             <<"Num eNB Antennas", 24, 3>>>>),
         Word("Demback Mode Select", <<<<"Demback Mode Select", 0, 4>>,
             <<"Carrier Index", 4, 4>>>>)>>),
       Names({"Frame Structure", "Num eNB Antennas", "Carrier Index"}),
       ForEach("Num Records", PdcchDecoding_v43_Record) >>

PdcchDecoding_v101_Record ==
    << LtePhyPdcchDecodingResult_Hypothesis_v101,
       Split(<<Word("Aggregation Level", <<<<"Aggregation Level", 0, 2>>,
             <<"Candidate", 2, 3>>, <<"Search Space Type", 5, 1>>,
             <<"DCI Format", 6, 4>>, <<"Decode States", 10, 4>>,
             <<"Payload Size", 14, 8>>, <<"Tail Match", 22, 1>>,
             <<"Non Zero Symbol Mismatch Count", 23, 9>>>>),
         Word("Start CCE", <<<<"Start CCE", 1, 7>>, <<"Non Zero Llr Count", 8, 9>>,
             <<"Normal", 17, 15>>>>),
         Word("Prune Status", <<<<"Prune Status", 0, 11>>,
             <<"Energy Metric", 11, Above>>>>)>>),
       Sets({"Norm Energy Metric", "Symbol Error Rate"}),
       Names({"Aggregation Level", "Search Space Type", "DCI Format", "Decode States",
         "Tail Match", "Prune Status"}) >>
PdcchDecoding_v101 ==
    << LtePhyPdcchDecodingResult_Fmt, Reads({"Version"}),
       LtePhyPdcchDecodingResult_Payload_v101, Reads({"Number of Hypothesis"}),
       Split(<<Word("Subframe Number", <<<<"Subframe Number", 0, 4>>,
             <<"System Frame Number", 4, 10>>, <<"Band Width (MHz)", 14, 3>>,
             <<"CIF Configured", 17, 1>>, <<"Two bits CSI Configured", 18, 1>>,
             <<"Aperiodic SRS Configured", 19, 1>>, <<"Frame Structure", 20, 2>>,
             <<"Num eNB Antennas", 22, 2>>, <<"DL CP", 24, 2>>, <<"SSC", 26, 2>>,
             <<"CA FDD TDD", 28, 2>>>>),
         Word("Demback Mode Select", <<<<"Demback Mode Select", 0, 4>>,
             <<"Carrier Index", 4, 4>>>>)>>),
       Names({"CIF Configured", "Two bits CSI Configured", "Aperiodic SRS Configured",
         "Frame Structure", "Num eNB Antennas", "DL CP", "Carrier Index"}),
       ForEach("Number of Hypothesis", PdcchDecoding_v101_Record) >>

PdcchDecoding_v121_Record ==
    << LtePhyPdcchDecodingResult_Hypothesis_v121,
       Split(<<Word("Aggregation Level", <<<<"Aggregation Level", 0, 2>>,
             <<"Candidate", 2, 3>>, <<"Search Space Type", 5, 1>>,
             <<"DCI Format", 6, 4>>, <<"Decode States", 10, 4>>,
             <<"Payload Size", 14, 8>>, <<"Tail Match", 22, 1>>,
             <<"Non Zero Symbol Mismatch Count", 23, 9>>>>),
         Word("Start CCE", <<<<"Start CCE", 1, 7>>, <<"Alt TBS Enabled", 0, 1>>,
             <<"Non Zero Llr Count", 8, 9>>, <<"Normal", 17, 15>>>>),
         Word("Prune Status", <<<<"Prune Status", 0, 11>>,
             <<"Energy Metric", 11, Above>>>>)>>),
       Sets({"Norm Energy Metric", "Symbol Error Rate"}),
       Names({"Aggregation Level", "Search Space Type", "DCI Format", "Decode States",
         "Tail Match", "Prune Status"}) >>
PdcchDecoding_v121 ==
    << LtePhyPdcchDecodingResult_Fmt, Reads({"Version"}),
       LtePhyPdcchDecodingResult_Payload_v121, Reads({"__pad", "Number of Hypothesis"}),
       Split(<<Word("Subframe Number", <<<<"__pad", 31, 1>>,
             <<"Subframe Number", 0, 4>>, <<"System Frame Number", 4, 10>>,
             <<"Band Width (MHz)", 14, 3>>, <<"CIF Configured", 17, 1>>,
             <<"Two bits CSI Configured", 18, 1>>,
             <<"Aperiodic SRS Configured", 19, 1>>, <<"Frame Structure", 20, 2>>,
             <<"Num eNB Antennas", 22, 2>>, <<"DL CP", 24, 2>>, <<"SSC", 26, 2>>,
             <<"CA FDD TDD", 28, 2>>>>),
         Word("Demback Mode Select", <<<<"Demback Mode Select", 0, 4>>,
             <<"Carrier Index", 4, 4>>>>)>>),
       Names({"CIF Configured", "Two bits CSI Configured", "Aperiodic SRS Configured",
         "Frame Structure", "Num eNB Antennas", "DL CP", "Carrier Index"}),
       ForEach("Number of Hypothesis", PdcchDecoding_v121_Record) >>

PdcchDecoding_v123_Record ==
    << LtePhyPdcchDecodingResult_Hypothesis_v123,
       Split(<<Word("Aggregation Level", <<<<"Aggregation Level", 0, 2>>,
             <<"Candidate", 2, 3>>, <<"Search Space Type", 5, 1>>,
             <<"DCI Format", 6, 4>>, <<"Decode States", 10, 4>>,
             <<"Payload Size", 14, 8>>, <<"Tail Match", 22, 1>>,
             <<"Non Zero Symbol Mismatch Count", 23, 9>>>>),
         Word("Start CCE", <<<<"Start CCE", 1, 7>>, <<"Alt TBS Enabled", 0, 1>>,
             <<"Non Zero Llr Count", 8, 9>>, <<"Normal", 17, 15>>>>),
         Word("Prune Status", <<<<"Prune Status", 0, 11>>,
             <<"Energy Metric", 11, Above>>>>)>>),
       Sets({"Norm Energy Metric", "Symbol Error Rate"}),
       Names({"Aggregation Level", "Search Space Type", "DCI Format", "Decode States",
         "Tail Match", "Prune Status"}) >>
PdcchDecoding_v123 ==
    << LtePhyPdcchDecodingResult_Fmt, Reads({"Version"}),
       LtePhyPdcchDecodingResult_Payload_v123, Reads({"__pad", "Number of Hypothesis"}),
       Split(<<Word("Subframe Number", <<<<"__pad", 31, 1>>,
             <<"Subframe Number", 0, 4>>, <<"System Frame Number", 4, 10>>,
             <<"Band Width (MHz)", 14, 3>>, <<"CIF Configured", 17, 1>>,
             <<"Two bits CSI Configured", 18, 1>>,
             <<"Aperiodic SRS Configured", 19, 1>>, <<"Frame Structure", 20, 2>>,
             <<"Num eNB Antennas", 22, 2>>, <<"DL CP", 24, 2>>, <<"SSC", 26, 2>>,
             <<"CA FDD TDD", 28, 2>>>>),
         Word("Demback Mode Select", <<<<"Demback Mode Select", 0, 4>>,
             <<"Carrier Index", 4, 4>>>>)>>),
       Names({"CIF Configured", "Two bits CSI Configured", "Aperiodic SRS Configured",
         "Frame Structure", "Num eNB Antennas", "DL CP", "Carrier Index"}),
       ForEach("Number of Hypothesis", PdcchDecoding_v123_Record) >>

PdcchDecoding_v141_Record_Rest ==
    << Split(<<Word("Aggregation Level", <<<<"Aggregation Level", 0, 2>>,
             <<"Candidate", 2, 3>>, <<"Search Space Type", 5, 1>>,
             <<"DCI Format", 6, 4>>, <<"Decode States", 10, 4>>,
             <<"Payload Size", 14, 8>>, <<"Tail Match", 22, 1>>,
             <<"Non Zero Symbol Mismatch Count", 23, 9>>>>),
         Word("Start CCE", <<<<"Start CCE", 1, 7>>, <<"Alt TBS Enabled", 0, 1>>,
             <<"Non Zero Llr Count", 8, 9>>, <<"Normal", 17, 15>>>>),
         Word("Prune Status", <<<<"Prune Status", 0, 8>>,
             <<"Energy Metric", 8, 21>>>>)>>),
       Sets({"Norm Energy Metric", "Symbol Error Rate"}),
       Names({"CIF Configured", "Two bits CSI Configured", "Aperiodic SRS Configured",
         "Frame Structure", "Num eNB Antennas", "DL CP", "Aggregation Level",
         "Search Space Type", "DCI Format", "Decode States", "Tail Match",
         "Prune Status"}) >>
PdcchDecoding_v141_Record ==
    << LtePhyPdcchDecodingResult_Hypothesis_v141,
       Split(<<Word("Subframe Number", <<<<"Subframe Number", 0, 4>>,
             <<"System Frame Number", 4, 10>>, <<"Band Width (MHz)", 14, 3>>,
             <<"CIF Configured", 17, 1>>, <<"Two bits CSI Configured", 18, 1>>,
             <<"Aperiodic SRS Configured", 19, 1>>, <<"Frame Structure", 20, 3>>,
             <<"Num eNB Antennas", 23, 1>>, <<"DL CP", 24, 1>>, <<"SSC", 25, 4>>,
             <<"CA FDD TDD", 29, 1>>>>)>>) >>
    \o PdcchDecoding_v141_Record_Rest
PdcchDecoding_v141 ==
    << LtePhyPdcchDecodingResult_Fmt, Reads({"Version"}),
       LtePhyPdcchDecodingResult_Payload_v141,
       Split(<<Word("Carrier Index", <<<<"Carrier Index", 0, 4>>,
             <<"Number of Records", 4, 9>>>>)>>),
       Names({"Carrier Index"}),
       ForEach("Number of Records", PdcchDecoding_v141_Record) >>
-----------------------------------------------------------------------------
(* _decode_lte_pdcch_phich_indication_report_payload *)

LtePdcchPhichIndicationReport_Fmt == Fmt(1, <<<<"Version", 1>>>>, {})
LtePdcchPhichIndicationReport_Fmt_v5 == Fmt(3, <<<<"Duplex Mode", 2>>,
      <<"Number of Records", 1>>>>,
    {})
LtePdcchPhichIndicationReport_Record_v5_p1 == Fmt(8, <<<<"Num PDCCH Results", 4>>,
      <<"PHICH Timing Sub-FN", 4>>>>,
    {"PDCCH Timing SFN", "PDCCH Timing Sub-FN", "PHICH Included", "PHICH 1 Included",
      "PHICH Timing SFN", "PHICH Value", "PHICH 1 Value"})
LtePdcchPhichIndicationReport_Record_v5_p2 == Fmt(4, <<<<"Serv Cell Idx", 2>>,
      <<"Search Space", 2>>>>,
    {"RNTI Type", "Payload Size", "Aggregation Level", "SPS Grant Type", "New DL Tx",
      "Num DL Trblks"})
LtePdcchPhichIndicationReport_Record_v5_p3 == Fmt(4, <<>>, {})
LtePdcchPhichIndicationReport_Fmt_v25 == Fmt(3, <<<<"Duplex Mode", 2>>,
      <<"Number of Records", 1>>>>,
    {})
LtePdcchPhichIndicationReport_Record_v25_p1 == Fmt(4, <<<<"Num PDCCH Results", 4>>>>,
    {"Num PHICH Results", "PDCCH Timing SFN", "PDCCH Timing Sub-FN"})
LtePdcchPhichIndicationReport_Record_v25_phich == Fmt(4, <<<<"Cell Index", 4>>>>,
    {"PHICH Included", "PHICH 1 Included", "PHICH Value", "PHICH 1 Value"})
LtePdcchPhichIndicationReport_Record_v25_pdcch == Fmt(8, <<<<"Serv Cell Idx", 2>>,
      <<"Search Space", 2>>>>,
    {"RNTI Type", "Payload Size", "Aggregation Level", "SPS Grant Type", "New DL Tx",
      "Num DL Trblks"})
LtePdcchPhichIndicationReport_Fmt_v33 == Fmt(3, <<<<"Duplex Mode", 2>>,
      <<"Number of Records", 1>>>>,
    {})
LtePdcchPhichIndicationReport_Record_v33_p1 == Fmt(12, <<<<"Num PDCCH Results", 4>>>>,
    {"Num PHICH Results", "PDCCH Timing SFN", "PDCCH Timing Sub-FN"})
LtePdcchPhichIndicationReport_Record_v33_pdcch == Fmt(8, <<<<"Serv Cell Idx", 2>>,
      <<"Search Space", 2>>>>,
    {"RNTI Type", "Payload Size", "Aggregation Level", "SPS Grant Type", "New DL Tx",
      "Num DL Trblks"})
LtePdcchPhichIndicationReport_Fmt_v42 == Fmt(3, <<<<"Duplex Mode", 2>>,
      <<"Number of Records", 1>>>>,
    {"UL DL Config"})
LtePdcchPhichIndicationReport_Record_v42_p1 == Fmt(4, <<<<"Num PDCCH Results", 4>>>>,
    {"Num PHICH Results", "PDCCH Timing SFN", "PDCCH Timing Sub-FN"})
LtePdcchPhichIndicationReport_Record_v42_phich == Fmt(4, <<<<"Cell Index", 4>>>>,
    {"PHICH Included", "PHICH 1 Included", "PHICH Value", "PHICH 1 Value"})
LtePdcchPhichIndicationReport_Record_v42_pdcch == Fmt(8, <<<<"Serv Cell Idx", 2>>,
      <<"Search Space", 2>>, <<"S0 Index", 4>>>>,
    {"RNTI Type", "Payload Size", "Aggregation Level", "SPS Grant Type", "New DL Tx",
      "Num DL Trblks", "S1 Index", "S2 Index", "S3 Index", "Msleep", "Usleep",
      "uSleep Duration", "Fake Pdcch Sf", "Is Ul Dropped", "Interf Active"})
LtePdcchPhichIndicationReport_Record_v42_p3 == Fmt(16, <<
      <<"Force Send PDCCH Ind", 4>>>>,
    {})

PdcchPhich_v5_Record_Pdcch ==
    << LtePdcchPhichIndicationReport_Record_v5_p2,
       Split(<<Word("Serv Cell Idx", <<<<"Serv Cell Idx", 0, 3>>, <<"RNTI Type", 3, 4>>,
             <<"Payload Size", 7, 7>>, <<"Aggregation Level", 14, 2>>>>),
         Word("Search Space", <<<<"Search Space", 0, 1>>, <<"New DL Tx", 4, 1>>,
             <<"Num DL Trblks", 5, 2>>>>)>>),
       Names({"RNTI Type", "Aggregation Level", "Search Space", "New DL Tx"}) >>
PdcchPhich_v5_Record ==
    << LtePdcchPhichIndicationReport_Record_v5_p1, Reads({"PHICH Timing Sub-FN"}),
       Split(<<Word("Num PDCCH Results", <<<<"Num PDCCH Results", 0, 3>>,
             <<"PDCCH Timing SFN", 3, 10>>, <<"PDCCH Timing Sub-FN", 13, 4>>,
             <<"PHICH Included", 17, 1>>, <<"PHICH 1 Included", 18, 1>>>>)>>),
       Names({"PHICH Included", "PHICH 1 Included"}),
       Either(<<
         << Split(<<Word("Num PDCCH Results", <<<<"PHICH Timing SFN", 19, 10>>>>),
              Word("PHICH Timing Sub-FN", <<<<"PHICH Timing Sub-FN", 0, 4>>,
                  <<"PHICH Value", 4, 1>>>>)>>),
            Names({"PHICH Value"}) >>, <<>>>>),
       Either(<<
         << Split(<<Word("PHICH Timing Sub-FN", <<<<"PHICH 1 Value", 5, 1>>>>)>>),
            Names({"PHICH 1 Value"}) >>, <<>>>>),
       ForEach("Num PDCCH Results", PdcchPhich_v5_Record_Pdcch), Pad(FreeSlots(8, 4)) >>
PdcchPhich_v5 ==
    << LtePdcchPhichIndicationReport_Fmt, Reads({"Version"}),
       LtePdcchPhichIndicationReport_Fmt_v5, Reads({"Number of Records"}),
       Split(<<Word("Duplex Mode", <<<<"Duplex Mode", 0, 2>>>>)>>),
       ForEach("Number of Records", PdcchPhich_v5_Record) >>

PdcchPhich_v25_Record_Phich ==
    << LtePdcchPhichIndicationReport_Record_v25_phich,
       Split(<<Word("Cell Index", <<<<"Cell Index", 0, 3>>, <<"PHICH Included", 3, 1>>,
             <<"PHICH 1 Included", 4, 1>>, <<"PHICH Value", 5, 1>>,
             <<"PHICH 1 Value", 6, 1>>>>)>>),
       Names({"PHICH Included", "PHICH 1 Included", "PHICH Value", "PHICH 1 Value"}) >>
PdcchPhich_v25_Record_Pdcch ==
    << LtePdcchPhichIndicationReport_Record_v25_pdcch,
       Split(<<Word("Serv Cell Idx", <<<<"Serv Cell Idx", 0, 3>>, <<"RNTI Type", 3, 4>>,
             <<"Payload Size", 7, 7>>, <<"Aggregation Level", 14, 2>>>>),
         Word("Search Space", <<<<"Search Space", 0, 1>>, <<"New DL Tx", 4, 1>>,
             <<"Num DL Trblks", 5, 2>>>>)>>),
       Names({"RNTI Type", "Aggregation Level", "Search Space", "New DL Tx"}) >>
PdcchPhich_v25_Record_Rest ==
    << Pad(FreeSlots(3, 4)), ForEach("Num PDCCH Results", PdcchPhich_v25_Record_Pdcch),
       Pad(FreeSlots(8, 8)) >>
PdcchPhich_v25_Record ==
    << LtePdcchPhichIndicationReport_Record_v25_p1,
       Split(<<Word("Num PDCCH Results", <<<<"Num PDCCH Results", 0, 3>>,
             <<"Num PHICH Results", 3, 3>>, <<"PDCCH Timing SFN", 6, 10>>,
             <<"PDCCH Timing Sub-FN", 16, 4>>>>)>>),
       ForEach("Num PHICH Results", PdcchPhich_v25_Record_Phich) >>
    \o PdcchPhich_v25_Record_Rest
PdcchPhich_v25 ==
    << LtePdcchPhichIndicationReport_Fmt, Reads({"Version"}),
       LtePdcchPhichIndicationReport_Fmt_v25, Reads({"Number of Records"}),
       Split(<<Word("Duplex Mode", <<<<"Duplex Mode", 0, 2>>>>)>>),
       ForEach("Number of Records", PdcchPhich_v25_Record) >>

PdcchPhich_v33_Record_Phich == PdcchPhich_v25_Record_Phich
PdcchPhich_v33_Record_Pdcch ==
    << LtePdcchPhichIndicationReport_Record_v33_pdcch,
       Split(<<Word("Serv Cell Idx", <<<<"Serv Cell Idx", 0, 3>>, <<"RNTI Type", 3, 4>>,
             <<"Payload Size", 7, 7>>, <<"Aggregation Level", 14, 2>>>>),
         Word("Search Space", <<<<"Search Space", 0, 1>>, <<"New DL Tx", 4, 1>>,
             <<"Num DL Trblks", 5, 2>>>>)>>),
       Names({"RNTI Type", "Aggregation Level", "Search Space", "New DL Tx"}) >>
PdcchPhich_v33_Record_Rest ==
    << Pad(FreeSlots(5, 4)), ForEach("Num PDCCH Results", PdcchPhich_v33_Record_Pdcch),
       Pad(FreeSlots(8, 8)) >>
PdcchPhich_v33_Record ==
    << LtePdcchPhichIndicationReport_Record_v33_p1,
       Split(<<Word("Num PDCCH Results", <<<<"Num PDCCH Results", 0, 3>>,
             <<"Num PHICH Results", 3, 3>>, <<"PDCCH Timing SFN", 6, 10>>,
             <<"PDCCH Timing Sub-FN", 16, 4>>>>)>>),
       ForEach("Num PHICH Results", PdcchPhich_v33_Record_Phich) >>
    \o PdcchPhich_v33_Record_Rest
PdcchPhich_v33 ==
    << LtePdcchPhichIndicationReport_Fmt, Reads({"Version"}),
       LtePdcchPhichIndicationReport_Fmt_v33, Reads({"Number of Records"}),
       Split(<<Word("Duplex Mode", <<<<"Duplex Mode", 0, 2>>>>)>>),
       ForEach("Number of Records", PdcchPhich_v33_Record) >>

PdcchPhich_v34_Record_Phich == PdcchPhich_v25_Record_Phich
PdcchPhich_v34_Record_Pdcch == PdcchPhich_v33_Record_Pdcch
PdcchPhich_v34_Record_Rest ==
    << Times(16, PdcchPhich_v34_Record_Pdcch) >>
PdcchPhich_v34_Record ==
    << LtePdcchPhichIndicationReport_Record_v33_p1,
       Split(<<Word("Num PDCCH Results", <<<<"Num PDCCH Results", 0, 3>>,
             <<"Num PHICH Results", 3, 3>>, <<"PDCCH Timing SFN", 6, 10>>,
             <<"PDCCH Timing Sub-FN", 16, 4>>>>)>>),
       Times(5, PdcchPhich_v34_Record_Phich) >>
    \o PdcchPhich_v34_Record_Rest
PdcchPhich_v34 ==
    << LtePdcchPhichIndicationReport_Fmt, Reads({"Version"}),
       LtePdcchPhichIndicationReport_Fmt_v33, Reads({"Number of Records"}),
       Split(<<Word("Duplex Mode", <<<<"Duplex Mode", 0, 2>>>>)>>),
       ForEach("Number of Records", PdcchPhich_v34_Record) >>

PdcchPhich_v42_Record_Phich ==
    << LtePdcchPhichIndicationReport_Record_v42_phich,
       Split(<<Word("Cell Index", <<<<"Cell Index", 0, 3>>, <<"PHICH Included", 3, 1>>,
             <<"PHICH 1 Included", 4, 1>>, <<"PHICH Value", 5, 1>>,
             <<"PHICH 1 Value", 6, 1>>>>)>>),
       Names({"PHICH Included", "PHICH 1 Included", "PHICH Value", "PHICH 1 Value"}) >>
PdcchPhich_v42_Record_Pdcch ==
    << LtePdcchPhichIndicationReport_Record_v42_pdcch,
       Split(<<Word("Serv Cell Idx", <<<<"Serv Cell Idx", 0, 3>>, <<"RNTI Type", 3, 4>>,
             <<"Payload Size", 7, 7>>, <<"Aggregation Level", 14, 2>>>>),
         Word("Search Space", <<<<"Search Space", 0, 1>>, <<"New DL Tx", 4, 1>>,
             <<"Num DL Trblks", 5, 2>>>>),
         Word("S0 Index", <<<<"S0 Index", 0, 5>>, <<"S1 Index", 5, 5>>,
             <<"S2 Index", 10, 5>>, <<"S3 Index", 15, 5>>, <<"Msleep", 20, 1>>,
             <<"Usleep", 21, 1>>, <<"uSleep Duration", 22, 5>>,
             <<"Fake Pdcch Sf", 27, 1>>, <<"Is Ul Dropped", 28, 1>>,
             <<"Interf Active", 29, 1>>>>)>>),
       Names({"RNTI Type", "Aggregation Level", "Search Space", "New DL Tx"}) >>
PdcchPhich_v42_Record_Rest ==
    << Sublist(
         << LtePdcchPhichIndicationReport_Record_v42_p3,
            Split(<<Word("Force Send PDCCH Ind", <<
                  <<"Force Send PDCCH Ind", 0, 1>>>>)>>) >>) >>
PdcchPhich_v42_Record_Rest2 ==
    << Times(16, PdcchPhich_v42_Record_Pdcch) >>
    \o PdcchPhich_v42_Record_Rest
PdcchPhich_v42_Record ==
    << LtePdcchPhichIndicationReport_Record_v42_p1,
       Split(<<Word("Num PDCCH Results", <<<<"Num PDCCH Results", 0, 3>>,
             <<"Num PHICH Results", 3, 3>>, <<"PDCCH Timing SFN", 6, 10>>,
             <<"PDCCH Timing Sub-FN", 16, 4>>>>)>>),
       Times(7, PdcchPhich_v42_Record_Phich) >>
    \o PdcchPhich_v42_Record_Rest2
\* A field is not replaced
PdcchPhich_v42Mutant ==
    << LtePdcchPhichIndicationReport_Fmt, Reads({"Version"}),
       LtePdcchPhichIndicationReport_Fmt_v42, Reads({"Number of Records"}),
       Split(<<Word("Duplex Mode", <<<<"Duplex Mode", 0, 2>>>>)>>),
       ForEach("Number of Records", PdcchPhich_v42_Record) >>
PdcchPhich_v42 ==
    << LtePdcchPhichIndicationReport_Fmt, Reads({"Version"}),
       LtePdcchPhichIndicationReport_Fmt_v42, Reads({"Number of Records"}),
       Split(<<Word("Duplex Mode", <<<<"Duplex Mode", 0, 2>>,
             <<"UL DL Config", 2, 4>>>>)>>),
       ForEach("Number of Records", PdcchPhich_v42_Record) >>

-----------------------------------------------------------------------------
(* The decoders of this module, by name *)

PdcchDecoders == [
    PdcchDecoding_v21 |-> PdcchDecoding_v21,
    PdcchDecoding_v24 |-> PdcchDecoding_v24,
    PdcchDecoding_v42 |-> PdcchDecoding_v42,
    PdcchDecoding_v43 |-> PdcchDecoding_v43,
    PdcchDecoding_v101 |-> PdcchDecoding_v101,
    PdcchDecoding_v121 |-> PdcchDecoding_v121,
    PdcchDecoding_v123 |-> PdcchDecoding_v123,
    PdcchDecoding_v141 |-> PdcchDecoding_v141,
    PdcchPhich_v5 |-> PdcchPhich_v5,
    PdcchPhich_v25 |-> PdcchPhich_v25,
    PdcchPhich_v33 |-> PdcchPhich_v33,
    PdcchPhich_v34 |-> PdcchPhich_v34,
    PdcchPhich_v42 |-> PdcchPhich_v42]
=============================================================================
