------------------------- MODULE MeasurementLayouts -------------------------
(***************************************************************************)
(* The decoders of the measurements of the serving and the neighbour       *)
(* cells.  A table (...Fmt and the like) has the name of its source, with  *)
(* the fields its decoder comes back to; a decoder has the name of its     *)
(* packet and the version it is for, and what is behind its name (_Record, *)
(* _Subpkt ...) names the list inside it.  A part named _Rest continues    *)
(* the part of its name.                                                   *)
(***************************************************************************)
EXTENDS Layout

-----------------------------------------------------------------------------
(* _decode_lte_phy_subpkt *)

LtePhySubpktFmt == Fmt(4, <<<<"Version", 1>>, <<"Number of SubPackets", 1>>>>, {})
LtePhySubpktFmt_v1_SubpktHeader == Fmt(4, <<<<"SubPacket ID", 1>>,
      <<"SubPacket Version", 1>>>>,
    {})
LtePhySubpktFmt_v1_Scmr_v4 == Fmt(76, <<<<"Physical Cell ID", 2>>, <<"Current SFN", 2>>,
      <<"RSRP Rx[0]", 4>>, <<"RSRP Rx[1]", 4>>, <<"RSRP", 4>>, <<"RSRQ Rx[0]", 4>>,
      <<"RSRQ Rx[1]", 4>>, <<"RSSI Rx[0]", 4>>, <<"RSSI", 4>>, <<"FTL SNR Rx[0]", 4>>>>,
    {"Serving Cell Index", "Current Subframe Number", "RSRQ", "RSSI Rx[1]",
      "FTL SNR Rx[1]"})
LtePhySubpktFmt_v1_Scmr_v7 == Fmt(80, <<<<"Physical Cell ID", 2>>, <<"Current SFN", 2>>,
      <<"RSRP Rx[0]", 4>>, <<"RSRP Rx[1]", 4>>, <<"RSRP", 4>>, <<"RSRQ Rx[0]", 4>>,
      <<"RSRQ Rx[1]", 4>>, <<"RSSI Rx[0]", 4>>, <<"RSSI", 4>>, <<"FTL SNR Rx[0]", 4>>>>,
    {"Serving Cell Index", "Current Subframe Number", "RSRQ", "RSSI Rx[1]",
      "FTL SNR Rx[1]"})
LtePhySubpktFmt_v1_Scmr_v18 == Fmt(92, <<<<"Physical Cell ID", 2>>,
      <<"Current SFN", 2>>, <<"RSRP Rx[0]", 4>>, <<"RSRP Rx[1]", 4>>, <<"RSRP", 4>>,
      <<"RSRQ Rx[0]", 4>>, <<"RSRQ Rx[1]", 4>>, <<"RSSI Rx[0]", 4>>,
      <<"FTL SNR Rx[0]", 4>>>>,
    {"Serving Cell Index", "Current Subframe Number", "RSRQ", "RSSI Rx[1]", "RSSI",
      "FTL SNR Rx[1]"})
LtePhySubpktFmt_v1_Scmr_v19 == Fmt(96, <<<<"Physical Cell ID", 2>>,
      <<"Current SFN", 2>>, <<"RSRP Rx[0]", 4>>, <<"RSRP Rx[1]", 4>>, <<"RSRP", 4>>,
      <<"RSRQ Rx[0]", 4>>, <<"RSRQ Rx[1]", 4>>, <<"RSSI Rx[0]", 4>>, <<"RSSI", 4>>,
      <<"FTL SNR Rx[0]", 4>>, <<"Projected SIR", 4>>, <<"Post IC RSRQ", 4>>>>,
    {"Serving Cell Index", "Is Serving Cell", "Current Subframe Number", "RSRQ",
      "RSSI Rx[1]", "FTL SNR Rx[1]"})
LtePhySubpktFmt_v1_Scmr_v22 == Fmt(120, <<<<"Physical Cell ID", 2>>,
      <<"Current SFN", 2>>, <<"RSRP Rx[0]", 4>>, <<"RSRP Rx[1]", 4>>, <<"RSRP", 4>>,
      <<"RSRQ Rx[0]", 4>>, <<"RSRQ Rx[1]", 4>>, <<"RSRQ", 4>>, <<"RSSI Rx[0]", 4>>,
      <<"RSSI", 4>>, <<"FTL SNR Rx[0]", 4>>, <<"Projected SIR", 4>>,
      <<"Post IC RSRQ", 4>>>>,
    {"Serving Cell Index", "Is Serving Cell", "Current Subframe Number", "RSSI Rx[1]",
      "FTL SNR Rx[1]"})
LtePhySubpktFmt_v1_Scmr_v24 == Fmt(100, <<<<"Physical Cell ID", 2>>,
      <<"Current SFN", 2>>, <<"RSRP Rx[0]", 4>>, <<"RSRP Rx[1]", 4>>, <<"RSRP", 4>>,
      <<"RSRQ Rx[0]", 2>>, <<"RSRQ Rx[1]", 2>>, <<"RSRQ", 2>>, <<"RSSI Rx[0]", 4>>,
      <<"RSSI", 4>>, <<"FTL SNR Rx[0]", 4>>>>,
    {"Serving Cell Index", "Is Serving Cell", "Current Subframe Number", "RSSI Rx[1]",
      "FTL SNR Rx[1]"})
LtePhySubpktFmt_v1_Scmr_v35 == Fmt(132, <<<<"Physical Cell ID", 2>>,
      <<"Current SFN", 2>>, <<"RSRP Rx[0]", 4>>, <<"RSRP Rx[1]", 4>>,
      <<"RSRP Rx[2]", 4>>, <<"RSRP Rx[3]", 4>>, <<"Filtered RSRP", 4>>,
      <<"RSRQ Rx[0]", 4>>, <<"RSRQ Rx[2]", 4>>, <<"RSRQ", 4>>, <<"RSSI Rx[0]", 4>>,
      <<"RSSI Rx[2]", 4>>, <<"RSSI", 4>>, <<"FTL SNR Rx[0]", 4>>,
      <<"FTL SNR Rx[2]", 4>>, <<"Projected SIR", 4>>, <<"Post IC RSRQ", 4>>>>,
    {"Serving Cell Index", "Is Serving Cell", "Current Subframe Number", "RSRP",
      "RSRQ Rx[1]", "RSRQ Rx[3]", "Filtered RSRQ", "RSSI Rx[1]", "RSSI Rx[3]",
      "FTL SNR Rx[1]", "FTL SNR Rx[3]"})
LtePhySubpktFmt_v1_Scmr_v36 == Fmt(56, <<<<"Physical Cell ID", 2>>,
      <<"Current SFN", 2>>, <<"RSRP Rx[0]", 4>>, <<"RSRP Rx[1]", 4>>, <<"RSRP", 4>>,
      <<"RSRQ Rx[0]", 4>>, <<"RSRQ", 4>>>>,
    {"Serving Cell Index", "Is Serving Cell", "Current Subframe Number", "RSRQ Rx[1]"})
LtePhySubpktFmt_v1_Scmr_v40 == Fmt(140, <<<<"Valid Rx", 2>>, <<"Physical Cell ID", 2>>,
      <<"Current SFN", 2>>, <<"RSRP Rx[0]", 4>>, <<"RSRP Rx[1]", 4>>,
      <<"RSRP Rx[2]", 4>>, <<"RSRP Rx[3]", 4>>, <<"Filtered RSRP", 4>>,
      <<"RSRQ Rx[0]", 4>>, <<"RSRQ Rx[2]", 4>>, <<"RSRQ", 4>>, <<"RSSI Rx[0]", 4>>,
      <<"RSSI Rx[2]", 4>>, <<"RSSI", 4>>, <<"FTL SNR Rx[0]", 4>>,
      <<"FTL SNR Rx[2]", 4>>, <<"Projected SIR", 4>>, <<"Post IC RSRQ", 4>>>>,
    {"Serving Cell Index", "Is Serving Cell", "Current Subframe Number", "RSRP",
      "RSRQ Rx[1]", "RSRQ Rx[3]", "Filtered RSRQ", "RSSI Rx[1]", "RSSI Rx[3]",
      "FTL SNR Rx[1]", "FTL SNR Rx[3]"})

ServingCell_v1_Subpkt_Alt_v4 ==
    << LtePhySubpktFmt_v1_Scmr_v4,
       Split(<<Word("Physical Cell ID", <<<<"Physical Cell ID", 0, 9>>,
             <<"Serving Cell Index", 9, 3>>>>),
         Word("Current SFN", <<<<"Current SFN", 0, 10>>,
             <<"Current Subframe Number", 10, 4>>>>),
         Word("RSRP Rx[0]", <<<<"RSRP Rx[0]", 10, 12>>>>),
         Word("RSRP Rx[1]", <<<<"RSRP Rx[1]", 12, 12>>>>),
         Word("RSRP", <<<<"RSRP", 12, 12>>>>),
         Word("RSRQ Rx[0]", <<<<"RSRQ Rx[0]", 12, 10>>>>),
         Word("RSRQ Rx[1]", <<<<"RSRQ Rx[1]", 0, 10>>, <<"RSRQ", 20, 10>>>>),
         Word("RSSI Rx[0]", <<<<"RSSI Rx[0]", 10, 11>>, <<"RSSI Rx[1]", 21, 11>>>>)>>),
       Split(<<Word("RSSI", <<<<"RSSI", 0, 11>>>>),
         Word("FTL SNR Rx[0]", <<<<"FTL SNR Rx[0]", 0, 9>>,
             <<"FTL SNR Rx[1]", 9, 9>>>>)>>),
       Names({"Serving Cell Index"}) >>
ServingCell_v1_Subpkt_Alt_v7 ==
    << LtePhySubpktFmt_v1_Scmr_v7,
       Split(<<Word("Physical Cell ID", <<<<"Physical Cell ID", 0, 9>>,
             <<"Serving Cell Index", 9, 3>>>>),
         Word("Current SFN", <<<<"Current SFN", 0, 10>>,
             <<"Current Subframe Number", 10, 4>>>>),
         Word("RSRP Rx[0]", <<<<"RSRP Rx[0]", 10, 12>>>>),
         Word("RSRP Rx[1]", <<<<"RSRP Rx[1]", 12, 12>>>>),
         Word("RSRP", <<<<"RSRP", 12, 12>>>>),
         Word("RSRQ Rx[0]", <<<<"RSRQ Rx[0]", 12, 10>>>>),
         Word("RSRQ Rx[1]", <<<<"RSRQ Rx[1]", 0, 10>>, <<"RSRQ", 20, 10>>>>),
         Word("RSSI Rx[0]", <<<<"RSSI Rx[0]", 10, 11>>, <<"RSSI Rx[1]", 21, 11>>>>)>>),
       Split(<<Word("RSSI", <<<<"RSSI", 0, 11>>>>),
         Word("FTL SNR Rx[0]", <<<<"FTL SNR Rx[0]", 0, 9>>,
             <<"FTL SNR Rx[1]", 9, 9>>>>)>>),
       Names({"Serving Cell Index"}) >>
ServingCell_v1_Subpkt_Alt_v18 ==
    << LtePhySubpktFmt_v1_Scmr_v18,
       Split(<<Word("Physical Cell ID", <<<<"Physical Cell ID", 0, 9>>,
             <<"Serving Cell Index", 9, 3>>>>),
         Word("Current SFN", <<<<"Current SFN", 0, 10>>,
             <<"Current Subframe Number", 10, 4>>>>),
         Word("RSRP Rx[0]", <<<<"RSRP Rx[0]", 2, 11>>>>),
         Word("RSRP Rx[1]", <<<<"RSRP Rx[1]", 4, 11>>>>),
         Word("RSRP", <<<<"RSRP", 4, 11>>>>),
         Word("RSRQ Rx[0]", <<<<"RSRQ Rx[0]", 4, 9>>>>),
         Word("RSRQ Rx[1]", <<<<"RSRQ Rx[1]", 2, 10>>, <<"RSRQ", 12, 10>>>>)>>),
       Split(<<Word("RSSI Rx[0]", <<<<"RSSI Rx[0]", 2, 11>>, <<"RSSI Rx[1]", 13, 11>>,
             <<"RSSI", 13, 11>>>>),
         Word("FTL SNR Rx[0]", <<<<"FTL SNR Rx[0]", 0, 9>>,
             <<"FTL SNR Rx[1]", 9, 9>>>>)>>),
       Names({"Serving Cell Index"}) >>
ServingCell_v1_Subpkt_Alt_v19_Rest ==
    << Split(<<Word("RSSI", <<<<"RSSI", 0, 11>>>>),
         Word("FTL SNR Rx[0]", <<<<"FTL SNR Rx[0]", 0, 9>>,
             <<"FTL SNR Rx[1]", 9, 9>>>>)>>),
       Sets({"Post IC RSRQ", "Projected SIR"}), Names({"Serving Cell Index"}) >>
ServingCell_v1_Subpkt_Alt_v19 ==
    << LtePhySubpktFmt_v1_Scmr_v19,
       Split(<<Word("Physical Cell ID", <<<<"Physical Cell ID", 0, 9>>,
             <<"Serving Cell Index", 9, 3>>, <<"Is Serving Cell", 12, 1>>>>),
         Word("Current SFN", <<<<"Current SFN", 0, 10>>,
             <<"Current Subframe Number", 10, 4>>>>),
         Word("RSRP Rx[0]", <<<<"RSRP Rx[0]", 10, 12>>>>),
         Word("RSRP Rx[1]", <<<<"RSRP Rx[1]", 12, 12>>>>),
         Word("RSRP", <<<<"RSRP", 12, 12>>>>),
         Word("RSRQ Rx[0]", <<<<"RSRQ Rx[0]", 12, 10>>>>),
         Word("RSRQ Rx[1]", <<<<"RSRQ Rx[1]", 0, 10>>, <<"RSRQ", 20, 10>>>>),
         Word("RSSI Rx[0]", <<<<"RSSI Rx[0]", 10, 11>>, <<"RSSI Rx[1]", 21, 11>>>>)>>) >>
    \o ServingCell_v1_Subpkt_Alt_v19_Rest
ServingCell_v1_Subpkt_Alt_v22_Rest == ServingCell_v1_Subpkt_Alt_v19_Rest
ServingCell_v1_Subpkt_Alt_v22 ==
    << LtePhySubpktFmt_v1_Scmr_v22,
       Split(<<Word("Physical Cell ID", <<<<"Physical Cell ID", 0, 9>>,
             <<"Serving Cell Index", 9, 3>>, <<"Is Serving Cell", 12, 1>>>>),
         Word("Current SFN", <<<<"Current SFN", 0, 10>>,
             <<"Current Subframe Number", 10, 4>>>>),
         Word("RSRP Rx[0]", <<<<"RSRP Rx[0]", 10, 12>>>>),
         Word("RSRP Rx[1]", <<<<"RSRP Rx[1]", 12, 12>>>>),
         Word("RSRP", <<<<"RSRP", 12, 12>>>>),
         Word("RSRQ Rx[0]", <<<<"RSRQ Rx[0]", 12, 10>>>>),
         Word("RSRQ Rx[1]", <<<<"RSRQ Rx[1]", 0, 10>>, <<"RSRQ", 10, 10>>>>),
         Word("RSSI Rx[0]", <<<<"RSSI Rx[0]", 10, 11>>, <<"RSSI Rx[1]", 21, 11>>>>)>>) >>
    \o ServingCell_v1_Subpkt_Alt_v22_Rest
ServingCell_v1_Subpkt_Alt_v24_Rest ==
    << Split(<<Word("RSSI", <<<<"RSSI", 0, 11>>>>),
         Word("FTL SNR Rx[0]", <<<<"FTL SNR Rx[0]", 0, 9>>,
             <<"FTL SNR Rx[1]", 9, 9>>>>)>>),
       Names({"Serving Cell Index"}) >>
ServingCell_v1_Subpkt_Alt_v24 ==
    << LtePhySubpktFmt_v1_Scmr_v24,
       Split(<<Word("Physical Cell ID", <<<<"Physical Cell ID", 0, 9>>,
             <<"Serving Cell Index", 9, 3>>, <<"Is Serving Cell", 12, 1>>>>),
         Word("Current SFN", <<<<"Current SFN", 0, 10>>,
             <<"Current Subframe Number", 10, 4>>>>),
         Word("RSRP Rx[0]", <<<<"RSRP Rx[0]", 3, 12>>>>),
         Word("RSRP Rx[1]", <<<<"RSRP Rx[1]", 4, 12>>>>),
         Word("RSRP", <<<<"RSRP", 4, 12>>>>),
         Word("RSRQ Rx[0]", <<<<"RSRQ Rx[0]", 4, 10>>>>),
         Word("RSRQ Rx[1]", <<<<"RSRQ Rx[1]", 0, 10>>>>),
         Word("RSRQ", <<<<"RSRQ", 4, 10>>>>),
         Word("RSSI Rx[0]", <<<<"RSSI Rx[0]", 10, 11>>, <<"RSSI Rx[1]", 21, 11>>>>)>>) >>
    \o ServingCell_v1_Subpkt_Alt_v24_Rest
ServingCell_v1_Subpkt_Alt_v35_Rest ==
    << Split(<<Word("RSRQ Rx[2]", <<<<"RSRQ Rx[2]", 10, 10>>,
             <<"RSRQ Rx[3]", 20, 10>>>>),
         Word("RSRQ", <<<<"RSRQ", 0, 10>>, <<"Filtered RSRQ", 20, 12>>>>),
         Word("RSSI Rx[0]", <<<<"RSSI Rx[0]", 0, 11>>, <<"RSSI Rx[1]", 11, 11>>>>),
         Word("RSSI Rx[2]", <<<<"RSSI Rx[2]", 0, 11>>, <<"RSSI Rx[3]", 11, 11>>>>),
         Word("RSSI", <<<<"RSSI", 0, 11>>>>),
         Word("FTL SNR Rx[0]", <<<<"FTL SNR Rx[0]", 0, 9>>,
             <<"FTL SNR Rx[1]", 9, 9>>>>),
         Word("FTL SNR Rx[2]", <<<<"FTL SNR Rx[2]", 0, 9>>,
             <<"FTL SNR Rx[3]", 9, 9>>>>)>>),
       Sets({"Post IC RSRQ", "Projected SIR"}), Names({"Serving Cell Index"}) >>
ServingCell_v1_Subpkt_Alt_v35 ==
    << LtePhySubpktFmt_v1_Scmr_v35,
       Split(<<Word("Physical Cell ID", <<<<"Physical Cell ID", 0, 9>>,
             <<"Serving Cell Index", 9, 3>>, <<"Is Serving Cell", 12, 1>>>>),
         Word("Current SFN", <<<<"Current SFN", 0, 10>>,
             <<"Current Subframe Number", 10, 4>>>>),
         Word("RSRP Rx[0]", <<<<"RSRP Rx[0]", 10, 12>>>>),
         Word("RSRP Rx[1]", <<<<"RSRP Rx[1]", 12, 12>>>>),
         Word("RSRP Rx[2]", <<<<"RSRP Rx[2]", 12, 12>>>>),
         Word("RSRP Rx[3]", <<<<"RSRP Rx[3]", 0, 12>>, <<"RSRP", 12, 12>>>>),
         Word("Filtered RSRP", <<<<"Filtered RSRP", 12, 12>>>>),
         Word("RSRQ Rx[0]", <<<<"RSRQ Rx[0]", 0, 10>>, <<"RSRQ Rx[1]", 20, 10>>>>)>>) >>
    \o ServingCell_v1_Subpkt_Alt_v35_Rest
ServingCell_v1_Subpkt_Alt_v36 ==
    << LtePhySubpktFmt_v1_Scmr_v36,
       Split(<<Word("Physical Cell ID", <<<<"Physical Cell ID", 0, 9>>,
             <<"Serving Cell Index", 9, 3>>, <<"Is Serving Cell", 12, 1>>>>),
         Word("Current SFN", <<<<"Current SFN", 0, 10>>,
             <<"Current Subframe Number", 10, 4>>>>),
         Word("RSRP Rx[0]", <<<<"RSRP Rx[0]", 10, 12>>>>),
         Word("RSRP Rx[1]", <<<<"RSRP Rx[1]", 12, 12>>>>),
         Word("RSRP", <<<<"RSRP", 0, 12>>>>),
         Word("RSRQ Rx[0]", <<<<"RSRQ Rx[0]", 0, 10>>, <<"RSRQ Rx[1]", 20, 10>>,
             <<"RSRQ", 0, 10>>>>)>>),
       Names({"Serving Cell Index"}) >>
ServingCell_v1_Subpkt_Alt_v40_Rest ==
    << Split(<<Word("RSRQ Rx[2]", <<<<"RSRQ Rx[2]", 10, 10>>,
             <<"RSRQ Rx[3]", 20, 10>>>>),
         Word("RSRQ", <<<<"RSRQ", 0, 10>>, <<"Filtered RSRQ", 20, 12>>>>),
         Word("RSSI Rx[0]", <<<<"RSSI Rx[0]", 0, 11>>, <<"RSSI Rx[1]", 11, 11>>>>),
         Word("RSSI Rx[2]", <<<<"RSSI Rx[2]", 0, 11>>, <<"RSSI Rx[3]", 11, 11>>>>),
         Word("RSSI", <<<<"RSSI", 0, 11>>>>),
         Word("FTL SNR Rx[0]", <<<<"FTL SNR Rx[0]", 0, 9>>,
             <<"FTL SNR Rx[1]", 9, 9>>>>),
         Word("FTL SNR Rx[2]", <<<<"FTL SNR Rx[2]", 0, 9>>,
             <<"FTL SNR Rx[3]", 9, 9>>>>)>>),
       Sets({"Post IC RSRQ", "Projected SIR"}),
       Names({"Valid Rx", "Serving Cell Index"}) >>
ServingCell_v1_Subpkt_Alt_v40 ==
    << LtePhySubpktFmt_v1_Scmr_v40,
       Split(<<Word("Physical Cell ID", <<<<"Physical Cell ID", 0, 9>>,
             <<"Serving Cell Index", 9, 3>>, <<"Is Serving Cell", 12, 1>>>>),
         Word("Current SFN", <<<<"Current SFN", 0, 10>>,
             <<"Current Subframe Number", 10, 4>>>>),
         Word("RSRP Rx[0]", <<<<"RSRP Rx[0]", 10, 12>>>>),
         Word("RSRP Rx[1]", <<<<"RSRP Rx[1]", 12, 12>>>>),
         Word("RSRP Rx[2]", <<<<"RSRP Rx[2]", 12, 12>>>>),
         Word("RSRP Rx[3]", <<<<"RSRP Rx[3]", 0, 12>>, <<"RSRP", 12, 12>>>>),
         Word("Filtered RSRP", <<<<"Filtered RSRP", 12, 12>>>>),
         Word("RSRQ Rx[0]", <<<<"RSRQ Rx[0]", 0, 10>>, <<"RSRQ Rx[1]", 20, 10>>>>)>>) >>
    \o ServingCell_v1_Subpkt_Alt_v40_Rest
ServingCell_v1_Subpkt_Alt ==
    << Either(<<
         ServingCell_v1_Subpkt_Alt_v4, ServingCell_v1_Subpkt_Alt_v7,
         ServingCell_v1_Subpkt_Alt_v18, ServingCell_v1_Subpkt_Alt_v19,
         ServingCell_v1_Subpkt_Alt_v22, ServingCell_v1_Subpkt_Alt_v24,
         ServingCell_v1_Subpkt_Alt_v35, ServingCell_v1_Subpkt_Alt_v36,
         ServingCell_v1_Subpkt_Alt_v40, <<>>>>) >>
ServingCell_v1_Subpkt ==
    << LtePhySubpktFmt_v1_SubpktHeader, Reads({"SubPacket ID", "SubPacket Version"}),
       Either(<<
         <<>>, ServingCell_v1_Subpkt_Alt>>) >>
ServingCell_v1 ==
    << LtePhySubpktFmt, Reads({"Version", "Number of SubPackets"}),
       ForEach("Number of SubPackets", ServingCell_v1_Subpkt) >>
-----------------------------------------------------------------------------
(* _decode_lte_phy_idle_neighbor_cell_meas_payload *)

LtePhyIncm_Fmt == Fmt(4, <<<<"Version", 1>>, <<"Number of SubPackets", 1>>>>, {})
LtePhyIncm_Subpacket_Header_v1 == Fmt(4, <<<<"SubPacket ID", 1>>, <<"Version", 1>>,
      <<"SubPacket Size", 2>>>>,
    {})
LtePhyIncm_Subpacket_Payload_26v1 == Fmt(4, <<<<"Num Cells", 1>>>>,
    {"Num Rx Ant", "Deplexing Mode"})
LtePhyIncm_Subpacket_26v1_cell == Fmt(16, <<<<"Cell ID", 2>>>>,
    {"CP Type", "Enabled Tx Antennas", "TTL Enabled", "FTL Enabled"})
LtePhyIncm_Subpacket_Payload_26v2 == Fmt(8, <<<<"Num Cells", 1>>>>,
    {"Num Rx Ant", "Deplexing Mode"})
LtePhyIncm_Subpacket_Payload_27v2 == Fmt(4, <<<<"Num Cells", 2>>>>,
    {"Deplexing Mode"})
LtePhyIncm_Subpacket_27v2_cell == Fmt(52, <<<<"Physical Cell ID", 4>>,
      <<"Inst Measured RSRP", 2>>, <<"Inst Measured RSRQ", 4>>,
      <<"Inst Measured RSSI", 4>>>>,
    {"FTL Cumulative Freq Offset"})
LtePhyIncm_Subpacket_Payload_27v4 == Fmt(8, <<<<"Num Cells", 2>>>>,
    {"Deplexing Mode", "Serving Cell Index"})

IdleNeighbor_v1_Subpkt_26v1 ==
    << LtePhyIncm_Subpacket_Payload_26v1,
       Split(<<Word("Num Cells", <<<<"Num Cells", 0, 4>>, <<"Num Rx Ant", 4, 2>>,
             <<"Deplexing Mode", 6, 2>>>>)>>),
       Names({"Deplexing Mode"}),
       ForEach("Num Cells",
         << LtePhyIncm_Subpacket_26v1_cell,
            Split(<<Word("Cell ID", <<<<"Cell ID", 0, 10>>, <<"CP Type", 10, 1>>,
                  <<"Enabled Tx Antennas", 11, 2>>, <<"TTL Enabled", 13, 1>>,
                  <<"FTL Enabled", 14, 1>>>>)>>),
            Names({"CP Type", "TTL Enabled", "FTL Enabled"}) >>) >>
IdleNeighbor_v1_Subpkt_26v2 ==
    << LtePhyIncm_Subpacket_Payload_26v2,
       Split(<<Word("Num Cells", <<<<"Num Cells", 0, 4>>, <<"Num Rx Ant", 4, 2>>,
             <<"Deplexing Mode", 6, 2>>>>)>>),
       Names({"Deplexing Mode"}),
       ForEach("Num Cells",
         << LtePhyIncm_Subpacket_26v1_cell,
            Split(<<Word("Cell ID", <<<<"Cell ID", 0, 10>>, <<"CP Type", 10, 1>>,
                  <<"Enabled Tx Antennas", 11, 2>>, <<"TTL Enabled", 13, 1>>,
                  <<"FTL Enabled", 14, 1>>>>)>>),
            Names({"CP Type", "TTL Enabled", "FTL Enabled"}) >>) >>
IdleNeighbor_v1_Subpkt_27v2 ==
    << LtePhyIncm_Subpacket_Payload_27v2,
       Split(<<Word("Num Cells", <<<<"Num Cells", 0, 6>>,
             <<"Deplexing Mode", 7, 2>>>>)>>),
       Names({"Deplexing Mode"}),
       ForEach("Num Cells",
         << LtePhyIncm_Subpacket_27v2_cell,
            Split(<<Word("Physical Cell ID", <<<<"Physical Cell ID", 0, 10>>,
                  <<"FTL Cumulative Freq Offset", 10, 16>>>>),
              Word("Inst Measured RSRP", <<<<"Inst Measured RSRP", 0, 12>>>>),
              Word("Inst Measured RSRQ", <<<<"Inst Measured RSRQ", 10, 10>>>>),
              Word("Inst Measured RSSI", <<<<"Inst Measured RSSI", 11, 11>>>>)>>) >>) >>
IdleNeighbor_v1_Subpkt_27v4 ==
    << LtePhyIncm_Subpacket_Payload_27v4,
       Split(<<Word("Num Cells", <<<<"Num Cells", 0, 6>>, <<"Deplexing Mode", 7, 2>>,
             <<"Serving Cell Index", 9, 4>>>>)>>),
       Names({"Deplexing Mode", "Serving Cell Index"}),
       ForEach("Num Cells",
         << LtePhyIncm_Subpacket_27v2_cell,
            Split(<<Word("Physical Cell ID", <<<<"Physical Cell ID", 0, 10>>,
                  <<"FTL Cumulative Freq Offset", 10, 16>>>>),
              Word("Inst Measured RSRP", <<<<"Inst Measured RSRP", 0, 12>>>>),
              Word("Inst Measured RSRQ", <<<<"Inst Measured RSRQ", 10, 10>>>>),
              Word("Inst Measured RSSI", <<<<"Inst Measured RSSI", 11, 11>>>>)>>) >>) >>
IdleNeighbor_v1_Subpkt ==
    << LtePhyIncm_Subpacket_Header_v1, Reads({"SubPacket ID", "Version"}),
       Sized("SubPacket Size"),
       Either(<<
         IdleNeighbor_v1_Subpkt_26v1, IdleNeighbor_v1_Subpkt_26v2,
         IdleNeighbor_v1_Subpkt_27v2, IdleNeighbor_v1_Subpkt_27v4, <<>>>>),
       Realign >>
IdleNeighbor_v1 ==
    << LtePhyIncm_Fmt, Reads({"Version", "Number of SubPackets"}),
       ForEach("Number of SubPackets", IdleNeighbor_v1_Subpkt) >>
-----------------------------------------------------------------------------
(* _decode_lte_phy_connected_neighbor_cell_meas_payload *)

LtePhyCncm_Fmt == Fmt(4, <<<<"Version", 1>>, <<"Number of SubPackets", 1>>>>, {})
LtePhyCncm_Subpacket_Header_v1 == Fmt(4, <<<<"SubPacket ID", 1>>, <<"Version", 1>>,
      <<"SubPacket Size", 2>>>>,
    {})
LtePhyCncm_Subpacket_Payload_31v4 == Fmt(8, <<<<"Num Cells", 2>>>>,
    {"Deplexing Mode", "Serving Cell Index"})
LtePhyCncm_Subpacket_31v4_cell == Fmt(52, <<<<"Physical Cell ID", 4>>,
      <<"Inst Measured RSRP", 2>>, <<"Inst Measured RSRQ", 4>>,
      <<"Inst Measured RSSI", 4>>>>,
    {"FTL Cumulative Freq Offset"})
LtePhyCncm_Subpacket_Payload_31v3 == Fmt(4, <<<<"Num Cells", 2>>>>,
    {"Deplexing Mode", "Serving Cell Index"})
LtePhyCncm_Subpacket_31v3_cell == Fmt(52, <<<<"Physical Cell ID", 4>>,
      <<"Inst Measured RSRP", 2>>, <<"Inst Measured RSRQ", 4>>,
      <<"Inst Measured RSSI", 4>>>>,
    {"FTL Cumulative Freq Offset"})

ConnectedNeighbor_v1_Subpkt_31v4 ==
    << LtePhyCncm_Subpacket_Payload_31v4,
       Split(<<Word("Num Cells", <<<<"Num Cells", 0, 6>>, <<"Deplexing Mode", 7, 2>>,
             <<"Serving Cell Index", 9, 4>>>>)>>),
       Names({"Deplexing Mode", "Serving Cell Index"}),
       ForEach("Num Cells",
         << LtePhyCncm_Subpacket_31v4_cell,
            Split(<<Word("Physical Cell ID", <<<<"Physical Cell ID", 0, 10>>,
                  <<"FTL Cumulative Freq Offset", 10, 16>>>>),
              Word("Inst Measured RSRP", <<<<"Inst Measured RSRP", 0, 12>>>>),
              Word("Inst Measured RSRQ", <<<<"Inst Measured RSRQ", 10, 10>>>>),
              Word("Inst Measured RSSI", <<<<"Inst Measured RSSI", 11, 11>>>>)>>) >>) >>
ConnectedNeighbor_v1_Subpkt_31v3 ==
    << LtePhyCncm_Subpacket_Payload_31v3,
       Split(<<Word("Num Cells", <<<<"Num Cells", 0, 6>>, <<"Deplexing Mode", 7, 2>>,
             <<"Serving Cell Index", 9, 4>>>>)>>),
       Names({"Deplexing Mode", "Serving Cell Index"}),
       ForEach("Num Cells",
         << LtePhyCncm_Subpacket_31v3_cell,
            Split(<<Word("Physical Cell ID", <<<<"Physical Cell ID", 0, 10>>,
                  <<"FTL Cumulative Freq Offset", 10, 16>>>>),
              Word("Inst Measured RSRP", <<<<"Inst Measured RSRP", 0, 12>>>>),
              Word("Inst Measured RSRQ", <<<<"Inst Measured RSRQ", 10, 10>>>>),
              Word("Inst Measured RSSI", <<<<"Inst Measured RSSI", 11, 11>>>>)>>) >>) >>
ConnectedNeighbor_v1_Subpkt ==
    << LtePhyCncm_Subpacket_Header_v1, Reads({"SubPacket ID", "Version"}),
       Sized("SubPacket Size"),
       Either(<<
         <<>>, ConnectedNeighbor_v1_Subpkt_31v4, ConnectedNeighbor_v1_Subpkt_31v3>>),
       Realign >>
ConnectedNeighbor_v1 ==
    << LtePhyCncm_Fmt, Reads({"Version", "Number of SubPackets"}),
       ForEach("Number of SubPackets", ConnectedNeighbor_v1_Subpkt) >>
-----------------------------------------------------------------------------
(* _decode_lte_phy_serving_cell_com_loop_payload *)

LtePhyServingCellComLoop_Fmt == Fmt(1, <<<<"Version", 1>>>>, {})
LtePhyServingCellComLoop_Payload_v22 == Fmt(3, <<<<"Carrier Index", 2>>>>,
    {"Number of Records"})
LtePhyServingCellComLoop_Record_v41 == Fmt(52, <<<<"System Frame Number", 2>>,
      <<"COM IIR Alpha", 2>>, <<"COM Adjustment[0]", 4>>, <<"COM Adjustment[1]", 4>>,
      <<"COM Unwrap Base[0]", 4>>, <<"COM Unwrap Base[1]", 4>>>>,
    {"Subframe Number", "Enabled"})
LtePhyServingCellComLoop_Payload_v41 == Fmt(3, <<<<"Carrier Index", 2>>,
      <<"Number of Records", 1>>>>,
    {"Cell ID"})

ComLoop_v22 ==
    << LtePhyServingCellComLoop_Fmt, Reads({"Version"}),
       LtePhyServingCellComLoop_Payload_v22,
       Split(<<Word("Carrier Index", <<<<"Carrier Index", 0, 4>>,
             <<"Number of Records", 4, 5>>>>)>>),
       Names({"Carrier Index"}),
       ForEach("Number of Records",
         << LtePhyServingCellComLoop_Record_v41,
            Split(<<Word("System Frame Number", <<<<"System Frame Number", 0, 10>>,
                  <<"Subframe Number", 10, 4>>, <<"Enabled", 14, 1>>>>)>>),
            Sets({"COM IIR Alpha", "COM Adjustment[0]", "COM Adjustment[1]",
              "COM Unwrap Base[0]", "COM Unwrap Base[1]"}),
            Names({"Enabled"}) >>) >>

ComLoop_v41 ==
    << LtePhyServingCellComLoop_Fmt, Reads({"Version"}),
       LtePhyServingCellComLoop_Payload_v41,
       Split(<<Word("Carrier Index", <<<<"Carrier Index", 0, 4>>,
             <<"Cell ID", 4, 9>>>>),
         Word("Number of Records", <<<<"Number of Records", 1, 5>>>>)>>),
       Names({"Carrier Index"}),
       ForEach("Number of Records",
         << LtePhyServingCellComLoop_Record_v41,
            Split(<<Word("System Frame Number", <<<<"System Frame Number", 0, 10>>,
                  <<"Subframe Number", 10, 4>>, <<"Enabled", 14, 1>>>>)>>),
            Sets({"COM IIR Alpha", "COM Adjustment[0]", "COM Adjustment[1]",
              "COM Unwrap Base[0]", "COM Unwrap Base[1]"}),
            Names({"Enabled"}) >>) >>

-----------------------------------------------------------------------------
(* The decoders of this module, by name *)

MeasurementDecoders == [
    ServingCell_v1 |-> ServingCell_v1,
    IdleNeighbor_v1 |-> IdleNeighbor_v1,
    ConnectedNeighbor_v1 |-> ConnectedNeighbor_v1,
    ComLoop_v22 |-> ComLoop_v22,
    ComLoop_v41 |-> ComLoop_v41]
=============================================================================
