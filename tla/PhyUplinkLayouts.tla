-------------------------- MODULE PhyUplinkLayouts --------------------------
(***************************************************************************)
(* The decoders of the uplink of the LTE physical layer.  A table (...Fmt  *)
(* and the like) has the name of its source, with the fields its decoder   *)
(* comes back to; a decoder has the name of its packet and the version it  *)
(* is for, and what is behind its name (_Record, _Subpkt ...) names the    *)
(* list inside it.  A part named _Rest continues the part of its name.     *)
(***************************************************************************)
EXTENDS Layout

-----------------------------------------------------------------------------
(* _decode_lte_phy_pusch_tx_report_payload *)

LtePhyPuschTxReport_Fmt == Fmt(1, <<<<"Version", 1>>>>, {})
LtePhyPuschTxReport_Payload_v23 == Fmt(7, <<<<"Serving Cell ID", 2>>>>,
    {"Number of Records"})
LtePhyPuschTxReport_Record_v23 == Fmt(48, <<<<"Coding Rate Data", 2>>, <<"ACK", 4>>,
      <<"DMRS Root Slot 1", 4>>, <<"Num ACK Bits", 2>>, <<"Rate Matched ACK Bits", 4>>,
      <<"PUSCH Digital Gain (dB)", 1>>, <<"SRS Occasion", 1>>,
      <<"PUSCH Tx Power (dBm)", 4>>>>,
    {"CQI", "RI", "Frequency Hopping", "Redund Ver", "Mirror Hopping",
      "Cyclic Shift of DMRS Symbols Slot 0 (Samples)",
      "Cyclic Shift of DMRS Symbols Slot 1 (Samples)", "DMRS Root Slot 0", "UE SRS",
      "Start RB Slot 0", "Start RB Slot 1", "Num of RB", "ACK Payload",
      "Num RI Bits NRI (bits)", "RI Payload", "Rate Matched RI Bits", "PUSCH Mod Order",
      "RI Payload2", "Re-tx Index", "Num CQI Bits", "Rate Matched CQI Bits"})
LtePhyPuschTxReport_Payload_v24 == Fmt(7, <<<<"Serving Cell ID", 2>>>>,
    {"Number of Records"})
LtePhyPuschTxReport_Record_v24 == Fmt(48, <<<<"Coding Rate Data", 2>>, <<"ACK", 4>>,
      <<"DMRS Root Slot 1", 4>>, <<"Num ACK Bits", 2>>, <<"Rate Matched ACK Bits", 4>>,
      <<"PUSCH Digital Gain (dB)", 1>>, <<"SRS Occasion", 1>>,
      <<"PUSCH Tx Power (dBm)", 4>>>>,
    {"CQI", "RI", "Frequency Hopping", "Redund Ver", "Mirror Hopping",
      "Cyclic Shift of DMRS Symbols Slot 0 (Samples)",
      "Cyclic Shift of DMRS Symbols Slot 1 (Samples)", "DMRS Root Slot 0", "UE SRS",
      "Start RB Slot 0", "Start RB Slot 1", "Num of RB", "ACK Payload",
      "Num RI Bits NRI (bits)", "RI Payload", "Rate Matched RI Bits", "PUSCH Mod Order",
      "RI Payload2", "Re-tx Index", "Num CQI Bits", "Rate Matched CQI Bits"})
LtePhyPuschTxReport_Payload_v26 == Fmt(7, <<<<"Serving Cell ID", 2>>>>,
    {"Number of Records"})
LtePhyPuschTxReport_Record_v26 == Fmt(52, <<<<"Coding Rate Data", 2>>, <<"ACK", 4>>,
      <<"DMRS Root Slot 1", 4>>, <<"Num ACK Bits", 2>>, <<"Rate Matched ACK Bits", 4>>,
      <<"PUSCH Digital Gain (dB)", 1>>, <<"SRS Occasion", 1>>,
      <<"PUSCH Tx Power (dBm)", 4>>, <<"Num Repetition", 4>>>>,
    {"CQI", "RI", "Frequency Hopping", "Redund Ver", "Mirror Hopping",
      "Cyclic Shift of DMRS Symbols Slot 0 (Samples)",
      "Cyclic Shift of DMRS Symbols Slot 1 (Samples)", "DMRS Root Slot 0", "UE SRS",
      "Start RB Slot 0", "Start RB Slot 1", "Num of RB", "ACK Payload",
      "Num RI Bits NRI (bits)", "RI Payload", "Rate Matched RI Bits", "PUSCH Mod Order",
      "RI Payload2", "Re-tx Index", "Num CQI Bits", "Rate Matched CQI Bits",
      "RB NB Start Index"})
LtePhyPuschTxReport_Payload_v43 == Fmt(7, <<<<"Serving Cell ID", 2>>>>,
    {"Number of Records"})
LtePhyPuschTxReport_Record_v43 == Fmt(64, <<<<"Coding Rate Data", 2>>, <<"ACK", 4>>,
      <<"DMRS Root Slot 1", 4>>, <<"Rate Matched ACK Bits", 2>>, <<"ACK Payload", 4>>,
      <<"RI Payload", 4>>, <<"PUSCH Tx Power (dBm)", 4>>>>,
    {"CQI", "RI", "Frequency Hopping", "Redund Ver", "Mirror Hopping",
      "Cyclic Shift of DMRS Symbols Slot 0 (Samples)",
      "Cyclic Shift of DMRS Symbols Slot 1 (Samples)", "DMRS Root Slot 0", "UE SRS",
      "Start RB Slot 0", "Start RB Slot 1", "Num of RB", "ACK/NAK Inp Length 0",
      "ACK/NAK Inp Length 1", "Num RI Bits NRI (bits)", "Rate Matched RI Bits",
      "PUSCH Mod Order", "PUSCH Digital Gain (dB)", "SRS Occasion", "Re-tx Index",
      "Num CQI Bits", "Rate Matched CQI Bits"})
LtePhyPuschTxReport_Payload_v102 == Fmt(7, <<<<"Serving Cell ID", 2>>>>,
    {"Number of Records"})
LtePhyPuschTxReport_Record_v102 == Fmt(68, <<<<"Carrier Index", 2>>,
      <<"Resource Allocation Type", 4>>, <<"Coding Rate", 2>>,
      <<"Rate Matched ACK Bits", 4>>, <<"ACK Payload", 4>>, <<"PUSCH Mod Order", 4>>,
      <<"PUSCH Tx Power (dBm)", 4>>, <<"Num DL Carriers", 4>>,
      <<"Cyclic Shift of DMRS Symbols Slot 0 (Samples)", 4>>>>,
    {"ACK", "CQI", "RI", "Frequency Hopping", "Re-tx Index", "Redund Ver",
      "Mirror Hopping", "Start RB Slot 0", "Start RB Slot 1", "Num of RB", "RI Payload",
      "Rate Matched RI Bits", "UE SRS", "SRS Occasion", "ACK/NAK Inp Length 0",
      "ACK/NAK Inp Length 1", "Num RI Bits NRI (bits)", "PUSCH Digital Gain (dB)",
      "Start RB Cluster1", "Num RB Cluster1", "Num CQI Bits", "Rate Matched CQI Bits",
      "Ack Nack Index", "Ack Nack Late", "CSF Late", "Drop PUSCH",
      "Cyclic Shift of DMRS Symbols Slot 1 (Samples)", "DMRS Root Slot 0",
      "DMRS Root Slot 1"})
LtePhyPuschTxReport_Record_v122 == Fmt(68, <<<<"UL Carrier Index", 2>>,
      <<"Start RB Slot 0", 4>>, <<"Coding Rate", 2>>, <<"Rate Matched ACK Bits", 4>>,
      <<"ACK Payload", 4>>, <<"PUSCH Mod Order", 4>>, <<"PUSCH Tx Power (dBm)", 4>>,
      <<"Num DL Carriers", 4>>,
      <<"Cyclic Shift of DMRS Symbols Slot 0 (Samples)", 4>>>>,
    {"ACK", "CQI", "RI", "Frequency Hopping", "Re-tx Index", "Redund Ver",
      "Mirror Hopping", "Start RB Slot 1", "Num of RB", "DL Carrier Index",
      "RI Payload", "Rate Matched RI Bits", "UE SRS", "SRS Occasion",
      "ACK/NAK Inp Length 0", "ACK/NAK Inp Length 1", "Num RI Bits NRI (bits)",
      "PUSCH Digital Gain (dB)", "Num CQI Bits", "Rate Matched CQI Bits",
      "Ack Nack Index", "Ack Nack Late", "CSF Late", "Drop PUSCH",
      "Cyclic Shift of DMRS Symbols Slot 1 (Samples)", "DMRS Root Slot 0",
      "DMRS Root Slot 1"})
LtePhyPuschTxReport_Record_v124 == Fmt(84, <<<<"UL Carrier Index", 2>>,
      <<"Resource Allocation Type", 4>>, <<"Coding Rate", 2>>,
      <<"Rate Matched ACK Bits", 4>>, <<"ACK Payload", 4>>, <<"PUSCH Mod Order", 4>>,
      <<"PUSCH Tx Power (dBm)", 4>>, <<"Num DL Carriers", 4>>,
      <<"Cyclic Shift of DMRS Symbols Slot 0 (Samples)", 4>>>>,
    {"ACK", "CQI", "RI", "Frequency Hopping", "Re-tx Index", "Redund Ver",
      "Mirror Hopping", "Start RB Slot 0", "Start RB Slot 1", "Num of RB",
      "DL Carrier Index", "RI Payload", "Rate Matched RI Bits", "UE SRS",
      "SRS Occasion", "ACK/NAK Inp Length 0", "ACK/NAK Inp Length 1",
      "Num RI Bits NRI (bits)", "PUSCH Digital Gain (dB)", "Start RB Cluster1",
      "Num RB Cluster1", "Num CQI Bits", "Rate Matched CQI Bits", "Ack Nack Index",
      "Ack Nack Late", "CSF Late", "Drop PUSCH",
      "Cyclic Shift of DMRS Symbols Slot 1 (Samples)", "DMRS Root Slot 0",
      "DMRS Root Slot 1"})
LtePhyPuschTxReport_Payload_v144 == Fmt(7, <<<<"Serving Cell ID", 2>>>>,
    {"Number of Records"})
LtePhyPuschTxReport_Record_v144 == Fmt(100, <<<<"UL Carrier Index", 2>>,
      <<"Resource Allocation Type", 4>>, <<"Coding Rate", 2>>,
      <<"Rate Matched ACK Bits", 4>>, <<"ACK/NAK Inp Length 0", 4>>, <<"UE SRS", 4>>,
      <<"PUSCH Tx Power (dBm)", 4>>, <<"Num DL Carriers", 4>>,
      <<"Cyclic Shift of DMRS Symbols Slot 0 (Samples)", 4>>>>,
    {"ACK", "CQI", "RI", "Frequency Hopping", "Re-tx Index", "Redund Ver",
      "Mirror Hopping", "Start RB Slot 0", "Start RB Slot 1", "Num of RB",
      "DL Carrier Index", "Enable UL DMRS OCC", "RI Payload", "Num RI Bits NRI",
      "ACK Payload", "ACK/NAK Inp Length 1", "Rate Matched RI Bits", "Reserved",
      "SRS Occasion", "PUSCH Mod Order", "PUSCH Digital Gain", "Start RB Cluster1",
      "Num RB Cluster1", "Num CQI Bits", "Rate Matched CQI Bits", "Ack Nack Index",
      "Ack Nack Late", "CSF Late", "Drop PUSCH",
      "Cyclic Shift of DMRS Symbols Slot 1 (Samples)"})

PuschTx_v23_Record_Rest ==
    << Split(<<Word("Rate Matched ACK Bits", <<<<"Rate Matched ACK Bits", 0, 11>>,
             <<"Num RI Bits NRI (bits)", 11, 2>>, <<"RI Payload", 13, 2>>,
             <<"Rate Matched RI Bits", 15, 11>>, <<"PUSCH Mod Order", 26, 2>>,
             <<"RI Payload2", 28, 1>>, <<"RI Payload2", 30, 1>>>>),
         Word("SRS Occasion", <<<<"SRS Occasion", 0, 1>>, <<"Re-tx Index", 1, 5>>>>),
         Word("PUSCH Tx Power (dBm)", <<<<"PUSCH Tx Power (dBm)", 0, 10>>,
             <<"Num CQI Bits", 10, 8>>, <<"Rate Matched CQI Bits", 18, 14>>>>)>>),
       Sets({"Coding Rate Data"}),
       Names({"ACK", "CQI", "RI", "Frequency Hopping", "UE SRS", "PUSCH Mod Order"}) >>
PuschTx_v23_Record ==
    << LtePhyPuschTxReport_Record_v23,
       Split(<<Word("ACK", <<<<"ACK", 0, 1>>, <<"CQI", 1, 1>>, <<"RI", 2, 1>>,
             <<"Frequency Hopping", 3, 2>>, <<"Redund Ver", 5, 2>>,
             <<"Mirror Hopping", 7, 2>>,
             <<"Cyclic Shift of DMRS Symbols Slot 0 (Samples)", 9, 4>>,
             <<"Cyclic Shift of DMRS Symbols Slot 1 (Samples)", 13, 4>>,
             <<"DMRS Root Slot 0", 17, 11>>, <<"UE SRS", 28, 1>>>>),
         Word("DMRS Root Slot 1", <<<<"DMRS Root Slot 1", 0, 11>>,
             <<"Start RB Slot 0", 11, 7>>, <<"Start RB Slot 1", 18, 7>>,
             <<"Num of RB", 25, 7>>>>),
         Word("Num ACK Bits", <<<<"Num ACK Bits", 0, 3>>, <<"ACK Payload", 3, 1>>,
             <<"ACK Payload", 5, 1>>, <<"ACK Payload", 7, 1>>>>)>>) >>
    \o PuschTx_v23_Record_Rest
PuschTx_v23 ==
    << LtePhyPuschTxReport_Fmt, Reads({"Version"}), LtePhyPuschTxReport_Payload_v23,
       Split(<<Word("Serving Cell ID", <<<<"Number of Records", 9, 5>>,
             <<"Serving Cell ID", 0, 9>>>>)>>),
       ForEach("Number of Records", PuschTx_v23_Record) >>

PuschTx_v24_Record_Rest == PuschTx_v23_Record_Rest
PuschTx_v24_Record ==
    << LtePhyPuschTxReport_Record_v24,
       Split(<<Word("ACK", <<<<"ACK", 0, 1>>, <<"CQI", 1, 1>>, <<"RI", 2, 1>>,
             <<"Frequency Hopping", 3, 2>>, <<"Redund Ver", 5, 2>>,
             <<"Mirror Hopping", 7, 2>>,
             <<"Cyclic Shift of DMRS Symbols Slot 0 (Samples)", 9, 4>>,
             <<"Cyclic Shift of DMRS Symbols Slot 1 (Samples)", 13, 4>>,
             <<"DMRS Root Slot 0", 17, 11>>, <<"UE SRS", 28, 1>>>>),
         Word("DMRS Root Slot 1", <<<<"DMRS Root Slot 1", 0, 11>>,
             <<"Start RB Slot 0", 11, 7>>, <<"Start RB Slot 1", 18, 7>>,
             <<"Num of RB", 25, 7>>>>),
         Word("Num ACK Bits", <<<<"Num ACK Bits", 0, 3>>, <<"ACK Payload", 3, 1>>,
             <<"ACK Payload", 5, 1>>, <<"ACK Payload", 7, 1>>>>)>>) >>
    \o PuschTx_v24_Record_Rest
PuschTx_v24 ==
    << LtePhyPuschTxReport_Fmt, Reads({"Version"}), LtePhyPuschTxReport_Payload_v24,
       Split(<<Word("Serving Cell ID", <<<<"Number of Records", 9, 5>>,
             <<"Serving Cell ID", 0, 9>>>>)>>),
       ForEach("Number of Records", PuschTx_v24_Record) >>

PuschTx_v26_Record_Rest ==
    << Split(<<Word("Rate Matched ACK Bits", <<<<"Rate Matched ACK Bits", 0, 11>>,
             <<"Num RI Bits NRI (bits)", 11, 2>>, <<"RI Payload", 13, 2>>,
             <<"Rate Matched RI Bits", 15, 11>>, <<"PUSCH Mod Order", 26, 2>>,
             <<"RI Payload2", 28, 1>>, <<"RI Payload2", 30, 1>>>>),
         Word("SRS Occasion", <<<<"SRS Occasion", 0, 1>>, <<"Re-tx Index", 1, 5>>>>),
         Word("PUSCH Tx Power (dBm)", <<<<"PUSCH Tx Power (dBm)", 0, 10>>,
             <<"Num CQI Bits", 10, 8>>, <<"Rate Matched CQI Bits", 18, 14>>>>),
         Word("Num Repetition", <<<<"Num Repetition", 0, 12>>,
             <<"RB NB Start Index", 12, 8>>>>)>>),
       Sets({"Coding Rate Data"}),
       Names({"ACK", "CQI", "RI", "Frequency Hopping", "UE SRS", "PUSCH Mod Order"}) >>
PuschTx_v26_Record ==
    << LtePhyPuschTxReport_Record_v26,
       Split(<<Word("ACK", <<<<"ACK", 0, 1>>, <<"CQI", 1, 1>>, <<"RI", 2, 1>>,
             <<"Frequency Hopping", 3, 2>>, <<"Redund Ver", 5, 2>>,
             <<"Mirror Hopping", 7, 2>>,
             <<"Cyclic Shift of DMRS Symbols Slot 0 (Samples)", 9, 4>>,
             <<"Cyclic Shift of DMRS Symbols Slot 1 (Samples)", 13, 4>>,
             <<"DMRS Root Slot 0", 17, 11>>, <<"UE SRS", 28, 1>>>>),
         Word("DMRS Root Slot 1", <<<<"DMRS Root Slot 1", 0, 11>>,
             <<"Start RB Slot 0", 11, 7>>, <<"Start RB Slot 1", 18, 7>>,
             <<"Num of RB", 25, 7>>>>),
         Word("Num ACK Bits", <<<<"Num ACK Bits", 0, 3>>, <<"ACK Payload", 3, 1>>,
             <<"ACK Payload", 5, 1>>, <<"ACK Payload", 7, 1>>>>)>>) >>
    \o PuschTx_v26_Record_Rest
PuschTx_v26 ==
    << LtePhyPuschTxReport_Fmt, Reads({"Version"}), LtePhyPuschTxReport_Payload_v26,
       Split(<<Word("Serving Cell ID", <<<<"Number of Records", 9, 5>>,
             <<"Serving Cell ID", 0, 9>>>>)>>),
       ForEach("Number of Records", PuschTx_v26_Record) >>

PuschTx_v43_Record_Rest ==
    << Split(<<Word("RI Payload", <<<<"Rate Matched RI Bits", 4, 11>>,
             <<"PUSCH Mod Order", 15, 2>>, <<"PUSCH Digital Gain (dB)", 17, 8>>,
             <<"SRS Occasion", 25, 1>>, <<"Re-tx Index", 26, 3>>>>),
         Word("PUSCH Tx Power (dBm)", <<<<"PUSCH Tx Power (dBm)", 0, 7>>,
             <<"Num CQI Bits", 7, 8>>, <<"Rate Matched CQI Bits", 15, 16>>>>)>>),
       Sets({"Coding Rate Data", "ACK Payload", "RI Payload"}),
       Names({"ACK", "CQI", "RI", "Frequency Hopping", "UE SRS", "PUSCH Mod Order",
         "SRS Occasion", "Re-tx Index"}) >>
PuschTx_v43_Record ==
    << LtePhyPuschTxReport_Record_v43,
       Split(<<Word("ACK", <<<<"ACK", 0, 1>>, <<"CQI", 1, 1>>, <<"RI", 2, 1>>,
             <<"Frequency Hopping", 3, 2>>, <<"Redund Ver", 5, 2>>,
             <<"Mirror Hopping", 7, 2>>,
             <<"Cyclic Shift of DMRS Symbols Slot 0 (Samples)", 9, 4>>,
             <<"Cyclic Shift of DMRS Symbols Slot 1 (Samples)", 13, 4>>,
             <<"DMRS Root Slot 0", 17, 11>>, <<"UE SRS", 28, 1>>>>),
         Word("DMRS Root Slot 1", <<<<"DMRS Root Slot 1", 0, 11>>,
             <<"Start RB Slot 0", 11, 7>>, <<"Start RB Slot 1", 18, 7>>,
             <<"Num of RB", 25, 7>>>>),
         Word("ACK Payload", <<<<"ACK/NAK Inp Length 0", 20, 4>>,
             <<"ACK/NAK Inp Length 1", 24, 4>>,
             <<"Num RI Bits NRI (bits)", 29, 3>>>>)>>) >>
    \o PuschTx_v43_Record_Rest
\* The shift is one too small
PuschTx_v43Mutant ==
    << LtePhyPuschTxReport_Fmt, Reads({"Version"}), LtePhyPuschTxReport_Payload_v43,
       Split(<<Word("Serving Cell ID", <<<<"Number of Records", 8, 5>>,
             <<"Serving Cell ID", 0, 9>>>>)>>),
       ForEach("Number of Records", PuschTx_v43_Record) >>
PuschTx_v43 ==
    << LtePhyPuschTxReport_Fmt, Reads({"Version"}), LtePhyPuschTxReport_Payload_v43,
       Split(<<Word("Serving Cell ID", <<<<"Number of Records", 9, 5>>,
             <<"Serving Cell ID", 0, 9>>>>)>>),
       ForEach("Number of Records", PuschTx_v43_Record) >>

PuschTx_v102_Record_Rest ==
    << Split(<<Word("ACK Payload", <<<<"ACK/NAK Inp Length 0", 20, 4>>,
             <<"ACK/NAK Inp Length 1", 24, 4>>, <<"Num RI Bits NRI (bits)", 28, 3>>>>),
         Word("PUSCH Mod Order", <<<<"PUSCH Mod Order", 0, 2>>,
             <<"PUSCH Digital Gain (dB)", 2, 8>>, <<"Start RB Cluster1", 10, 8>>,
             <<"Num RB Cluster1", 18, Multiplied>>>>),
         Word("PUSCH Tx Power (dBm)", <<<<"PUSCH Tx Power (dBm)", 0, 7>>,
             <<"Num CQI Bits", 7, 8>>, <<"Rate Matched CQI Bits", 15, 16>>>>),
         Word("Num DL Carriers", <<<<"Num DL Carriers", 0, 2>>,
             <<"Ack Nack Index", 2, 0>>, <<"Ack Nack Index", 14, 1>>,
             <<"Ack Nack Late", 14, 1>>, <<"CSF Late", 15, 1>>, <<"Drop PUSCH", 16, 1>>>>),
         Word("Cyclic Shift of DMRS Symbols Slot 0 (Samples)", <<
             <<"Cyclic Shift of DMRS Symbols Slot 0 (Samples)", 0, 4>>,
             <<"Cyclic Shift of DMRS Symbols Slot 1 (Samples)", 4, 4>>,
             <<"DMRS Root Slot 0", 8, 11>>, <<"DMRS Root Slot 1", 19, 11>>>>)>>),
       Sets({"Coding Rate", "RI Payload", "ACK Payload"}),
       Names({"Carrier Index", "ACK", "CQI", "RI", "Frequency Hopping", "Re-tx Index",
         "UE SRS", "SRS Occasion", "PUSCH Mod Order"}) >>
PuschTx_v102_Record ==
    << LtePhyPuschTxReport_Record_v102,
       Split(<<Word("Carrier Index", <<<<"Carrier Index", 0, 2>>, <<"ACK", 2, 1>>,
             <<"CQI", 3, 1>>, <<"RI", 4, 1>>, <<"Frequency Hopping", 5, 2>>,
             <<"Re-tx Index", 7, 5>>, <<"Redund Ver", 12, 2>>,
             <<"Mirror Hopping", 14, 2>>>>),
         Word("Resource Allocation Type", <<<<"Resource Allocation Type", 0, 1>>,
             <<"Start RB Slot 0", 1, 7>>, <<"Start RB Slot 1", 8, 7>>,
             <<"Num of RB", 15, 7>>>>),
         Word("Rate Matched ACK Bits", <<<<"Rate Matched ACK Bits", 0, 14>>,
             <<"Rate Matched RI Bits", 18, 11>>, <<"UE SRS", 29, 1>>,
             <<"SRS Occasion", 30, 1>>>>)>>) >>
    \o PuschTx_v102_Record_Rest
PuschTx_v102 ==
    << LtePhyPuschTxReport_Fmt, Reads({"Version"}), LtePhyPuschTxReport_Payload_v102,
       Split(<<Word("Serving Cell ID", <<<<"Number of Records", 9, 5>>,
             <<"Serving Cell ID", 0, 9>>>>)>>),
       ForEach("Number of Records", PuschTx_v102_Record) >>

PuschTx_v122_Record_Rest ==
    << Split(<<Word("Rate Matched ACK Bits", <<<<"Rate Matched ACK Bits", 0, 14>>,
             <<"Rate Matched RI Bits", 19, 11>>, <<"UE SRS", 29, 1>>,
             <<"SRS Occasion", 30, 1>>>>),
         Word("ACK Payload", <<<<"ACK/NAK Inp Length 0", 20, 4>>,
             <<"ACK/NAK Inp Length 1", 24, 4>>, <<"Num RI Bits NRI (bits)", 28, 3>>>>),
         Word("PUSCH Mod Order", <<<<"PUSCH Mod Order", 0, 2>>,
             <<"PUSCH Digital Gain (dB)", 2, 8>>>>),
         Word("PUSCH Tx Power (dBm)", <<<<"PUSCH Tx Power (dBm)", 0, 7>>,
             <<"Num CQI Bits", 7, 8>>, <<"Rate Matched CQI Bits", 18, 14>>>>),
         Word("Num DL Carriers", <<<<"Num DL Carriers", 0, 2>>,
             <<"Ack Nack Index", 2, 0>>, <<"Ack Nack Index", 14, 1>>,
             <<"Ack Nack Late", 14, 1>>, <<"CSF Late", 15, 1>>, <<"Drop PUSCH", 16, 1>>>>)>>),
       Split(<<Word("Cyclic Shift of DMRS Symbols Slot 0 (Samples)", <<
             <<"Cyclic Shift of DMRS Symbols Slot 0 (Samples)", 0, 4>>,
             <<"Cyclic Shift of DMRS Symbols Slot 1 (Samples)", 4, 4>>,
             <<"DMRS Root Slot 0", 8, 11>>, <<"DMRS Root Slot 1", 19, 11>>>>)>>),
       Sets({"Coding Rate", "RI Payload", "ACK Payload"}),
       Names({"UL Carrier Index", "ACK", "CQI", "RI", "Frequency Hopping",
         "Re-tx Index", "DL Carrier Index", "UE SRS", "SRS Occasion",
         "PUSCH Mod Order"}) >>
PuschTx_v122_Record ==
    << LtePhyPuschTxReport_Record_v122,
       Split(<<Word("UL Carrier Index", <<<<"UL Carrier Index", 0, 2>>, <<"ACK", 2, 1>>,
             <<"CQI", 3, 1>>, <<"RI", 4, 1>>, <<"Frequency Hopping", 5, 2>>,
             <<"Re-tx Index", 7, 5>>, <<"Redund Ver", 12, 2>>,
             <<"Mirror Hopping", 14, 2>>>>),
         Word("Start RB Slot 0", <<<<"Start RB Slot 0", 0, 7>>,
             <<"Start RB Slot 1", 7, 7>>, <<"Num of RB", 14, 7>>,
             <<"DL Carrier Index", 21, 3>>>>)>>) >>
    \o PuschTx_v122_Record_Rest
PuschTx_v122 ==
    << LtePhyPuschTxReport_Fmt, Reads({"Version"}), LtePhyPuschTxReport_Payload_v102,
       Split(<<Word("Serving Cell ID", <<<<"Number of Records", 9, 5>>,
             <<"Serving Cell ID", 0, 9>>>>)>>),
       ForEach("Number of Records", PuschTx_v122_Record) >>

PuschTx_v124_Record_Rest ==
    << Split(<<Word("Rate Matched ACK Bits", <<<<"Rate Matched ACK Bits", 0, 14>>,
             <<"Rate Matched RI Bits", 19, 11>>, <<"UE SRS", 29, 1>>,
             <<"SRS Occasion", 30, 1>>>>),
         Word("ACK Payload", <<<<"ACK/NAK Inp Length 0", 20, 4>>,
             <<"ACK/NAK Inp Length 1", 24, 4>>, <<"Num RI Bits NRI (bits)", 28, 3>>>>),
         Word("PUSCH Mod Order", <<<<"PUSCH Mod Order", 0, 2>>,
             <<"PUSCH Digital Gain (dB)", 2, 8>>, <<"Start RB Cluster1", 10, 8>>,
             <<"Num RB Cluster1", 18, Multiplied>>>>),
         Word("PUSCH Tx Power (dBm)", <<<<"PUSCH Tx Power (dBm)", 0, 7>>,
             <<"Num CQI Bits", 7, 8>>, <<"Rate Matched CQI Bits", 18, 14>>>>)>>),
       Split(<<Word("Num DL Carriers", <<<<"Num DL Carriers", 0, 2>>,
             <<"Ack Nack Index", 2, 0>>, <<"Ack Nack Index", 14, 1>>,
             <<"Ack Nack Late", 14, 1>>, <<"CSF Late", 15, 1>>, <<"Drop PUSCH", 16, 1>>>>),
         Word("Cyclic Shift of DMRS Symbols Slot 0 (Samples)", <<
             <<"Cyclic Shift of DMRS Symbols Slot 0 (Samples)", 0, 4>>,
             <<"Cyclic Shift of DMRS Symbols Slot 1 (Samples)", 4, 4>>,
             <<"DMRS Root Slot 0", 8, 11>>, <<"DMRS Root Slot 1", 19, 11>>>>)>>),
       Sets({"Coding Rate", "RI Payload", "ACK Payload"}),
       Names({"UL Carrier Index", "ACK", "CQI", "RI", "Frequency Hopping",
         "Re-tx Index", "DL Carrier Index", "UE SRS", "SRS Occasion",
         "PUSCH Mod Order"}) >>
PuschTx_v124_Record ==
    << LtePhyPuschTxReport_Record_v124,
       Split(<<Word("UL Carrier Index", <<<<"UL Carrier Index", 0, 2>>, <<"ACK", 2, 1>>,
             <<"CQI", 3, 1>>, <<"RI", 4, 1>>, <<"Frequency Hopping", 5, 2>>,
             <<"Re-tx Index", 7, 5>>, <<"Redund Ver", 12, 2>>,
             <<"Mirror Hopping", 14, 2>>>>),
         Word("Resource Allocation Type", <<<<"Resource Allocation Type", 0, 1>>,
             <<"Start RB Slot 0", 1, 7>>, <<"Start RB Slot 1", 8, 7>>,
             <<"Num of RB", 15, 7>>, <<"DL Carrier Index", 25, 2>>>>)>>) >>
    \o PuschTx_v124_Record_Rest
PuschTx_v124 ==
    << LtePhyPuschTxReport_Fmt, Reads({"Version"}), LtePhyPuschTxReport_Payload_v102,
       Split(<<Word("Serving Cell ID", <<<<"Number of Records", 9, 5>>,
             <<"Serving Cell ID", 0, 9>>>>)>>),
       ForEach("Number of Records", PuschTx_v124_Record) >>

PuschTx_v144_145_Record_Rest ==
    << Split(<<Word("ACK/NAK Inp Length 0", <<<<"ACK/NAK Inp Length 0", 0, 7>>,
             <<"ACK/NAK Inp Length 1", 7, 7>>, <<"Rate Matched RI Bits", 14, 11>>>>),
         Word("UE SRS", <<<<"UE SRS", 0, 1>>, <<"SRS Occasion", 1, 1>>,
             <<"PUSCH Mod Order", 2, 3>>, <<"PUSCH Digital Gain", 5, 8>>,
             <<"Start RB Cluster1", 13, 7>>, <<"Num RB Cluster1", 20, Multiplied>>>>),
         Word("PUSCH Tx Power (dBm)", <<<<"PUSCH Tx Power (dBm)", 0, 7>>,
             <<"Num CQI Bits", 7, 8>>, <<"Rate Matched CQI Bits", 18, 14>>>>),
         Word("Num DL Carriers", <<<<"Num DL Carriers", 0, 2>>,
             <<"Ack Nack Index", 2, 0>>, <<"Ack Nack Index", 14, 1>>,
             <<"Ack Nack Late", 14, 1>>, <<"CSF Late", 15, 1>>, <<"Drop PUSCH", 16, 1>>>>),
         Word("Cyclic Shift of DMRS Symbols Slot 0 (Samples)", <<
             <<"Cyclic Shift of DMRS Symbols Slot 0 (Samples)", 0, 4>>,
             <<"Cyclic Shift of DMRS Symbols Slot 1 (Samples)", 4, 4>>>>)>>),
       Sets({"Coding Rate", "RI Payload"}),
       Names({"UL Carrier Index", "ACK", "CQI", "RI", "Frequency Hopping",
         "Re-tx Index", "DL Carrier Index", "UE SRS", "SRS Occasion",
         "PUSCH Mod Order"}) >>
PuschTx_v144_145_Record ==
    << LtePhyPuschTxReport_Record_v144,
       Split(<<Word("UL Carrier Index", <<<<"UL Carrier Index", 0, 2>>, <<"ACK", 2, 1>>,
             <<"CQI", 3, 1>>, <<"RI", 4, 1>>, <<"Frequency Hopping", 5, 2>>,
             <<"Re-tx Index", 7, 5>>, <<"Redund Ver", 12, 2>>,
             <<"Mirror Hopping", 14, 2>>>>),
         Word("Resource Allocation Type", <<<<"Resource Allocation Type", 0, 1>>,
             <<"Start RB Slot 0", 1, 7>>, <<"Start RB Slot 1", 8, 7>>,
             <<"Num of RB", 15, 7>>, <<"DL Carrier Index", 22, 3>>,
             <<"Enable UL DMRS OCC", 25, 1>>>>),
         Word("Rate Matched ACK Bits", <<<<"Rate Matched ACK Bits", 0, 14>>,
             <<"Num RI Bits NRI", 28, 4>>>>)>>) >>
    \o PuschTx_v144_145_Record_Rest
PuschTx_v144_145 ==
    << LtePhyPuschTxReport_Fmt, Reads({"Version"}), LtePhyPuschTxReport_Payload_v144,
       Split(<<Word("Serving Cell ID", <<<<"Number of Records", 9, 5>>,
             <<"Serving Cell ID", 0, 9>>>>)>>),
       ForEach("Number of Records", PuschTx_v144_145_Record) >>
-----------------------------------------------------------------------------
(* _decode_lte_phy_pucch_tx_report_payload *)

LtePhyPucchTxReport_Fmt == Fmt(1, <<<<"Version", 1>>>>, {})
\* The word of the identity and the count is declared as one byte
LtePhyPucchTxReport_Payload_v21Mutant == Fmt(7, <<<<"Serving Cell ID", 1>>>>,
    {"Number of Records"})
LtePhyPucchTxReport_Payload_v21 == Fmt(7, <<<<"Serving Cell ID", 2>>>>,
    {"Number of Records"})
LtePhyPucchTxReport_Record_p1_v21 == Fmt(8, <<<<"CQI Payload", 2>>, <<"Format", 4>>>>,
    {"Start RB Slot 0", "Start RB Slot 1", "SRS Shorting for 2nd Slot", "UE SRS",
      "DMRS Seq Slot 0", "DMRS Seq Slot 1", "ACK Payload"})
LtePhyPucchTxReport_Record_CyclicShift_v21 == Fmt(1, <<>>, {})
LtePhyPucchTxReport_Record_p2_v21 == Fmt(10, <<<<"PUCCH Tx Power (dBm)", 1>>,
      <<"Tx Resampler", 4>>>>,
    {})
LtePhyPucchTxReport_Record_p2_v22 == Fmt(14, <<<<"PUCCH Tx Power (dBm)", 1>>,
      <<"Tx Resampler", 4>>, <<"Num Repetition", 4>>>>,
    {"RB NB Start Index"})
LtePhyPucchTxReport_Payload_v43 == Fmt(7, <<<<"Serving Cell ID", 2>>>>,
    {"Number of Records"})
LtePhyPucchTxReport_Record_p1_v43 == Fmt(8, <<<<"CQI Payload", 2>>, <<"Format", 4>>>>,
    {"Start RB Slot 0", "Start RB Slot 1", "SRS Shorting for 2nd Slot", "UE SRS",
      "DMRS Seq Slot 0", "DMRS Seq Slot 1"})
LtePhyPucchTxReport_Record_CyclicShift_v43 == Fmt(1, <<>>, {})
LtePhyPucchTxReport_Record_p2_v43 == Fmt(14, <<<<"PUCCH Tx Power (dBm)", 1>>,
      <<"ACK Payload", 4>>, <<"Ack Nak Index", 2>>, <<"Tx Resampler", 4>>>>,
    {"ACK Payload Length", "SR Bit FMT3", "Num DL Carriers", "Ack Nak Late", "Csf Late",
      "Dropped Pucch"})
LtePhyPucchTxReport_Payload_v101 == Fmt(7, <<<<"Serving Cell ID", 2>>>>,
    {"Number of Records"})
LtePhyPucchTxReport_Record_p1_v101 == Fmt(8, <<<<"CQI Payload", 2>>,
      <<"Carrier Index", 4>>>>,
    {"Format", "Start RB Slot 0", "Start RB Slot 1", "SRS Shorting for 2nd Slot",
      "UE SRS", "DMRS Seq Slot 0", "DMRS Seq Slot 1"})
LtePhyPucchTxReport_Record_CyclicShift_v101 == Fmt(1, <<>>, {})
LtePhyPucchTxReport_Record_p2_v101 == Fmt(14, <<<<"PUCCH Tx Power (dBm)", 1>>,
      <<"ACK Payload", 4>>, <<"Ack Nak Index", 2>>, <<"Tx Resampler", 4>>>>,
    {"ACK Payload Length", "SR Bit FMT3", "Num DL Carriers", "Ack Nak Late", "Csf Late",
      "Dropped Pucch"})
LtePhyPucchTxReport_Payload_v121 == Fmt(7, <<<<"Serving Cell ID", 2>>>>,
    {"Number of Records"})
LtePhyPucchTxReport_Record_p1_v121 == Fmt(8, <<<<"CQI Payload", 2>>,
      <<"Carrier Index", 4>>>>,
    {"Format", "Start RB Slot 0", "Start RB Slot 1", "SRS Shorting for 2nd Slot",
      "UE SRS", "DMRS Seq Slot 0", "DMRS Seq Slot 1"})
LtePhyPucchTxReport_Record_CyclicShift_v121 == Fmt(1, <<>>, {})
LtePhyPucchTxReport_Record_p2_v121 == Fmt(14, <<<<"PUCCH Tx Power (dBm)", 1>>,
      <<"ACK Payload", 4>>, <<"Ack Nak Index", 2>>, <<"Tx Resampler", 4>>>>,
    {"ACK Payload Length", "SR Bit FMT3", "Num DL Carriers", "DL Carrier Index",
      "Ack Nak Late", "Csf Late", "Dropped Pucch"})
LtePhyPucchTxReport_Payload_v142 == Fmt(7, <<<<"Serving Cell ID", 2>>>>,
    {"Number of Records"})
LtePhyPucchTxReport_Record_p1_v142 == Fmt(8, <<<<"CQI Payload", 2>>,
      <<"Carrier Index", 4>>>>,
    {"Format", "Start RB Slot 0", "Start RB Slot 1", "SRS Shorting for 2nd Slot",
      "UE SRS", "DMRS Seq Slot 0", "DMRS Seq Slot 1"})
LtePhyPucchTxReport_Record_CyclicShift_v142 == Fmt(1, <<>>, {})
LtePhyPucchTxReport_Record_p2_v142 == Fmt(30, <<<<"PUCCH Tx Power (dBm)", 1>>,
      <<"ACK Payload Length", 1>>, <<"Num DL Carriers", 2>>, <<"Ack Nak Index", 2>>,
      <<"Tx Resampler", 4>>>>,
    {"SR Bit FMT3", "DL Carrier Index", "Num RB", "CDM Index", "Ack Nak Late",
      "Csf Late", "Dropped Pucch"})

PucchTx_v21_Record ==
    << LtePhyPucchTxReport_Record_p1_v21,
       Split(<<Word("Format", <<<<"Format", 0, 3>>, <<"Start RB Slot 0", 3, 7>>,
             <<"Start RB Slot 1", 10, 7>>, <<"SRS Shorting for 2nd Slot", 17, 1>>,
             <<"UE SRS", 18, 1>>, <<"DMRS Seq Slot 0", 19, 5>>,
             <<"DMRS Seq Slot 1", 24, 5>>, <<"ACK Payload", 29, 2>>>>)>>),
       Sets({"CQI Payload"}), Names({"Format", "SRS Shorting for 2nd Slot", "UE SRS"}),
       Times(14,
         << LtePhyPucchTxReport_Record_CyclicShift_v21 >>),
       LtePhyPucchTxReport_Record_p2_v21,
       Split(<<Word("PUCCH Tx Power (dBm)", <<<<"PUCCH Tx Power (dBm)", 0, 6>>>>)>>),
       Sets({"Tx Resampler"}) >>
\* The mask is 0x15 and not 0x1f
PucchTx_v21Mutant ==
    << LtePhyPucchTxReport_Fmt, Reads({"Version"}), LtePhyPucchTxReport_Payload_v21,
       Split(<<Word("Serving Cell ID", <<<<"Serving Cell ID", 0, 9>>,
             <<"Number of Records", 9, 1>>, <<"Number of Records", 11, 1>>,
             <<"Number of Records", 13, 1>>>>)>>),
       ForEach("Number of Records", PucchTx_v21_Record) >>
PucchTx_v21 ==
    << LtePhyPucchTxReport_Fmt, Reads({"Version"}), LtePhyPucchTxReport_Payload_v21,
       Split(<<Word("Serving Cell ID", <<<<"Serving Cell ID", 0, 9>>,
             <<"Number of Records", 9, 5>>>>)>>),
       ForEach("Number of Records", PucchTx_v21_Record) >>

PucchTx_v22_Record ==
    << LtePhyPucchTxReport_Record_p1_v21,
       Split(<<Word("Format", <<<<"Format", 0, 3>>, <<"Start RB Slot 0", 3, 7>>,
             <<"Start RB Slot 1", 10, 7>>, <<"SRS Shorting for 2nd Slot", 17, 1>>,
             <<"UE SRS", 18, 1>>, <<"DMRS Seq Slot 0", 19, 5>>,
             <<"DMRS Seq Slot 1", 24, 5>>, <<"ACK Payload", 29, 2>>>>)>>),
       Sets({"CQI Payload"}), Names({"Format", "SRS Shorting for 2nd Slot", "UE SRS"}),
       Times(14,
         << LtePhyPucchTxReport_Record_CyclicShift_v21 >>),
       LtePhyPucchTxReport_Record_p2_v22,
       Split(<<Word("PUCCH Tx Power (dBm)", <<<<"PUCCH Tx Power (dBm)", 0, 6>>>>),
         Word("Num Repetition", <<<<"Num Repetition", 0, 12>>,
             <<"RB NB Start Index", 12, 8>>>>)>>),
       Sets({"Tx Resampler"}) >>
PucchTx_v22 ==
    << LtePhyPucchTxReport_Fmt, Reads({"Version"}), LtePhyPucchTxReport_Payload_v21,
       Split(<<Word("Serving Cell ID", <<<<"Serving Cell ID", 0, 9>>,
             <<"Number of Records", 9, 5>>>>)>>),
       ForEach("Number of Records", PucchTx_v22_Record) >>

PucchTx_v43_Record ==
    << LtePhyPucchTxReport_Record_p1_v43,
       Split(<<Word("Format", <<<<"Format", 0, 3>>, <<"Start RB Slot 0", 3, 7>>,
             <<"Start RB Slot 1", 10, 7>>, <<"SRS Shorting for 2nd Slot", 17, 1>>,
             <<"UE SRS", 18, 1>>, <<"DMRS Seq Slot 0", 19, 5>>,
             <<"DMRS Seq Slot 1", 24, 5>>>>)>>),
       Sets({"CQI Payload"}), Names({"Format", "SRS Shorting for 2nd Slot", "UE SRS"}),
       Times(14,
         << LtePhyPucchTxReport_Record_CyclicShift_v43 >>),
       LtePhyPucchTxReport_Record_p2_v43,
       Split(<<Word("PUCCH Tx Power (dBm)", <<<<"PUCCH Tx Power (dBm)", 0, 6>>>>),
         Word("ACK Payload", <<<<"ACK Payload", 0, 20>>,
             <<"ACK Payload Length", 20, 5>>, <<"SR Bit FMT3", 25, 1>>,
             <<"Num DL Carriers", 26, 4>>>>),
         Word("Ack Nak Index", <<<<"Ack Nak Late", 12, 1>>, <<"Csf Late", 13, 1>>,
             <<"Dropped Pucch", 14, 1>>>>)>>),
       Sets({"Ack Nak Index", "Tx Resampler"}) >>
PucchTx_v43 ==
    << LtePhyPucchTxReport_Fmt, Reads({"Version"}), LtePhyPucchTxReport_Payload_v43,
       Split(<<Word("Serving Cell ID", <<<<"Serving Cell ID", 0, 9>>,
             <<"Number of Records", 9, 5>>>>)>>),
       ForEach("Number of Records", PucchTx_v43_Record) >>

PucchTx_v101_Record_Rest ==
    << Split(<<Word("PUCCH Tx Power (dBm)", <<<<"PUCCH Tx Power (dBm)", 0, 6>>>>),
         Word("ACK Payload", <<<<"ACK Payload", 0, 20>>,
             <<"ACK Payload Length", 20, 5>>, <<"SR Bit FMT3", 25, 1>>,
             <<"Num DL Carriers", 26, 4>>>>),
         Word("Ack Nak Index", <<<<"Ack Nak Late", 12, 1>>, <<"Csf Late", 13, 1>>,
             <<"Dropped Pucch", 14, 1>>>>)>>),
       Sets({"Ack Nak Index", "Tx Resampler"}) >>
PucchTx_v101_Record ==
    << LtePhyPucchTxReport_Record_p1_v101,
       Split(<<Word("Carrier Index", <<<<"Carrier Index", 0, 2>>, <<"Format", 2, 3>>,
             <<"Start RB Slot 0", 5, 7>>, <<"Start RB Slot 1", 12, 7>>,
             <<"SRS Shorting for 2nd Slot", 19, 1>>, <<"UE SRS", 20, 1>>,
             <<"DMRS Seq Slot 0", 21, 5>>, <<"DMRS Seq Slot 1", 26, 5>>>>)>>),
       Sets({"CQI Payload"}),
       Names({"Carrier Index", "Format", "SRS Shorting for 2nd Slot", "UE SRS"}),
       Times(14,
         << LtePhyPucchTxReport_Record_CyclicShift_v101 >>),
       LtePhyPucchTxReport_Record_p2_v101 >>
    \o PucchTx_v101_Record_Rest
PucchTx_v101 ==
    << LtePhyPucchTxReport_Fmt, Reads({"Version"}), LtePhyPucchTxReport_Payload_v101,
       Split(<<Word("Serving Cell ID", <<<<"Serving Cell ID", 0, 9>>,
             <<"Number of Records", 9, 5>>>>)>>),
       ForEach("Number of Records", PucchTx_v101_Record) >>

PucchTx_v121_Record_Rest ==
    << Split(<<Word("PUCCH Tx Power (dBm)", <<<<"PUCCH Tx Power (dBm)", 0, 6>>>>),
         Word("ACK Payload", <<<<"ACK Payload", 0, 20>>,
             <<"ACK Payload Length", 20, 5>>, <<"SR Bit FMT3", 25, 1>>,
             <<"Num DL Carriers", 26, 4>>, <<"DL Carrier Index", 30, 1>>>>),
         Word("Ack Nak Index", <<<<"Ack Nak Late", 12, 1>>, <<"Csf Late", 13, 1>>,
             <<"Dropped Pucch", 14, 1>>>>)>>),
       Sets({"Ack Nak Index", "Tx Resampler"}), Names({"DL Carrier Index"}) >>
PucchTx_v121_Record ==
    << LtePhyPucchTxReport_Record_p1_v121,
       Split(<<Word("Carrier Index", <<<<"Carrier Index", 0, 2>>, <<"Format", 2, 3>>,
             <<"Start RB Slot 0", 5, 7>>, <<"Start RB Slot 1", 12, 7>>,
             <<"SRS Shorting for 2nd Slot", 19, 1>>, <<"UE SRS", 20, 1>>,
             <<"DMRS Seq Slot 0", 21, 5>>, <<"DMRS Seq Slot 1", 26, 5>>>>)>>),
       Sets({"CQI Payload"}),
       Names({"Carrier Index", "Format", "SRS Shorting for 2nd Slot", "UE SRS"}),
       Times(14,
         << LtePhyPucchTxReport_Record_CyclicShift_v121 >>),
       LtePhyPucchTxReport_Record_p2_v121 >>
    \o PucchTx_v121_Record_Rest
PucchTx_v121 ==
    << LtePhyPucchTxReport_Fmt, Reads({"Version"}), LtePhyPucchTxReport_Payload_v121,
       Split(<<Word("Serving Cell ID", <<<<"Serving Cell ID", 0, 9>>,
             <<"Number of Records", 9, 5>>>>)>>),
       ForEach("Number of Records", PucchTx_v121_Record) >>

PucchTx_v142_Record_Rest ==
    << Split(<<Word("PUCCH Tx Power (dBm)", <<<<"PUCCH Tx Power (dBm)", 0, 6>>>>),
         Word("ACK Payload Length", <<<<"ACK Payload Length", 0, 7>>,
             <<"SR Bit FMT3", 7, 1>>>>),
         Word("Num DL Carriers", <<<<"Num DL Carriers", 0, 3>>,
             <<"DL Carrier Index", 3, 3>>, <<"Num RB", 6, 7>>,
             <<"CDM Index", 13, 1>>>>),
         Word("Ack Nak Index", <<<<"Ack Nak Late", 12, 1>>, <<"Csf Late", 13, 1>>,
             <<"Dropped Pucch", 14, 1>>>>)>>),
       Sets({"Ack Nak Index", "Tx Resampler"}), Names({"DL Carrier Index"}) >>
PucchTx_v142_Record ==
    << LtePhyPucchTxReport_Record_p1_v142,
       Split(<<Word("Carrier Index", <<<<"Carrier Index", 0, 2>>, <<"Format", 2, 3>>,
             <<"Start RB Slot 0", 5, 7>>, <<"Start RB Slot 1", 12, 7>>,
             <<"SRS Shorting for 2nd Slot", 19, 1>>, <<"UE SRS", 20, 1>>,
             <<"DMRS Seq Slot 0", 21, 5>>, <<"DMRS Seq Slot 1", 26, 5>>>>)>>),
       Sets({"CQI Payload"}),
       Names({"Carrier Index", "Format", "SRS Shorting for 2nd Slot", "UE SRS"}),
       Times(14,
         << LtePhyPucchTxReport_Record_CyclicShift_v142 >>),
       LtePhyPucchTxReport_Record_p2_v142 >>
    \o PucchTx_v142_Record_Rest
PucchTx_v142 ==
    << LtePhyPucchTxReport_Fmt, Reads({"Version"}), LtePhyPucchTxReport_Payload_v142,
       Split(<<Word("Serving Cell ID", <<<<"Serving Cell ID", 0, 9>>,
             <<"Number of Records", 9, 5>>>>)>>),
       ForEach("Number of Records", PucchTx_v142_Record) >>
-----------------------------------------------------------------------------
(* _decode_lte_phy_pusch_csf_payload *)

LtePhyPuschCsf_Fmt == Fmt(1, <<<<"Version", 1>>>>, {})
LtePhyPuschCsf_Payload_v142 == Fmt(39, <<<<"Start System Sub-frame Number", 4>>,
      <<"Number of subbands", 4>>, <<"CSF Tx Mode", 1>>, <<"Num Csirs Ports", 1>>,
      <<"CRI", 4>>>>,
    {"Start System Frame Number", "Carrier Index", "Scell Index",
      "PUSCH Reporting Mode", "Csi Meas Set Index", "Rank Index", "Wideband PMI1",
      "WideBand CQI CW0", "WideBand CQI CW1", "SubBand Size (k)", "Size M",
      "Single WB PMI", "Single MB PMI", "Reserved", "UL Frame Number",
      "UL Subframe Number", "UL Payload Length"})
LtePhyPuschCsf_Payload_v102 == Fmt(35, <<<<"Start System Sub-frame Number", 2>>,
      <<"PUSCH Reporting Mode", 1>>, <<"Number of Subbands", 4>>,
      <<"Carrier Index", 1>>>>,
    {"Start System Frame Number", "Csi Meas Set Index", "Rank Index",
      "WideBand CQI CW0", "WideBand CQI CW1", "SubBand Size (k)", "Single WB PMI",
      "Single MB PMI", "CSF Tx Mode", "Num CSIrs Ports"})
LtePhyPuschCsf_Payload_v101 == Fmt(35, <<<<"Start System Sub-frame Number", 2>>,
      <<"PUSCH Reporting Mode", 1>>, <<"Number of Subbands", 4>>,
      <<"Carrier Index", 1>>>>,
    {"Start System Frame Number", "Csi Meas Set Index", "Rank Index",
      "WideBand CQI CW0", "WideBand CQI CW1", "SubBand Size (k)", "Single WB PMI",
      "Single MB PMI", "CSF Tx Mode", "Num CSIrs Ports"})
LtePhyPuschCsf_Payload_v42 == Fmt(35, <<<<"Start System Sub-frame Number", 2>>,
      <<"PUSCH Reporting Mode", 1>>, <<"Number of Subbands", 4>>,
      <<"Carrier Index", 1>>>>,
    {"Start System Frame Number", "Rank Index", "Csi Meas Set Index",
      "WideBand CQI CW0", "WideBand CQI CW1", "SubBand Size (k)", "Single WB PMI",
      "Single MB PMI", "CSF Tx Mode", "Num CSIrs Ports"})
LtePhyPuschCsf_Payload_v23 == Fmt(35, <<<<"Start System Sub-frame Number", 2>>,
      <<"PUSCH Reporting Mode", 1>>, <<"Number of Subbands", 4>>,
      <<"Carrier Index", 1>>>>,
    {"Start System Frame Number", "Rank Index", "WideBand CQI CW0", "WideBand CQI CW1",
      "SubBand Size (k)", "Single WB PMI", "Single MB PMI", "CSF Tx Mode",
      "Num CSIrs Ports"})
LtePhyPuschCsf_Payload_v22 == Fmt(35, <<<<"Start System Sub-frame Number", 2>>,
      <<"PUSCH Reporting Mode", 1>>, <<"Number of Subbands", 4>>,
      <<"Carrier Index", 1>>>>,
    {"Start System Frame Number", "Rank Index", "WideBand CQI CW0", "WideBand CQI CW1",
      "SubBand Size (k)", "Single WB PMI", "Single MB PMI", "CSF Tx Mode"})
LtePhyPuschCsf_Payload_v103 == Fmt(36, <<<<"Start System Sub-frame Number", 4>>,
      <<"WideBand CQI CW1", 2>>, <<"Single MB PMI", 1>>, <<"Alt Cqi Table Data", 1>>,
      <<"Carrier Index", 1>>>>,
    {"Start System Frame Number", "PUSCH Reporting Mode", "Csi Meas Set Index",
      "Rank Index", "Wideband PMI1", "Number of subbands", "WideBand CQI CW0",
      "SubBand Size (k)", "Size M", "Single WB PMI", "CSF Tx Mode", "Num Csirs Ports"})

PuschCsf_v142 ==
    << LtePhyPuschCsf_Fmt, Reads({"Version"}), LtePhyPuschCsf_Payload_v142,
       Split(<<Word("Start System Sub-frame Number", <<
             <<"Start System Sub-frame Number", 0, 4>>,
             <<"Start System Frame Number", 4, 10>>, <<"Carrier Index", 14, 4>>,
             <<"Scell Index", 18, 5>>, <<"PUSCH Reporting Mode", 24, 3>>,
             <<"Csi Meas Set Index", 27, 1>>, <<"Rank Index", 28, 2>>,
             <<"Wideband PMI1", 30, 4>>>>),
         Word("Number of subbands", <<<<"Number of subbands", 2, 5>>,
             <<"WideBand CQI CW0", 7, 4>>, <<"WideBand CQI CW1", 11, 4>>,
             <<"SubBand Size (k)", 15, 4>>, <<"Size M", 19, 3>>,
             <<"Single WB PMI", 24, 4>>, <<"Single MB PMI", 28, 4>>>>),
         Word("CSF Tx Mode", <<<<"CSF Tx Mode", 0, 4>>>>),
         Word("Num Csirs Ports", <<<<"Num Csirs Ports", 0, 4>>>>),
         Word("CRI", <<<<"CRI", 0, 3>>, <<"UL Frame Number", 4, 10>>,
             <<"UL Subframe Number", 14, 4>>, <<"UL Payload Length", 18, 7>>>>)>>),
       Names({"Carrier Index", "PUSCH Reporting Mode", "Rank Index", "CSF Tx Mode"}) >>

PuschCsf_v102 ==
    << LtePhyPuschCsf_Fmt, Reads({"Version"}), LtePhyPuschCsf_Payload_v102,
       Split(<<Word("Start System Sub-frame Number", <<
             <<"Start System Sub-frame Number", 0, 4>>,
             <<"Start System Frame Number", 4, 10>>,
             <<"PUSCH Reporting Mode", 14, 2>>>>),
         Word("PUSCH Reporting Mode", <<<<"PUSCH Reporting Mode", 0, 1>>,
             <<"Rank Index", 2, 1>>>>),
         Word("Number of Subbands", <<<<"Number of Subbands", 0, 5>>,
             <<"WideBand CQI CW0", 5, 4>>, <<"WideBand CQI CW1", 9, 4>>,
             <<"SubBand Size (k)", 13, 7>>, <<"Single WB PMI", 20, 4>>,
             <<"Single MB PMI", 24, 4>>, <<"CSF Tx Mode", 28, 4>>>>),
         Word("Carrier Index", <<<<"Carrier Index", 0, 4>>>>)>>),
       Names({"PUSCH Reporting Mode", "Rank Index", "CSF Tx Mode", "Carrier Index"}) >>

PuschCsf_v101 ==
    << LtePhyPuschCsf_Fmt, Reads({"Version"}), LtePhyPuschCsf_Payload_v101,
       Split(<<Word("Start System Sub-frame Number", <<
             <<"Start System Sub-frame Number", 0, 4>>,
             <<"Start System Frame Number", 4, 10>>,
             <<"PUSCH Reporting Mode", 14, 2>>>>),
         Word("PUSCH Reporting Mode", <<<<"PUSCH Reporting Mode", 0, 1>>,
             <<"Rank Index", 2, 6>>, <<"Csi Meas Set Index", 1, 1>>>>),
         Word("Number of Subbands", <<<<"Number of Subbands", 0, 5>>,
             <<"WideBand CQI CW0", 5, 4>>, <<"WideBand CQI CW1", 9, 4>>,
             <<"SubBand Size (k)", 13, 7>>, <<"Single WB PMI", 20, 4>>,
             <<"Single MB PMI", 24, 4>>, <<"CSF Tx Mode", 28, 4>>>>),
         Word("Carrier Index", <<<<"Carrier Index", 0, 4>>,
             <<"Num CSIrs Ports", 4, 4>>>>)>>),
       Names({"PUSCH Reporting Mode", "Rank Index", "Csi Meas Set Index", "CSF Tx Mode",
         "Carrier Index"}) >>

PuschCsf_v42 ==
    << LtePhyPuschCsf_Fmt, Reads({"Version"}), LtePhyPuschCsf_Payload_v42,
       Split(<<Word("Start System Sub-frame Number", <<
             <<"Start System Sub-frame Number", 0, 4>>,
             <<"Start System Frame Number", 4, 10>>,
             <<"PUSCH Reporting Mode", 14, 2>>>>),
         Word("PUSCH Reporting Mode", <<<<"PUSCH Reporting Mode", 0, 1>>,
             <<"Rank Index", 1, 1>>, <<"Csi Meas Set Index", 2, 1>>>>),
         Word("Number of Subbands", <<<<"Number of Subbands", 0, 5>>,
             <<"WideBand CQI CW0", 5, 4>>, <<"WideBand CQI CW1", 9, 4>>,
             <<"SubBand Size (k)", 13, 7>>, <<"Single WB PMI", 20, 4>>,
             <<"Single MB PMI", 24, 4>>, <<"CSF Tx Mode", 28, 4>>>>),
         Word("Carrier Index", <<<<"Carrier Index", 0, 4>>,
             <<"Num CSIrs Ports", 4, 4>>>>)>>),
       Names({"PUSCH Reporting Mode", "Rank Index", "Csi Meas Set Index", "CSF Tx Mode",
         "Carrier Index"}) >>

PuschCsf_v23 ==
    << LtePhyPuschCsf_Fmt, Reads({"Version"}), LtePhyPuschCsf_Payload_v23,
       Split(<<Word("Start System Sub-frame Number", <<
             <<"Start System Sub-frame Number", 0, 4>>,
             <<"Start System Frame Number", 4, 10>>,
             <<"PUSCH Reporting Mode", 14, 2>>>>),
         Word("PUSCH Reporting Mode", <<<<"PUSCH Reporting Mode", 0, 1>>,
             <<"Rank Index", 1, 1>>>>),
         Word("Number of Subbands", <<<<"Number of Subbands", 0, 5>>,
             <<"WideBand CQI CW0", 5, 4>>, <<"WideBand CQI CW1", 9, 4>>,
             <<"SubBand Size (k)", 13, 7>>, <<"Single WB PMI", 20, 4>>,
             <<"Single MB PMI", 24, 4>>, <<"CSF Tx Mode", 28, 4>>>>),
         Word("Carrier Index", <<<<"Carrier Index", 0, 4>>,
             <<"Num CSIrs Ports", 4, 4>>>>)>>),
       Names({"PUSCH Reporting Mode", "Rank Index", "CSF Tx Mode", "Carrier Index"}) >>

PuschCsf_v22 ==
    << LtePhyPuschCsf_Fmt, Reads({"Version"}), LtePhyPuschCsf_Payload_v22,
       Split(<<Word("Start System Sub-frame Number", <<
             <<"Start System Sub-frame Number", 0, 4>>,
             <<"Start System Frame Number", 4, 10>>>>),
         Word("PUSCH Reporting Mode", <<<<"PUSCH Reporting Mode", 1, 3>>,
             <<"Rank Index", 4, 1>>>>),
         Word("Number of Subbands", <<<<"Number of Subbands", 0, 5>>,
             <<"WideBand CQI CW0", 5, 4>>, <<"WideBand CQI CW1", 9, 4>>,
             <<"SubBand Size (k)", 13, 7>>, <<"Single WB PMI", 20, 4>>,
             <<"Single MB PMI", 24, 4>>, <<"CSF Tx Mode", 28, 4>>>>),
         Word("Carrier Index", <<<<"Carrier Index", 0, 4>>>>)>>),
       Names({"PUSCH Reporting Mode", "Rank Index", "CSF Tx Mode", "Carrier Index"}) >>

PuschCsf_v103 ==
    << LtePhyPuschCsf_Fmt, Reads({"Version"}), LtePhyPuschCsf_Payload_v103,
       Split(<<Word("Start System Sub-frame Number", <<
             <<"Start System Sub-frame Number", 0, 4>>,
             <<"Start System Frame Number", 4, 10>>, <<"PUSCH Reporting Mode", 14, 3>>,
             <<"Csi Meas Set Index", 17, 1>>, <<"Rank Index", 18, 2>>,
             <<"Wideband PMI1", 20, 4>>, <<"Number of subbands", 24, 5>>,
             <<"WideBand CQI CW0", 29, 3>>>>),
         Word("WideBand CQI CW1", <<<<"WideBand CQI CW0", 0, 1>>,
             <<"WideBand CQI CW1", 1, 4>>, <<"SubBand Size (k)", 5, 4>>,
             <<"Size M", 9, 3>>, <<"Single WB PMI", 12, 4>>>>),
         Word("Single MB PMI", <<<<"Single MB PMI", 0, 4>>, <<"CSF Tx Mode", 4, 4>>>>),
         Word("Alt Cqi Table Data", <<<<"Carrier Index", 1, 1>>>>),
         Word("Carrier Index", <<<<"Num Csirs Ports", 4, 4>>>>)>>),
       Names({"PUSCH Reporting Mode", "Rank Index", "CSF Tx Mode", "Carrier Index"}) >>
-----------------------------------------------------------------------------
(* _decode_lte_phy_pucch_csf_payload *)

LtePhyPucchCsf_Fmt == Fmt(1, <<<<"Version", 1>>>>, {})
LtePhyPucchCsf_Payload_v22 == Fmt(7, <<<<"Start System Sub-frame Number", 2>>,
      <<"PUCCH Reporting Mode", 1>>, <<"Number of Subbands", 4>>>>,
    {"Start System Frame Number", "PUCCH Report Type", "Size BWP", "BWP Index",
      "Rank Index", "SubBand Label", "CQI CW0", "CQI CW1", "Wideband PMI",
      "Carrier Index", "CSF Tx Mode"})
LtePhyPucchCsf_Payload_v24 == Fmt(11, <<<<"Start System Sub-frame Number", 2>>,
      <<"PUCCH Reporting Mode", 1>>, <<"Number of Subbands", 4>>,
      <<"Num Csirs Ports", 1>>, <<"Pti", 1>>>>,
    {"Start System Frame Number", "PUCCH Report Type", "Size BWP", "BWP Index",
      "Rank Index", "SubBand Label", "CQI CW0", "CQI CW1", "Wideband PMI",
      "Carrier Index", "CSF Tx Mode", "Wideband PMI1"})
LtePhyPucchCsf_Payload_v43 == Fmt(11, <<<<"Start System Sub-frame Number", 2>>,
      <<"PUCCH Reporting Mode", 1>>, <<"Number of Subbands", 4>>>>,
    {"Start System Frame Number", "PUCCH Report Type", "Rank Index", "CQI CW0",
      "CQI CW1", "Wideband PMI", "Carrier Index", "CSF Tx Mode"})
LtePhyPucchCsf_Payload_v102 == Fmt(11, <<<<"Start System Sub-frame Number", 2>>,
      <<"PUCCH Reporting Mode", 1>>, <<"Number of Subbands", 4>>,
      <<"Num Csirs Ports", 1>>, <<"Csi Meas Set Index", 1>>>>,
    {"Start System Frame Number", "PUCCH Report Type", "Alt Cqi Table Data", "CQI CW0",
      "CQI CW1", "Wideband PMI", "Carrier Index", "CSF Tx Mode", "Rank Index"})
LtePhyPucchCsf_Payload_v103 == Fmt(11, <<<<"Start System Sub-frame Number", 2>>,
      <<"PUCCH Reporting Mode", 1>>, <<"Number of Subbands", 4>>,
      <<"Num Csirs Ports", 1>>, <<"Csi Meas Set Index", 1>>, <<"Forced Max RI", 1>>>>,
    {"Start System Frame Number", "PUCCH Report Type", "Alt Cqi Table Data", "CQI CW0",
      "CQI CW1", "Wideband PMI", "Carrier Index", "CSF Tx Mode", "Rank Index"})
LtePhyPucchCsf_Payload_v142 == Fmt(15, <<<<"Start System Sub-frame Number", 4>>,
      <<"Number of Subbands", 1>>, <<"Alt Cqi Table Data", 2>>, <<"CSF Tx Mode", 2>>,
      <<"Rank Index", 2>>, <<"UL Subframe Number", 4>>>>,
    {"Start System Frame Number", "Carrier Index", "Scell Index",
      "PUCCH Reporting Mode", "PUCCH Report Type", "Size BWP", "BWP Index",
      "SubBand Label", "CQI CW0", "CQI CW1", "Wideband PMI", "PUCCH Reporting Submode",
      "Num Csirs Ports", "Wideband PMI1", "Pti", "Csi Meas Set Index", "CRI",
      "UL Frame Number", "UL Channel Type", "UL Payload Length"})

PucchCsf_v22 ==
    << LtePhyPucchCsf_Fmt, Reads({"Version"}), LtePhyPucchCsf_Payload_v22,
       Split(<<Word("Start System Sub-frame Number", <<
             <<"Start System Sub-frame Number", 0, 4>>,
             <<"Start System Frame Number", 4, 10>>>>),
         Word("PUCCH Reporting Mode", <<<<"PUCCH Reporting Mode", 1, 2>>,
             <<"PUCCH Report Type", 3, 2>>, <<"Size BWP", 5, 3>>>>),
         Word("Number of Subbands", <<<<"Rank Index", 7, 1>>,
             <<"Number of Subbands", 0, 4>>, <<"BWP Index", 4, 3>>,
             <<"SubBand Label", 8, 2>>, <<"CQI CW0", 10, 4>>, <<"CQI CW1", 14, 4>>,
             <<"Wideband PMI", 18, 4>>, <<"CSF Tx Mode", 26, 4>>,
             <<"Carrier Index", 22, 4>>>>)>>),
       Names({"PUCCH Reporting Mode", "PUCCH Report Type", "Rank Index", "CSF Tx Mode",
         "Carrier Index"}) >>

PucchCsf_v24 ==
    << LtePhyPucchCsf_Fmt, Reads({"Version"}), LtePhyPucchCsf_Payload_v24,
       Split(<<Word("Start System Sub-frame Number", <<
             <<"Start System Sub-frame Number", 0, 4>>,
             <<"Start System Frame Number", 4, 10>>,
             <<"PUCCH Reporting Mode", 14, 2>>>>),
         Word("PUCCH Reporting Mode", <<<<"PUCCH Reporting Mode", 0, 1>>,
             <<"PUCCH Report Type", 1, 4>>, <<"Size BWP", 5, 3>>>>),
         Word("Number of Subbands", <<<<"Rank Index", 7, 1>>,
             <<"Number of Subbands", 0, 4>>, <<"BWP Index", 4, 3>>,
             <<"SubBand Label", 8, 2>>, <<"CQI CW0", 10, 4>>, <<"CQI CW1", 14, 4>>,
             <<"Wideband PMI", 18, 4>>, <<"CSF Tx Mode", 26, 4>>,
             <<"Carrier Index", 22, 4>>>>),
         Word("Num Csirs Ports", <<<<"Num Csirs Ports", 0, 4>>,
             <<"Wideband PMI1", 4, 4>>>>),
         Word("Pti", <<<<"Pti", 0, 1>>>>)>>),
       Names({"PUCCH Reporting Mode", "PUCCH Report Type", "Rank Index", "CSF Tx Mode",
         "Carrier Index"}) >>

PucchCsf_v43 ==
    << LtePhyPucchCsf_Fmt, Reads({"Version"}), LtePhyPucchCsf_Payload_v43,
       Split(<<Word("Start System Sub-frame Number", <<
             <<"Start System Sub-frame Number", 0, 4>>,
             <<"Start System Frame Number", 4, 10>>,
             <<"PUCCH Reporting Mode", 14, 2>>>>),
         Word("PUCCH Reporting Mode", <<<<"PUCCH Reporting Mode", 0, 1>>,
             <<"PUCCH Report Type", 1, 4>>>>),
         Word("Number of Subbands", <<<<"Rank Index", 7, 1>>,
             <<"Number of Subbands", 0, 4>>, <<"CQI CW0", 10, 4>>, <<"CQI CW1", 14, 4>>,
             <<"Wideband PMI", 18, 4>>, <<"CSF Tx Mode", 26, 4>>,
             <<"Carrier Index", 22, 4>>>>)>>),
       Names({"PUCCH Reporting Mode", "PUCCH Report Type", "Rank Index", "CSF Tx Mode",
         "Carrier Index"}) >>

PucchCsf_v101_102 ==
    << LtePhyPucchCsf_Fmt, Reads({"Version"}), LtePhyPucchCsf_Payload_v102,
       Split(<<Word("Num Csirs Ports", <<<<"Num Csirs Ports", 0, 4>>>>),
         Word("Number of Subbands", <<<<"Alt Cqi Table Data", 7, 1>>,
             <<"Number of Subbands", 0, 4>>, <<"CQI CW0", 10, 4>>, <<"CQI CW1", 14, 4>>,
             <<"Wideband PMI", 18, 4>>, <<"CSF Tx Mode", 26, 4>>,
             <<"Carrier Index", 22, 4>>>>),
         Word("Csi Meas Set Index", <<<<"Csi Meas Set Index", 1, 1>>,
             <<"Rank Index", 2, 2>>>>),
         Word("Start System Sub-frame Number", <<
             <<"Start System Sub-frame Number", 0, 4>>,
             <<"Start System Frame Number", 4, 10>>,
             <<"PUCCH Reporting Mode", 14, 2>>>>),
         Word("PUCCH Reporting Mode", <<<<"PUCCH Reporting Mode", 0, 1>>,
             <<"PUCCH Report Type", 1, 4>>>>)>>),
       Names({"Rank Index", "PUCCH Reporting Mode", "PUCCH Report Type", "CSF Tx Mode",
         "Carrier Index"}) >>

PucchCsf_v103 ==
    << LtePhyPucchCsf_Fmt, Reads({"Version"}), LtePhyPucchCsf_Payload_v103,
       Split(<<Word("Num Csirs Ports", <<<<"Num Csirs Ports", 0, 4>>>>),
         Word("Number of Subbands", <<<<"Alt Cqi Table Data", 7, 1>>,
             <<"Number of Subbands", 0, 4>>, <<"CQI CW0", 10, 4>>, <<"CQI CW1", 14, 4>>,
             <<"Wideband PMI", 18, 4>>, <<"CSF Tx Mode", 26, 4>>,
             <<"Carrier Index", 22, 4>>>>),
         Word("Csi Meas Set Index", <<<<"Csi Meas Set Index", 1, 1>>,
             <<"Rank Index", 2, 2>>, <<"Forced Max RI", 4, 4>>>>),
         Word("Start System Sub-frame Number", <<
             <<"Start System Sub-frame Number", 0, 4>>,
             <<"Start System Frame Number", 4, 10>>,
             <<"PUCCH Reporting Mode", 14, 2>>>>),
         Word("PUCCH Reporting Mode", <<<<"PUCCH Reporting Mode", 0, 1>>,
             <<"PUCCH Report Type", 1, 4>>>>),
         Word("Forced Max RI", <<<<"Forced Max RI", 0, 4>>>>)>>),
       Names({"Rank Index", "PUCCH Reporting Mode", "PUCCH Report Type", "CSF Tx Mode",
         "Carrier Index", "Csi Meas Set Index"}) >>

PucchCsf_v142_Rest ==
    << Split(<<Word("Rank Index", <<<<"Rank Index", 0, 2>>, <<"CRI", 2, 3>>,
             <<"UL Frame Number", 5, 10>>, <<"UL Channel Type", 15, 1>>>>),
         Word("UL Subframe Number", <<<<"UL Subframe Number", 0, 4>>,
             <<"UL Payload Length", 4, 5>>>>)>>),
       Names({"Carrier Index", "PUCCH Reporting Mode", "PUCCH Report Type",
         "CSF Tx Mode", "Rank Index"}) >>
PucchCsf_v142 ==
    << LtePhyPucchCsf_Fmt, Reads({"Version"}), LtePhyPucchCsf_Payload_v142,
       Split(<<Word("Start System Sub-frame Number", <<
             <<"Start System Sub-frame Number", 0, 4>>,
             <<"Start System Frame Number", 4, 10>>, <<"Carrier Index", 14, 4>>,
             <<"Scell Index", 18, 5>>, <<"PUCCH Reporting Mode", 24, 2>>,
             <<"PUCCH Report Type", 26, 4>>, <<"Size BWP", 30, 2>>>>),
         Word("Number of Subbands", <<<<"Size BWP", 0, 1>>,
             <<"Number of Subbands", 1, 4>>, <<"BWP Index", 5, 3>>>>),
         Word("Alt Cqi Table Data", <<<<"Alt Cqi Table Data", 0, 1>>,
             <<"SubBand Label", 1, 2>>, <<"CQI CW0", 3, 4>>, <<"CQI CW1", 7, 4>>,
             <<"Wideband PMI", 11, 4>>>>),
         Word("CSF Tx Mode", <<<<"CSF Tx Mode", 0, 4>>,
             <<"PUCCH Reporting Submode", 4, 2>>, <<"Num Csirs Ports", 6, 4>>,
             <<"Wideband PMI1", 10, 4>>, <<"Pti", 14, 1>>,
             <<"Csi Meas Set Index", 15, 1>>>>)>>) >>
    \o PucchCsf_v142_Rest
-----------------------------------------------------------------------------
(* _decode_lte_pusch_power_control_payload *)

LtePuschPowerControl_Fmt == Fmt(1, <<<<"Version", 1>>>>, {})
LtePuschPowerControl_Fmt_v25 == Fmt(3, <<<<"Number of Records", 1>>>>, {})
LtePuschPowerControl_Record_Fmt_v25 == Fmt(12, <<<<"SFN", 4>>, <<"Num RBs", 4>>,
      <<"F(i)", 4>>>>,
    {"Cell Index", "Sub-FN", "PUSCH Tx Power (dBm)", "DCI Format", "Tx Type",
      "TPC Frozen", "Transport Block Size", "DL Path Loss", "TPC",
      "PUSCH Actual Tx Power", "Max Power"})
LtePuschPowerControl_Fmt_v5 == Fmt(3, <<<<"Number of Records", 1>>>>, {})
LtePuschPowerControl_Record_Fmt_v5 == Fmt(12, <<<<"SFN", 4>>, <<"Num RBs", 4>>,
      <<"F(i)", 4>>>>,
    {"Sub-FN", "PUSCH Tx Power (dBm)", "DCI Format", "Tx Type", "Transport Block Size",
      "DL Path Loss", "TPC", "PUSCH Actual Tx Power"})
LtePuschPowerControl_Fmt_v4 == Fmt(3, <<<<"Number of Records", 1>>>>, {})
LtePuschPowerControl_Record_Fmt_v4 == Fmt(12, <<<<"SFN", 4>>,
      <<"Transport Block Size", 4>>, <<"TPC", 4>>>>,
    {"Sub-FN", "PUSCH Tx Power (dBm)", "DCI Format", "Tx Type", "DL Path Loss", "F(i)",
      "PUSCH Actual Tx Power"})

PuschPower_v25 ==
    << LtePuschPowerControl_Fmt, Reads({"Version"}), LtePuschPowerControl_Fmt_v25,
       Reads({"Number of Records"}),
       ForEach("Number of Records",
         << LtePuschPowerControl_Record_Fmt_v25,
            Split(<<Word("SFN", <<<<"Cell Index", 0, 3>>, <<"SFN", 3, 10>>,
                  <<"Sub-FN", 13, 4>>, <<"PUSCH Tx Power (dBm)", 17, 8>>,
                  <<"DCI Format", 25, 4>>, <<"Tx Type", 29, 2>>,
                  <<"TPC Frozen", 31, 1>>>>),
              Word("Num RBs", <<<<"Num RBs", 0, 8>>, <<"Transport Block Size", 8, 14>>,
                  <<"DL Path Loss", 22, 8>>>>),
              Word("F(i)", <<<<"F(i)", 0, 10>>, <<"TPC", 10, 5>>>>)>>),
            Names({"DCI Format", "Tx Type"}),
            Either(<<
              << Names({"TPC"}) >>, <<>>>>),
            Split(<<Word("F(i)", <<<<"PUSCH Actual Tx Power", 15, 8>>,
                  <<"Max Power", 23, 8>>>>)>>) >>) >>

PuschPower_v5 ==
    << LtePuschPowerControl_Fmt, Reads({"Version"}), LtePuschPowerControl_Fmt_v5,
       Reads({"Number of Records"}),
       ForEach("Number of Records",
         << LtePuschPowerControl_Record_Fmt_v5,
            Split(<<Word("SFN", <<<<"SFN", 0, 10>>, <<"Sub-FN", 10, 4>>,
                  <<"PUSCH Tx Power (dBm)", 14, 8>>, <<"DCI Format", 22, 4>>,
                  <<"Tx Type", 26, 2>>>>),
              Word("Num RBs", <<<<"Num RBs", 0, 8>>, <<"Transport Block Size", 8, 14>>,
                  <<"DL Path Loss", 22, 8>>>>),
              Word("F(i)", <<<<"F(i)", 0, 10>>, <<"TPC", 10, 5>>>>)>>),
            Names({"DCI Format", "Tx Type"}),
            Either(<<
              << Names({"TPC"}) >>, <<>>>>),
            Split(<<Word("F(i)", <<<<"PUSCH Actual Tx Power", 15, 8>>>>)>>) >>) >>

PuschPower_v4 ==
    << LtePuschPowerControl_Fmt, Reads({"Version"}), LtePuschPowerControl_Fmt_v4,
       Reads({"Number of Records"}),
       ForEach("Number of Records",
         << LtePuschPowerControl_Record_Fmt_v4,
            Split(<<Word("SFN", <<<<"SFN", 0, 10>>, <<"Sub-FN", 10, 4>>,
                  <<"PUSCH Tx Power (dBm)", 14, 8>>, <<"DCI Format", 22, 4>>,
                  <<"Tx Type", 26, 2>>>>),
              Word("Transport Block Size", <<<<"Transport Block Size", 0, 14>>,
                  <<"DL Path Loss", 14, 8>>, <<"F(i)", 22, 10>>>>),
              Word("TPC", <<<<"TPC", 0, 5>>>>)>>),
            Names({"DCI Format", "Tx Type"}),
            Either(<<
              << Names({"TPC"}) >>, <<>>>>),
            Split(<<Word("TPC", <<<<"PUSCH Actual Tx Power", 5, 8>>>>)>>) >>) >>
-----------------------------------------------------------------------------
(* _decode_lte_pucch_power_control_payload *)

LtePucchPowerControl_Fmt == Fmt(1, <<<<"Version", 1>>>>, {})
LtePucchPowerControl_Fmt_v24 == Fmt(3, <<<<"Number of Records", 1>>>>, {})
LtePucchPowerControl_Record_Fmt_v24 == Fmt(12, <<<<"SFN", 4>>, <<"TPC Command", 4>>,
      <<"g(i)", 2>>, <<"PUCCH Actual Tx Power", 1>>>>,
    {"Sub-FN", "PUCCH Tx Power (dBm)", "DCI Format", "PUCCH Format", "N_HARQ", "N_CQI",
      "DL Path Loss"})
\* The decoder looks up "Number of Records"
LtePucchPowerControl_Fmt_v4Mutant == Fmt(3, <<<<"Num Records", 1>>>>, {})
LtePucchPowerControl_Fmt_v4 == Fmt(3, <<<<"Number of Records", 1>>>>, {})
LtePucchPowerControl_Record_Fmt_v4 == Fmt(12, <<<<"SFN", 4>>, <<"TPC Command", 4>>,
      <<"g(i)", 2>>, <<"PUCCH Actual Tx Power", 1>>>>,
    {"Sub-FN", "PUCCH Tx Power (dBm)", "DCI Format", "PUCCH Format", "N_HARQ", "N_CQI",
      "DL Path Loss"})

PucchPower_v24 ==
    << LtePucchPowerControl_Fmt, Reads({"Version"}), LtePucchPowerControl_Fmt_v24,
       Reads({"Number of Records"}),
       ForEach("Number of Records",
         << LtePucchPowerControl_Record_Fmt_v24,
            Split(<<Word("SFN", <<<<"SFN", 0, 10>>, <<"Sub-FN", 10, 4>>,
                  <<"PUCCH Tx Power (dBm)", 14, 8>>, <<"DCI Format", 22, 4>>,
                  <<"PUCCH Format", 26, 3>>, <<"N_HARQ", 29, 1>>>>),
              Word("TPC Command", <<<<"TPC Command", 0, 6>>>>)>>),
            Names({"DCI Format", "PUCCH Format"}),
            Either(<<
              << Names({"TPC Command"}) >>, <<>>>>),
            Split(<<Word("TPC Command", <<<<"N_CQI", 6, 5>>,
                  <<"DL Path Loss", 11, 8>>>>)>>),
            Sets({"g(i)", "PUCCH Actual Tx Power"}) >>) >>

PucchPower_v4 ==
    << LtePucchPowerControl_Fmt, Reads({"Version"}), LtePucchPowerControl_Fmt_v4,
       Reads({"Number of Records"}),
       ForEach("Number of Records",
         << LtePucchPowerControl_Record_Fmt_v4,
            Split(<<Word("SFN", <<<<"SFN", 0, 10>>, <<"Sub-FN", 10, 4>>,
                  <<"PUCCH Tx Power (dBm)", 14, 8>>, <<"DCI Format", 22, 4>>,
                  <<"PUCCH Format", 26, 3>>, <<"N_HARQ", 29, 1>>>>),
              Word("TPC Command", <<<<"TPC Command", 0, 6>>>>)>>),
            Names({"DCI Format", "PUCCH Format"}),
            Either(<<
              << Names({"TPC Command"}) >>, <<>>>>),
            Split(<<Word("TPC Command", <<<<"N_CQI", 6, 5>>,
                  <<"DL Path Loss", 11, 7>>>>)>>),
            Sets({"g(i)"}) >>) >>

-----------------------------------------------------------------------------
(* The decoders of this module, by name *)

PhyUplinkDecoders == [
    PuschTx_v23 |-> PuschTx_v23,
    PuschTx_v24 |-> PuschTx_v24,
    PuschTx_v26 |-> PuschTx_v26,
    PuschTx_v43 |-> PuschTx_v43,
    PuschTx_v102 |-> PuschTx_v102,
    PuschTx_v122 |-> PuschTx_v122,
    PuschTx_v124 |-> PuschTx_v124,
    PuschTx_v144_145 |-> PuschTx_v144_145,
    PucchTx_v21 |-> PucchTx_v21,
    PucchTx_v22 |-> PucchTx_v22,
    PucchTx_v43 |-> PucchTx_v43,
    PucchTx_v101 |-> PucchTx_v101,
    PucchTx_v121 |-> PucchTx_v121,
    PucchTx_v142 |-> PucchTx_v142,
    PuschCsf_v142 |-> PuschCsf_v142,
    PuschCsf_v102 |-> PuschCsf_v102,
    PuschCsf_v101 |-> PuschCsf_v101,
    PuschCsf_v42 |-> PuschCsf_v42,
    PuschCsf_v23 |-> PuschCsf_v23,
    PuschCsf_v22 |-> PuschCsf_v22,
    PuschCsf_v103 |-> PuschCsf_v103,
    PucchCsf_v22 |-> PucchCsf_v22,
    PucchCsf_v24 |-> PucchCsf_v24,
    PucchCsf_v43 |-> PucchCsf_v43,
    PucchCsf_v101_102 |-> PucchCsf_v101_102,
    PucchCsf_v103 |-> PucchCsf_v103,
    PucchCsf_v142 |-> PucchCsf_v142,
    PuschPower_v25 |-> PuschPower_v25,
    PuschPower_v5 |-> PuschPower_v5,
    PuschPower_v4 |-> PuschPower_v4,
    PucchPower_v24 |-> PucchPower_v24,
    PucchPower_v4 |-> PucchPower_v4]
=============================================================================
