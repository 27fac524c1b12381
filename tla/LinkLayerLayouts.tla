-------------------------- MODULE LinkLayerLayouts --------------------------
(***************************************************************************)
(* The decoders of MAC, RLC and PDCP: configuration and ciphered data      *)
(* PDUs.  A table (...Fmt and the like) has the name of its source, with   *)
(* the fields its decoder comes back to; a decoder has the name of its     *)
(* packet and the version it is for, and what is behind its name (_Record, *)
(* _Subpkt ...) names the list inside it.  A part named _Rest continues    *)
(* the part of its name.                                                   *)
(***************************************************************************)
EXTENDS Layout

-----------------------------------------------------------------------------
(* _decode_lte_mac_configuration_subpkt *)

LteMacConfigurationFmt == Fmt(4, <<<<"Version", 1>>, <<"Num SubPkt", 1>>>>, {})
LteMacConfiguration_SubpktHeader == Fmt(4, <<<<"SubPacket ID", 1>>, <<"Version", 1>>,
      <<"SubPacket Size", 2>>>>,
    {})
LteMacConfigurationSubpkt_ConfigType == Fmt(4, <<<<"Config reason", 4>>>>, {})
LteMacConfigurationSubpkt_ConfigType_v2 == Fmt(4, <<<<"Config reason", 1>>>>, {})
LteMacConfigurationSubpkt_DLConfig == Fmt(4, <<<<"TA Timer", 2>>>>, {})
LteMacConfigurationSubpkt_DLConfig_v2 == Fmt(2, <<<<"Num Active Stag", 1>>>>, {})
LteMacConfigurationSubpkt_DLConfig_Scell_Tag_Info_v2 == Fmt(6, <<<<"TA Timer", 2>>>>,
    {})
LteMacConfigurationSubpkt_ULConfig == Fmt(12, <<<<"BSR timer", 2>>>>, {})
LteMacConfigurationSubpkt_ULConfig_v2 == Fmt(12, <<<<"BSR timer", 2>>>>, {})
LteMacConfigurationSubpkt_RACHConfig == Fmt(24, <<<<"PRACH config", 1>>>>, {})
LteMacConfigurationSubpkt_RACHConfig_v2 == Fmt(23, <<<<"Power offset Group_B", 1>>,
      <<"PRACH config", 1>>>>,
    {})
LteMacConfigurationSubpkt_RACHConfig_v5 == Fmt(24, <<<<"Power offset Group_B", 1>>,
      <<"PRACH config", 1>>, <<"PRACH Cfg R13 Present", 1>>>>,
    {"Preamble Format"})
LteMacConfiguration_RachConfigSubpktPayload_rsrp_prach_list_size_v5 == Fmt(1, <<
      <<"RSRP Thresh PRACH List Size", 1>>>>,
    {})
LteMacConfiguration_RachConfigSubpktPayload_rsrp_prach_list_v5 == Fmt(1, <<>>, {})
LteMacRachTrigger_RachConfigSubpktPayload_hidden_rsrp_prach_list_v5 == Fmt(1, <<>>,
    {})
LteMacConfiguration_RachConfigSubpktPayload_prach_param_ce_list_size_v5 == Fmt(1, <<
      <<"PRACH Param CE List", 1>>>>,
    {})
LteMacConfiguration_RachConfigSubpktPayload_prach_list_v5 == Fmt(7, <<>>, {})
LteMacConfiguration_RachConfigSubpktPayload_hidden_prach_list_v5 == Fmt(7, <<>>, {})
LteMacConfiguration_RachConfigSubpktPayload_prach_last_part == Fmt(4, <<
      <<"Initial CE Level", 2>>>>,
    {})
LteMacConfigurationSubpkt_LCConfig == Fmt(34, <<<<"Number of added/modified LC", 1>>>>,
    {})
LteMacConfiguration_LCConfig_LC == Fmt(9, <<>>, {})
LteMacConfigurationSubpkt_LCConfig_v2 == Fmt(35, <<
      <<"Number of added/modified LC", 1>>>>,
    {})
LteMacConfigurationSubpkt_eMBMSConfig == Fmt(100, <<>>, {})
LteMacConfigurationSubpkt_eMBMSConfig_v2 == Fmt(101, <<>>, {})
LteMacConfigurationSubpkt_All_Rach_Config == Fmt(3, <<>>, {})
LteMacConfigurationSubpkt_All_Rach_Config_Cell_Info == Fmt(24, <<
      <<"Power offset Group_B", 1>>, <<"PRACH config", 1>>>>,
    {})
LteMacConfigurationSubpkt_ELS == Fmt(4, <<>>, {})

MacConfig_v1_Subpkt_v1 ==
    << Either(<<
         << LteMacConfigurationSubpkt_DLConfig, Reads({"TA Timer"}),
            Either(<<
              << Names({"TA Timer"}) >>, <<>>>>) >>,
         << LteMacConfigurationSubpkt_DLConfig_v2, Reads({"Num Active Stag"}),
            ForEach("Num Active Stag",
              << LteMacConfigurationSubpkt_DLConfig_Scell_Tag_Info_v2,
                 Reads({"TA Timer"}),
                 Either(<<
                   << Names({"TA Timer"}) >>, <<>>>>) >>) >>, <<>>>>) >>
MacConfig_v1_Subpkt_v3_Alt_Rest ==
    << Sublist(
         << LteMacConfiguration_RachConfigSubpktPayload_prach_last_part,
            Reads({"Initial CE Level"}),
            Either(<<
              << Names({"Initial CE Level"}) >>, <<>>>>) >>),
       Reads({"PRACH Cfg R13 Present"}) >>
MacConfig_v1_Subpkt_v3_Alt ==
    << LteMacConfigurationSubpkt_RACHConfig_v5, Reads({"Power offset Group_B"}),
       Either(<<
         << Names({"Power offset Group_B"}) >>, <<>>>>),
       Reads({"PRACH config"}), Sets({"Preamble Format"}),
       Sublist(
         << LteMacConfiguration_RachConfigSubpktPayload_rsrp_prach_list_size_v5,
            Reads({"RSRP Thresh PRACH List Size"}) >>),
       ForEach("RSRP Thresh PRACH List Size",
         << LteMacConfiguration_RachConfigSubpktPayload_rsrp_prach_list_v5 >>),
       Pad(FreeSlots(3, 1)),
       Sublist(
         << LteMacConfiguration_RachConfigSubpktPayload_prach_param_ce_list_size_v5,
            Reads({"PRACH Param CE List"}) >>),
       ForEach("PRACH Param CE List",
         << LteMacConfiguration_RachConfigSubpktPayload_prach_list_v5 >>),
       Pad(FreeSlots(4, 7)) >>
    \o MacConfig_v1_Subpkt_v3_Alt_Rest
MacConfig_v1_Subpkt_v3 ==
    << Either(<<
         << LteMacConfigurationSubpkt_RACHConfig >>,
         << LteMacConfigurationSubpkt_RACHConfig_v2 >>, MacConfig_v1_Subpkt_v3_Alt,
         <<>>>>) >>
MacConfig_v1_Subpkt_v4 ==
    << Either(<<
         << LteMacConfigurationSubpkt_LCConfig, Reads({"Number of added/modified LC"}),
            ForEach("Number of added/modified LC",
              << LteMacConfiguration_LCConfig_LC >>),
            Realign >>,
         << LteMacConfigurationSubpkt_LCConfig_v2,
            Reads({"Number of added/modified LC"}),
            ForEach("Number of added/modified LC",
              << LteMacConfiguration_LCConfig_LC >>),
            Realign >>, <<>>>>) >>
MacConfig_v1_Subpkt ==
    << LteMacConfiguration_SubpktHeader, Reads({"Version"}), Sized("SubPacket Size"),
       Names({"SubPacket ID"}),
       Either(<<
         <<>>,
         << Either(<<
              << LteMacConfigurationSubpkt_ConfigType, Names({"Config reason"}) >>,
              << LteMacConfigurationSubpkt_ConfigType_v2, Names({"Config reason"}) >>,
              <<>>>>) >>, MacConfig_v1_Subpkt_v1,
         << Either(<<
              << LteMacConfigurationSubpkt_ULConfig, Reads({"BSR timer"}),
                 Either(<<
                   << Names({"BSR timer"}) >>, <<>>>>) >>,
              << LteMacConfigurationSubpkt_ULConfig_v2 >>, <<>>>>) >>,
         MacConfig_v1_Subpkt_v3, MacConfig_v1_Subpkt_v4,
         << Either(<<
              << LteMacConfigurationSubpkt_eMBMSConfig >>,
              << LteMacConfigurationSubpkt_eMBMSConfig_v2 >>, <<>>>>) >>,
         << Either(<<
              << LteMacConfigurationSubpkt_All_Rach_Config,
                 Times(8,
                   << LteMacConfigurationSubpkt_All_Rach_Config_Cell_Info >>) >>,
              <<>>>>) >>,
         << Either(<<
              << LteMacConfigurationSubpkt_ELS >>, <<>>>>) >>>>),
       Realign >>
MacConfig_v1 ==
    << LteMacConfigurationFmt, Reads({"Version", "Num SubPkt"}),
       ForEach("Num SubPkt", MacConfig_v1_Subpkt) >>
-----------------------------------------------------------------------------
(* _decode_lte_pdcp_dl_config_subpkt *)

LtePdcpDlConfig_Fmt == Fmt(4, <<<<"Version", 1>>, <<"Num Subpkt", 1>>>>, {})
LtePdcpDlConfig_SubpktHeader == Fmt(4, <<<<"Subpacket ID", 1>>,
      <<"Subpacket Version", 1>>, <<"Subpacket Size", 2>>>>,
    {})
LtePdcpDlConfig_SubpktPayload == Fmt(8, <<<<"Reason", 1>>,
      <<"SRB Cipher Algorithm", 1>>, <<"SRB Integrity Algorithm", 1>>,
      <<"DRB Cipher Algorithm", 1>>, <<"Array size", 1>>>>,
    {})
LtePdcpDlConfig_Subpkt_ReleaseRB_Header == Fmt(1, <<<<"Number of Released RBs", 1>>>>,
    {})
LtePdcpDlConfig_Subpkt_ReleaseRB_Fmt == Fmt(1, <<>>, {})
LtePdcpDlConfig_Subpkt_AddedModifiedRB_Header == Fmt(1, <<
      <<"Number of Added/Modified RBs", 1>>>>,
    {})
LtePdcpDlConfig_Subpkt_AddedModifiedRB_Fmt == Fmt(2, <<<<"Action", 1>>>>, {})
LtePdcpDlConfig_Subpkt_ActiveRB_Header == Fmt(1, <<<<"Number of active RBs", 1>>>>,
    {})
LtePdcpDlConfig_Subpkt_ActiveRB_Fmt == Fmt(13, <<<<"RB mode", 1>>, <<"RB type", 1>>,
      <<"Status report", 1>>, <<"RoHC Enabled", 1>>>>,
    {})
LtePdcpDlConfig_Subpkt_ActiveRB_Fmt_v4 == Fmt(13, <<<<"RB mode", 1>>, <<"RB type", 1>>,
      <<"Status report", 1>>>>,
    {})

PdcpDlConfig_v1_Subpkt_192v2 ==
    << LtePdcpDlConfig_SubpktPayload, Reads({"Array size"}),
       Names({"Reason", "SRB Cipher Algorithm", "DRB Cipher Algorithm",
         "SRB Integrity Algorithm"}),
       LtePdcpDlConfig_Subpkt_ReleaseRB_Header, Reads({"Number of Released RBs"}),
       ForEach("Number of Released RBs",
         << LtePdcpDlConfig_Subpkt_ReleaseRB_Fmt >>),
       Pad(ArraySlots(1)), LtePdcpDlConfig_Subpkt_AddedModifiedRB_Header,
       Reads({"Number of Added/Modified RBs"}),
       ForEach("Number of Added/Modified RBs",
         << LtePdcpDlConfig_Subpkt_AddedModifiedRB_Fmt, Names({"Action"}) >>),
       Pad(ArraySlots(2)), LtePdcpDlConfig_Subpkt_ActiveRB_Header,
       Reads({"Number of active RBs"}),
       ForEach("Number of active RBs",
         << LtePdcpDlConfig_Subpkt_ActiveRB_Fmt,
            Names({"RB mode", "RB type", "Status report", "RoHC Enabled"}) >>) >>
PdcpDlConfig_v1_Subpkt_192v4 ==
    << LtePdcpDlConfig_SubpktPayload, Reads({"Array size"}),
       Names({"Reason", "SRB Cipher Algorithm", "DRB Cipher Algorithm",
         "SRB Integrity Algorithm"}),
       LtePdcpDlConfig_Subpkt_ReleaseRB_Header, Reads({"Number of Released RBs"}),
       ForEach("Number of Released RBs",
         << LtePdcpDlConfig_Subpkt_ReleaseRB_Fmt >>),
       Pad(ArraySlots(1)), LtePdcpDlConfig_Subpkt_AddedModifiedRB_Header,
       Reads({"Number of Added/Modified RBs"}),
       ForEach("Number of Added/Modified RBs",
         << LtePdcpDlConfig_Subpkt_AddedModifiedRB_Fmt, Names({"Action"}) >>),
       Pad(ArraySlots(2)), LtePdcpDlConfig_Subpkt_ActiveRB_Header,
       Reads({"Number of active RBs"}),
       ForEach("Number of active RBs",
         << LtePdcpDlConfig_Subpkt_ActiveRB_Fmt_v4,
            Names({"RB mode", "RB type", "Status report"}) >>) >>
PdcpDlConfig_v1_Subpkt ==
    << LtePdcpDlConfig_SubpktHeader, Reads({"Subpacket ID", "Subpacket Version"}),
       Sized("Subpacket Size"),
       Either(<<
         PdcpDlConfig_v1_Subpkt_192v2, PdcpDlConfig_v1_Subpkt_192v4, <<>>>>),
       Realign >>
PdcpDlConfig_v1 ==
    << LtePdcpDlConfig_Fmt, Reads({"Version", "Num Subpkt"}),
       ForEach("Num Subpkt", PdcpDlConfig_v1_Subpkt) >>
-----------------------------------------------------------------------------
(* _decode_lte_pdcp_ul_config_subpkt *)

LtePdcpUlConfig_Fmt == Fmt(4, <<<<"Version", 1>>, <<"Num Subpkt", 1>>>>, {})
LtePdcpUlConfig_SubpktHeader == Fmt(4, <<<<"Subpacket ID", 1>>,
      <<"Subpacket Version", 1>>, <<"Subpacket Size", 2>>>>,
    {})
LtePdcpUlConfig_SubpktPayload == Fmt(8, <<<<"Reason", 1>>,
      <<"SRB Cipher Algorithm", 1>>, <<"SRB Integrity Algorithm", 1>>,
      <<"DRB Cipher Algorithm", 1>>, <<"Array size", 1>>>>,
    {})
LtePdcpUlConfig_Subpkt_ReleaseRB_Header == Fmt(1, <<<<"Number of Released RBs", 1>>>>,
    {})
LtePdcpUlConfig_Subpkt_ReleaseRB_Fmt == Fmt(1, <<>>, {})
LtePdcpUlConfig_Subpkt_AddedModifiedRB_Header == Fmt(1, <<
      <<"Number of Added/Modified RBs", 1>>>>,
    {})
LtePdcpUlConfig_Subpkt_AddedModifiedRB_Fmt == Fmt(2, <<<<"Action", 1>>>>, {})
LtePdcpUlConfig_Subpkt_ActiveRB_Header == Fmt(1, <<<<"Number of active RBs", 1>>>>,
    {})
LtePdcpUlConfig_Subpkt_ActiveRB_Fmt == Fmt(14, <<<<"RB mode", 1>>, <<"RB type", 1>>,
      <<"RoHC Enabled", 1>>>>,
    {})
LtePdcpUlConfig_Subpkt_ActiveRB_Fmt_v3 == Fmt(20, <<<<"RB mode", 1>>,
      <<"RB type", 1>>>>,
    {})
LtePdcpUlConfig_Subpkt_ActiveRB_Fmt_v24 == Fmt(20, <<<<"RB mode", 1>>,
      <<"RB type", 1>>>>,
    {})

PdcpUlConfig_v1_Subpkt_193v2 ==
    << LtePdcpUlConfig_SubpktPayload, Reads({"Array size"}),
       Names({"Reason", "SRB Cipher Algorithm", "DRB Cipher Algorithm",
         "SRB Integrity Algorithm"}),
       LtePdcpUlConfig_Subpkt_ReleaseRB_Header, Reads({"Number of Released RBs"}),
       ForEach("Number of Released RBs",
         << LtePdcpUlConfig_Subpkt_ReleaseRB_Fmt >>),
       Pad(ArraySlots(1)), LtePdcpUlConfig_Subpkt_AddedModifiedRB_Header,
       Reads({"Number of Added/Modified RBs"}),
       ForEach("Number of Added/Modified RBs",
         << LtePdcpUlConfig_Subpkt_AddedModifiedRB_Fmt, Names({"Action"}) >>),
       Pad(ArraySlots(2)), LtePdcpUlConfig_Subpkt_ActiveRB_Header,
       Reads({"Number of active RBs"}),
       ForEach("Number of active RBs",
         << LtePdcpUlConfig_Subpkt_ActiveRB_Fmt,
            Names({"RB mode", "RB type", "RoHC Enabled"}) >>) >>
PdcpUlConfig_v1_Subpkt_193v3 ==
    << LtePdcpUlConfig_SubpktPayload, Reads({"Array size"}),
       Names({"Reason", "SRB Cipher Algorithm", "DRB Cipher Algorithm",
         "SRB Integrity Algorithm"}),
       LtePdcpUlConfig_Subpkt_ReleaseRB_Header, Reads({"Number of Released RBs"}),
       ForEach("Number of Released RBs",
         << LtePdcpUlConfig_Subpkt_ReleaseRB_Fmt >>),
       Pad(ArraySlots(1)), LtePdcpUlConfig_Subpkt_AddedModifiedRB_Header,
       Reads({"Number of Added/Modified RBs"}),
       ForEach("Number of Added/Modified RBs",
         << LtePdcpUlConfig_Subpkt_AddedModifiedRB_Fmt, Names({"Action"}) >>),
       Pad(ArraySlots(2)), LtePdcpUlConfig_Subpkt_ActiveRB_Header,
       Reads({"Number of active RBs"}),
       ForEach("Number of active RBs",
         << LtePdcpUlConfig_Subpkt_ActiveRB_Fmt_v3, Names({"RB mode", "RB type"}) >>) >>
PdcpUlConfig_v1_Subpkt_193v24 ==
    << LtePdcpUlConfig_SubpktPayload, Reads({"Array size"}),
       Names({"Reason", "SRB Cipher Algorithm", "DRB Cipher Algorithm",
         "SRB Integrity Algorithm"}),
       LtePdcpUlConfig_Subpkt_ReleaseRB_Header, Reads({"Number of Released RBs"}),
       ForEach("Number of Released RBs",
         << LtePdcpUlConfig_Subpkt_ReleaseRB_Fmt >>),
       Pad(ArraySlots(1)), LtePdcpUlConfig_Subpkt_AddedModifiedRB_Header,
       Reads({"Number of Added/Modified RBs"}),
       ForEach("Number of Added/Modified RBs",
         << LtePdcpUlConfig_Subpkt_AddedModifiedRB_Fmt, Names({"Action"}) >>),
       Pad(ArraySlots(2)), LtePdcpUlConfig_Subpkt_ActiveRB_Header,
       Reads({"Number of active RBs"}),
       ForEach("Number of active RBs",
         << LtePdcpUlConfig_Subpkt_ActiveRB_Fmt_v24,
            Names({"RB mode", "RB type", "RoHC Enabled"}) >>) >>
PdcpUlConfig_v1_Subpkt ==
    << LtePdcpUlConfig_SubpktHeader, Reads({"Subpacket ID", "Subpacket Version"}),
       Sized("Subpacket Size"),
       Either(<<
         PdcpUlConfig_v1_Subpkt_193v2, PdcpUlConfig_v1_Subpkt_193v3,
         PdcpUlConfig_v1_Subpkt_193v24, <<>>>>),
       Realign >>
PdcpUlConfig_v1 ==
    << LtePdcpUlConfig_Fmt, Reads({"Version", "Num Subpkt"}),
       ForEach("Num Subpkt", PdcpUlConfig_v1_Subpkt) >>
-----------------------------------------------------------------------------
(* _decode_lte_pdcp_dl_cipher_data_pdu_payload *)

LtePdcpDlCipherDataPdu_Fmt == Fmt(4, <<<<"Version", 1>>, <<"Num Subpkts", 1>>>>, {})
LtePdcpDlCipherDataPdu_SubpktHeader_v1 == Fmt(4, <<<<"Subpacket ID", 1>>,
      <<"Subpacket Version", 1>>, <<"Subpacket Size", 2>>>>,
    {})
LtePdcpDlCipherDataPdu_SubpktPayload_v1 == Fmt(36, <<<<"SRB Cipher Algorithm", 1>>,
      <<"DRB Cipher Algorithm", 1>>, <<"Num PDUs", 2>>>>,
    {})
LtePdcpDlCipherDataPdu_Data_v1 == Fmt(12, <<<<"Cfg Idx", 2>>, <<"Logged Bytes", 2>>,
      <<"Sub FN", 2>>, <<"SN", 4>>>>,
    {"Mode", "SN Length", "Bearer ID", "Valid PDU", "Sys FN"})
LtePdcpDlCipherDataPdu_SubpktPayload_v3 == Fmt(36, <<<<"SRB Cipher Algorithm", 1>>,
      <<"DRB Cipher Algorithm", 1>>, <<"Num PDUs", 2>>>>,
    {"SRB Ciphering Keys", "DRB Ciphering Keys"})
LtePdcpDlCipherDataPdu_Data_v3 == Fmt(13, <<<<"Cfg Idx", 2>>, <<"Logged Bytes", 2>>,
      <<"Sub FN", 2>>, <<"SN", 4>>>>,
    {"Mode", "SN Length", "Bearer ID", "Valid PDU", "Sys FN"})
LtePdcpDlCipherDataPdu_SubpktPayload_v24 == Fmt(36, <<<<"SRB Cipher Algorithm", 1>>,
      <<"DRB Cipher Algorithm", 1>>, <<"Num PDUs", 2>>>>,
    {})
LtePdcpDlCipherDataPdu_Data_v24 == Fmt(13, <<<<"Cfg Idx", 2>>, <<"Logged Bytes", 2>>,
      <<"Sub FN", 2>>, <<"SN", 4>>>>,
    {"Mode", "SN Length", "Bearer ID", "Valid PDU", "Sys FN"})
LtePdcpDlCipherDataPdu_SubpktPayload_v40 == Fmt(36, <<<<"SRB Cipher Algorithm", 1>>,
      <<"DRB Cipher Algorithm", 1>>, <<"Num PDUs", 2>>>>,
    {})
LtePdcpDlCipherDataPdu_Data_v40 == Fmt(13, <<<<"Cfg Idx", 2>>, <<"Logged Bytes", 2>>,
      <<"Sub FN", 2>>>>,
    {"Mode", "SN Length", "Bearer ID", "Valid PDU", "Sys FN", "Reserved FN"})

PdcpDlCipher_v1_Subpkt_195v1 ==
    << LtePdcpDlCipherDataPdu_SubpktPayload_v1, Reads({"Num PDUs"}),
       Names({"SRB Cipher Algorithm", "DRB Cipher Algorithm"}),
       ForEach("Num PDUs",
         << LtePdcpDlCipherDataPdu_Data_v1, Reads({"Logged Bytes"}),
            Split(<<Word("Cfg Idx", <<<<"Cfg Idx", 0, 6>>, <<"Mode", 6, 1>>,
                  <<"SN Length", 7, 2>>, <<"Bearer ID", 9, 5>>,
                  <<"Valid PDU", 14, 1>>>>),
              Word("Sub FN", <<<<"Sub FN", 0, 4>>, <<"Sys FN", 4, 10>>>>),
              Word("SN", <<<<"SN", 0, 12>>>>)>>),
            Names({"Mode", "SN Length", "Valid PDU"}), PduBytes >>) >>
PdcpDlCipher_v1_Subpkt_195v3 ==
    << LtePdcpDlCipherDataPdu_SubpktPayload_v3, Reads({"Num PDUs"}),
       Names({"SRB Cipher Algorithm", "DRB Cipher Algorithm"}),
       ForEach("Num PDUs",
         << LtePdcpDlCipherDataPdu_Data_v3, Reads({"Logged Bytes"}),
            Split(<<Word("Cfg Idx", <<<<"Cfg Idx", 0, 6>>, <<"Mode", 6, 1>>,
                  <<"SN Length", 7, 2>>, <<"Bearer ID", 9, 5>>,
                  <<"Valid PDU", 14, 1>>>>),
              Word("Sub FN", <<<<"Sub FN", 0, 4>>, <<"Sys FN", 4, 10>>>>),
              Word("SN", <<<<"SN", 0, 12>>>>)>>),
            Names({"Mode", "SN Length", "Valid PDU"}), PduBytes >>) >>
PdcpDlCipher_v1_Subpkt_195v24 ==
    << LtePdcpDlCipherDataPdu_SubpktPayload_v24, Reads({"Num PDUs"}),
       Names({"SRB Cipher Algorithm", "DRB Cipher Algorithm"}),
       ForEach("Num PDUs",
         << LtePdcpDlCipherDataPdu_Data_v24, Reads({"Logged Bytes"}),
            Split(<<Word("Cfg Idx", <<<<"Cfg Idx", 0, 6>>, <<"Mode", 6, 1>>,
                  <<"SN Length", 7, 2>>, <<"Bearer ID", 9, 5>>,
                  <<"Valid PDU", 14, 1>>>>),
              Word("Sub FN", <<<<"Sub FN", 0, 4>>, <<"Sys FN", 4, 10>>>>),
              Word("SN", <<<<"SN", 0, 12>>>>)>>),
            Names({"Mode", "SN Length", "Valid PDU"}), PduBytes >>) >>
PdcpDlCipher_v1_Subpkt_195v40 ==
    << LtePdcpDlCipherDataPdu_SubpktPayload_v40, Reads({"Num PDUs"}),
       Names({"SRB Cipher Algorithm", "DRB Cipher Algorithm"}),
       ForEach("Num PDUs",
         << LtePdcpDlCipherDataPdu_Data_v40, Reads({"Logged Bytes"}),
            Split(<<Word("Cfg Idx", <<<<"Cfg Idx", 0, 6>>, <<"Mode", 6, 1>>,
                  <<"SN Length", 7, 2>>, <<"Bearer ID", 9, 5>>,
                  <<"Valid PDU", 14, 1>>>>),
              Word("Sub FN", <<<<"Sub FN", 0, 4>>, <<"Sys FN", 4, 10>>,
                  <<"Reserved FN", 14, 2>>>>)>>),
            Names({"Mode", "SN Length", "Valid PDU"}), PduBytes >>) >>
PdcpDlCipher_v1_Subpkt ==
    << LtePdcpDlCipherDataPdu_SubpktHeader_v1,
       Reads({"Subpacket ID", "Subpacket Version"}), Sized("Subpacket Size"),
       Either(<<
         PdcpDlCipher_v1_Subpkt_195v1, PdcpDlCipher_v1_Subpkt_195v3,
         PdcpDlCipher_v1_Subpkt_195v24, PdcpDlCipher_v1_Subpkt_195v40, <<>>>>),
       Realign >>
PdcpDlCipher_v1 ==
    << LtePdcpDlCipherDataPdu_Fmt, Reads({"Version", "Num Subpkts"}),
       ForEach("Num Subpkts", PdcpDlCipher_v1_Subpkt) >>
-----------------------------------------------------------------------------
(* _decode_lte_pdcp_ul_cipher_data_pdu_payload *)

LtePdcpUlCipherDataPdu_Fmt == Fmt(4, <<<<"Version", 1>>, <<"Num Subpkts", 1>>>>, {})
LtePdcpUlCipherDataPdu_SubpktHeader_v1 == Fmt(4, <<<<"Subpacket ID", 1>>,
      <<"Subpacket Version", 1>>, <<"Subpacket Size", 2>>>>,
    {})
LtePdcpUlCipherDataPdu_SubpktPayload_v26 == Fmt(36, <<<<"SRB Cipher Algorithm", 1>>,
      <<"DRB Cipher Algorithm", 1>>, <<"Num PDUs", 2>>>>,
    {})
LtePdcpUlCipherDataPdu_Data_v26 == Fmt(13, <<<<"Cfg Idx", 2>>, <<"Logged Bytes", 2>>,
      <<"Sub FN", 2>>, <<"SN", 4>>>>,
    {"Mode", "SN Length", "Bearer ID", "Valid PDU", "Sys FN"})
LtePdcpUlCipherDataPdu_SubpktPayload_v3 == Fmt(36, <<<<"SRB Cipher Algorithm", 1>>,
      <<"DRB Cipher Algorithm", 1>>, <<"Num PDUs", 2>>>>,
    {"SRB Ciphering Keys", "DRB Ciphering Keys"})
LtePdcpUlCipherDataPdu_Data_v3 == Fmt(13, <<<<"Cfg Idx", 2>>, <<"Logged Bytes", 2>>,
      <<"Sub FN", 2>>, <<"SN", 4>>>>,
    {"Mode", "SN Length", "Bearer ID", "Valid PDU", "Sys FN"})
LtePdcpUlCipherDataPdu_SubpktPayload_v1 == Fmt(36, <<<<"SRB Cipher Algorithm", 1>>,
      <<"DRB Cipher Algorithm", 1>>, <<"Num PDUs", 2>>>>,
    {})
LtePdcpUlCipherDataPdu_Data_v1 == Fmt(12, <<<<"Cfg Idx", 2>>, <<"Logged Bytes", 2>>,
      <<"Sub FN", 2>>, <<"SN", 4>>>>,
    {"Mode", "SN Length", "Bearer ID", "Valid PDU", "Sys FN"})
LtePdcpUlCipherDataPdu_SubpktPayload_v40 == Fmt(36, <<<<"SRB Cipher Algorithm", 1>>,
      <<"DRB Cipher Algorithm", 1>>, <<"Num PDUs", 2>>>>,
    {})
LtePdcpUlCipherDataPdu_Data_v40 == Fmt(13, <<<<"Cfg Idx", 2>>, <<"Logged Bytes", 2>>,
      <<"Sub FN", 2>>>>,
    {"Mode", "SN Length", "Bearer ID", "Valid PDU", "Sys FN"})

PdcpUlCipher_v1_Subpkt_195v26 ==
    << LtePdcpUlCipherDataPdu_SubpktPayload_v26, Reads({"Num PDUs"}),
       Names({"SRB Cipher Algorithm", "DRB Cipher Algorithm"}),
       ForEach("Num PDUs",
         << LtePdcpUlCipherDataPdu_Data_v26, Reads({"Logged Bytes"}),
            Split(<<Word("Cfg Idx", <<<<"Cfg Idx", 0, 6>>, <<"Mode", 6, 1>>,
                  <<"SN Length", 7, 2>>, <<"Bearer ID", 9, 5>>,
                  <<"Valid PDU", 14, 1>>>>),
              Word("Sub FN", <<<<"Sub FN", 0, 4>>, <<"Sys FN", 4, 10>>>>),
              Word("SN", <<<<"SN", 0, 12>>>>)>>),
            Names({"Mode", "SN Length", "Valid PDU"}), PduBytes >>) >>
PdcpUlCipher_v1_Subpkt_195v3 ==
    << LtePdcpUlCipherDataPdu_SubpktPayload_v3, Reads({"Num PDUs"}),
       Names({"SRB Cipher Algorithm", "DRB Cipher Algorithm"}),
       ForEach("Num PDUs",
         << LtePdcpUlCipherDataPdu_Data_v3, Reads({"Logged Bytes"}),
            Split(<<Word("Cfg Idx", <<<<"Cfg Idx", 0, 6>>, <<"Mode", 6, 1>>,
                  <<"SN Length", 7, 2>>, <<"Bearer ID", 9, 5>>,
                  <<"Valid PDU", 14, 1>>>>),
              Word("Sub FN", <<<<"Sub FN", 0, 4>>, <<"Sys FN", 4, 10>>>>),
              Word("SN", <<<<"SN", 0, 12>>>>)>>),
            Names({"Mode", "SN Length", "Valid PDU"}), PduBytes >>) >>
PdcpUlCipher_v1_Subpkt_195v1 ==
    << LtePdcpUlCipherDataPdu_SubpktPayload_v1, Reads({"Num PDUs"}),
       Names({"SRB Cipher Algorithm", "DRB Cipher Algorithm"}),
       ForEach("Num PDUs",
         << LtePdcpUlCipherDataPdu_Data_v1, Reads({"Logged Bytes"}),
            Split(<<Word("Cfg Idx", <<<<"Cfg Idx", 0, 6>>, <<"Mode", 6, 1>>,
                  <<"SN Length", 7, 2>>, <<"Bearer ID", 9, 5>>,
                  <<"Valid PDU", 14, 1>>>>),
              Word("Sub FN", <<<<"Sub FN", 0, 4>>, <<"Sys FN", 4, 10>>>>),
              Word("SN", <<<<"SN", 0, 12>>>>)>>),
            Names({"Mode", "SN Length", "Valid PDU"}), PduBytes >>) >>
PdcpUlCipher_v1_Subpkt_195v40 ==
    << LtePdcpUlCipherDataPdu_SubpktPayload_v40, Reads({"Num PDUs"}),
       Names({"SRB Cipher Algorithm", "DRB Cipher Algorithm"}),
       ForEach("Num PDUs",
         << LtePdcpUlCipherDataPdu_Data_v40, Reads({"Logged Bytes"}),
            Split(<<Word("Cfg Idx", <<<<"Cfg Idx", 0, 6>>, <<"Mode", 6, 1>>,
                  <<"SN Length", 7, 2>>, <<"Bearer ID", 9, 5>>,
                  <<"Valid PDU", 14, 1>>>>),
              Word("Sub FN", <<<<"Sub FN", 0, 4>>, <<"Sys FN", 4, 10>>>>)>>),
            Names({"Mode", "SN Length", "Valid PDU"}), PduBytes >>) >>
PdcpUlCipher_v1_Subpkt ==
    << LtePdcpUlCipherDataPdu_SubpktHeader_v1,
       Reads({"Subpacket ID", "Subpacket Version"}), Sized("Subpacket Size"),
       Either(<<
         PdcpUlCipher_v1_Subpkt_195v26, PdcpUlCipher_v1_Subpkt_195v3,
         PdcpUlCipher_v1_Subpkt_195v1, PdcpUlCipher_v1_Subpkt_195v40, <<>>>>),
       Realign >>
PdcpUlCipher_v1 ==
    << LtePdcpUlCipherDataPdu_Fmt, Reads({"Version", "Num Subpkts"}),
       ForEach("Num Subpkts", PdcpUlCipher_v1_Subpkt) >>
-----------------------------------------------------------------------------
(* _decode_lte_rlc_ul_config_log_packet_subpkt *)

LteRlcUlConfigLogPacketFmt == Fmt(4, <<<<"Version", 1>>, <<"Num SubPkt", 1>>>>, {})
LteRlcUlConfigLogPacket_SubpktHeader == Fmt(4, <<<<"Subpacket ID", 1>>,
      <<"Subpacket Version", 1>>, <<"Subpacket Size", 2>>>>,
    {})
LteRlcUlConfigLogPacket_SubpktPayload == Fmt(2, <<<<"Reason", 1>>,
      <<"Max Size RBs", 1>>>>,
    {})
LteRlcUlConfigLogPacket_Subpkt_ReleasedRB_Header == Fmt(1, <<
      <<"Number of Released RBs", 1>>>>,
    {})
LteRlcUlConfigLogPacket_Subpkt_ReleasedRB_Fmt == Fmt(1, <<>>, {})
LteRlcUlConfigLogPacket_Subpkt_AddedModifiedRB_Header == Fmt(1, <<
      <<"Number of Added/Modified RBs", 1>>>>,
    {})
LteRlcUlConfigLogPacket_Subpkt_AddedModifiedRB_Fmt == Fmt(2, <<<<"Action", 1>>>>, {})
LteRlcUlConfigLogPacket_Subpkt_ActiveRB_Header == Fmt(1, <<
      <<"Number of Active RBs", 1>>>>,
    {})
LteRlcUlConfigLogPacket_Subpkt_ActiveRB_Fmt == Fmt(14, <<<<"RB Mode", 1>>,
      <<"RB Type", 1>>>>,
    {"RLCUL CFG", "SN Length"})
LteRlcUlConfigLogPacket_SubpktPayload_v3 == Fmt(2, <<<<"Reason", 1>>,
      <<"Max Size RBs", 1>>>>,
    {})
LteRlcUlConfigLogPacket_Subpkt_ReleasedRB_Header_v3 == Fmt(1, <<
      <<"Number of Released RBs", 1>>>>,
    {})
LteRlcUlConfigLogPacket_Subpkt_ReleasedRB_Fmt_v3 == Fmt(1, <<>>, {})
LteRlcUlConfigLogPacket_Subpkt_AddedModifiedRB_Header_v3 == Fmt(1, <<
      <<"Number of Added/Modified RBs", 1>>>>,
    {})
LteRlcUlConfigLogPacket_Subpkt_AddedModifiedRB_Fmt_v3 == Fmt(2, <<<<"Action", 1>>>>,
    {})
LteRlcUlConfigLogPacket_Subpkt_ActiveRB_Header_v3 == Fmt(1, <<
      <<"Number of Active RBs", 1>>>>,
    {})
LteRlcUlConfigLogPacket_Subpkt_ActiveRB_Fmt_v3 == Fmt(15, <<<<"RB Mode", 1>>,
      <<"RB Type", 1>>>>,
    {"RLCUL CFG"})

RlcUlConfig_v1_Subpkt_69v1 ==
    << LteRlcUlConfigLogPacket_SubpktPayload, Reads({"Max Size RBs"}),
       Names({"Reason"}), LteRlcUlConfigLogPacket_Subpkt_ReleasedRB_Header,
       Reads({"Number of Released RBs"}),
       ForEach("Number of Released RBs",
         << LteRlcUlConfigLogPacket_Subpkt_ReleasedRB_Fmt >>),
       Pad(ArraySlots(1)), LteRlcUlConfigLogPacket_Subpkt_AddedModifiedRB_Header,
       Reads({"Number of Added/Modified RBs"}),
       ForEach("Number of Added/Modified RBs",
         << LteRlcUlConfigLogPacket_Subpkt_AddedModifiedRB_Fmt, Names({"Action"}) >>),
       Pad(ArraySlots(2)), LteRlcUlConfigLogPacket_Subpkt_ActiveRB_Header,
       Reads({"Number of Active RBs"}),
       ForEach("Number of Active RBs",
         << LteRlcUlConfigLogPacket_Subpkt_ActiveRB_Fmt,
            Sets({"RLCUL CFG", "SN Length"}), Names({"RB Mode", "RB Type"}) >>) >>
RlcUlConfig_v1_Subpkt_69v3 ==
    << LteRlcUlConfigLogPacket_SubpktPayload_v3, Reads({"Max Size RBs"}),
       Names({"Reason"}), LteRlcUlConfigLogPacket_Subpkt_ReleasedRB_Header_v3,
       Reads({"Number of Released RBs"}),
       ForEach("Number of Released RBs",
         << LteRlcUlConfigLogPacket_Subpkt_ReleasedRB_Fmt_v3 >>),
       Pad(ArraySlots(1)), LteRlcUlConfigLogPacket_Subpkt_AddedModifiedRB_Header_v3,
       Reads({"Number of Added/Modified RBs"}),
       ForEach("Number of Added/Modified RBs",
         << LteRlcUlConfigLogPacket_Subpkt_AddedModifiedRB_Fmt_v3, Names({"Action"}) >>),
       Pad(ArraySlots(2)), LteRlcUlConfigLogPacket_Subpkt_ActiveRB_Header_v3,
       Reads({"Number of Active RBs"}),
       ForEach("Number of Active RBs",
         << LteRlcUlConfigLogPacket_Subpkt_ActiveRB_Fmt_v3, Sets({"RLCUL CFG"}),
            Names({"RB Mode", "RB Type"}) >>) >>
RlcUlConfig_v1_Subpkt ==
    << LteRlcUlConfigLogPacket_SubpktHeader,
       Reads({"Subpacket ID", "Subpacket Version"}), Sized("Subpacket Size"),
       Either(<<
         RlcUlConfig_v1_Subpkt_69v1, RlcUlConfig_v1_Subpkt_69v3, <<>>>>),
       Realign >>
RlcUlConfig_v1 ==
    << LteRlcUlConfigLogPacketFmt, Reads({"Version", "Num SubPkt"}),
       ForEach("Num SubPkt", RlcUlConfig_v1_Subpkt) >>
-----------------------------------------------------------------------------
(* _decode_lte_rlc_dl_config_log_packet_subpkt *)

LteRlcDlConfigLogPacketFmt == Fmt(4, <<<<"Version", 1>>, <<"Num SubPkt", 1>>>>, {})
LteRlcDlConfigLogPacket_SubpktHeader == Fmt(4, <<<<"Subpacket ID", 1>>,
      <<"Subpacket Version", 1>>, <<"Subpacket Size", 2>>>>,
    {})
LteRlcDlConfigLogPacket_SubpktPayload == Fmt(2, <<<<"Reason", 1>>,
      <<"Max Size RBs", 1>>>>,
    {})
LteRlcDlConfigLogPacket_Subpkt_ReleasedRB_Header == Fmt(1, <<
      <<"Number of Released RBs", 1>>>>,
    {})
LteRlcDlConfigLogPacket_Subpkt_ReleasedRB_Fmt == Fmt(1, <<>>, {})
LteRlcDlConfigLogPacket_Subpkt_AddedModifiedRB_Header == Fmt(1, <<
      <<"Number of Added/Modified RBs", 1>>>>,
    {})
LteRlcDlConfigLogPacket_Subpkt_AddedModifiedRB_Fmt == Fmt(2, <<<<"Action", 1>>>>, {})
LteRlcDlConfigLogPacket_Subpkt_ActiveRB_Header == Fmt(1, <<
      <<"Number of Active RBs", 1>>>>,
    {})
LteRlcDlConfigLogPacket_Subpkt_ActiveRB_Fmt == Fmt(9, <<<<"RB Mode", 1>>,
      <<"RB Type", 1>>>>,
    {"RLCDL CFG", "SN Length"})
LteRlcDlConfigLogPacket_SubpktPayload_v2 == Fmt(2, <<<<"Reason", 1>>,
      <<"Max Size RBs", 1>>>>,
    {})
LteRlcDlConfigLogPacket_Subpkt_ReleasedRB_Header_v2 == Fmt(1, <<
      <<"Number of Released RBs", 1>>>>,
    {})
LteRlcDlConfigLogPacket_Subpkt_ReleasedRB_Fmt_v2 == Fmt(1, <<>>, {})
LteRlcDlConfigLogPacket_Subpkt_AddedModifiedRB_Header_v2 == Fmt(1, <<
      <<"Number of Added/Modified RBs", 1>>>>,
    {})
LteRlcDlConfigLogPacket_Subpkt_AddedModifiedRB_Fmt_v2 == Fmt(2, <<<<"Action", 1>>>>,
    {})
LteRlcDlConfigLogPacket_Subpkt_ActiveRB_Header_v2 == Fmt(1, <<
      <<"Number of Active RBs", 1>>>>,
    {})
LteRlcDlConfigLogPacket_Subpkt_ActiveRB_Fmt_v2 == Fmt(10, <<<<"RB Mode", 1>>,
      <<"RB Type", 1>>, <<"SN Length", 1>>>>,
    {"RLCDL CFG"})

RlcDlConfig_v1_Subpkt_64v1 ==
    << LteRlcDlConfigLogPacket_SubpktPayload, Reads({"Max Size RBs"}),
       Names({"Reason"}), LteRlcDlConfigLogPacket_Subpkt_ReleasedRB_Header,
       Reads({"Number of Released RBs"}),
       ForEach("Number of Released RBs",
         << LteRlcDlConfigLogPacket_Subpkt_ReleasedRB_Fmt >>),
       Pad(ArraySlots(1)), LteRlcDlConfigLogPacket_Subpkt_AddedModifiedRB_Header,
       Reads({"Number of Added/Modified RBs"}),
       ForEach("Number of Added/Modified RBs",
         << LteRlcDlConfigLogPacket_Subpkt_AddedModifiedRB_Fmt, Names({"Action"}) >>),
       Pad(ArraySlots(2)), LteRlcDlConfigLogPacket_Subpkt_ActiveRB_Header,
       Reads({"Number of Active RBs"}),
       ForEach("Number of Active RBs",
         << LteRlcDlConfigLogPacket_Subpkt_ActiveRB_Fmt,
            Sets({"RLCDL CFG", "SN Length"}), Names({"RB Mode", "RB Type"}) >>) >>
RlcDlConfig_v1_Subpkt_64v2 ==
    << LteRlcDlConfigLogPacket_SubpktPayload_v2, Reads({"Max Size RBs"}),
       Names({"Reason"}), LteRlcDlConfigLogPacket_Subpkt_ReleasedRB_Header_v2,
       Reads({"Number of Released RBs"}),
       ForEach("Number of Released RBs",
         << LteRlcDlConfigLogPacket_Subpkt_ReleasedRB_Fmt_v2 >>),
       Pad(ArraySlots(1)), LteRlcDlConfigLogPacket_Subpkt_AddedModifiedRB_Header_v2,
       Reads({"Number of Added/Modified RBs"}),
       ForEach("Number of Added/Modified RBs",
         << LteRlcDlConfigLogPacket_Subpkt_AddedModifiedRB_Fmt_v2, Names({"Action"}) >>),
       Pad(ArraySlots(2)), LteRlcDlConfigLogPacket_Subpkt_ActiveRB_Header_v2,
       Reads({"Number of Active RBs"}),
       ForEach("Number of Active RBs",
         << LteRlcDlConfigLogPacket_Subpkt_ActiveRB_Fmt_v2, Sets({"RLCDL CFG"}),
            Names({"RB Mode", "RB Type"}) >>) >>
RlcDlConfig_v1_Subpkt ==
    << LteRlcDlConfigLogPacket_SubpktHeader,
       Reads({"Subpacket ID", "Subpacket Version"}), Sized("Subpacket Size"),
       Either(<<
         RlcDlConfig_v1_Subpkt_64v1, RlcDlConfig_v1_Subpkt_64v2, <<>>>>),
       Realign >>
RlcDlConfig_v1 ==
    << LteRlcDlConfigLogPacketFmt, Reads({"Version", "Num SubPkt"}),
       ForEach("Num SubPkt", RlcDlConfig_v1_Subpkt) >>

-----------------------------------------------------------------------------
(* The decoders of this module, by name *)

LinkLayerDecoders == [
    MacConfig_v1 |-> MacConfig_v1,
    PdcpDlConfig_v1 |-> PdcpDlConfig_v1,
    PdcpUlConfig_v1 |-> PdcpUlConfig_v1,
    PdcpDlCipher_v1 |-> PdcpDlCipher_v1,
    PdcpUlCipher_v1 |-> PdcpUlCipher_v1,
    RlcUlConfig_v1 |-> RlcUlConfig_v1,
    RlcDlConfig_v1 |-> RlcDlConfig_v1]
=============================================================================
