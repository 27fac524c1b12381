------------------------- MODULE MCLogPacketDecoder -------------------------
(***************************************************************************)
(* The decoders of the code, executed with every choice of branches and up *)
(* to MaxCount records, streams ... in each list.                          *)
(***************************************************************************)
EXTENDS LogPacketDecoder, PdschLayouts, PdcchLayouts, PhyUplinkLayouts,
        MeasurementLayouts, LinkLayerLayouts

AllDecoders ==
    PdschDecoders @@ PdcchDecoders @@ PhyUplinkDecoders @@ MeasurementDecoders
        @@ LinkLayerDecoders

Select(names) == [d \in names |-> AllDecoders[d]]

\* A field is looked up that no table of the list has
LookUpNothing == {"PdschStat_v40", "PdcpUlConfig_v1"}

\* A part reaches beyond the word that the table declares
ReachBeyondTheWord ==
    {"PdschDemapper_v103", "PdschDemapper_v104", "PdschDemapper_v122", "PdschDemapper_v123",
     "PdschDemapper_v144", "PuschCsf_v142"}

\* A bit of a word is given to two fields
GiveBitsTwice ==
    {"PdschDecoding_v124", "PuschTx_v102", "PuschTx_v122", "PuschTx_v124",
     "PuschTx_v144_145"}

\* A mask has holes, 0x15 for four bits and 47 for six, or is one high bit, 4096 for
\* twelve; or the word is multiplied by it
MaskWithHoles ==
    {"PuschTx_v23", "PuschTx_v24", "PuschTx_v26", "PuschTx_v102", "PuschTx_v122",
     "PuschTx_v124", "PuschTx_v144_145", "PdschStat_v34", "PdschStat_v36",
     "PdschStat_v37", "PdschDemapper_v122", "PdschDemapper_v123"}

SoundDecoders ==
    Select(DOMAIN AllDecoders
               \ (LookUpNothing \cup ReachBeyondTheWord \cup GiveBitsTwice \cup MaskWithHoles))

\* The 16 bytes that are declared as an integer (keys, payload) get no value of
\* the packet; the others are bits that the decoder skips
LeftOut ==
    ({"PdcchPhich_v5", "PdcchPhich_v25", "PdcchPhich_v33", "PdcchPhich_v34",
      "PdcchPhich_v42"} \X {"SPS Grant Type"})
    \cup ({"PdcpDlCipher_v1", "PdcpUlCipher_v1"}
             \X {"SRB Ciphering Keys", "DRB Ciphering Keys"})
    \cup ({"PuschCsf_v102"} \X {"Csi Meas Set Index", "Num CSIrs Ports"})
    \cup {<<"PdschDecoding_v105", "Effective Code Rate Data">>,
          <<"PdschDecoding_v27", "Subframe Number">>}

\* The decision is that of the CRC; and two subpackets take a value from the word of
\* another, although the table of the second declares a word for it (RSRQ)
GivenTogether ==
    ({"PdschStat_v5", "PdschStat_v16", "PdschStat_v24", "PdschStat_v32"}
        \X {{"CRC Result", "ACK/NACK Decision"}})
    \cup {<<"ServingCell_v1", {"RSSI", "RSSI Rx[1]"}>>,
          <<"ServingCell_v1", {"RSRQ", "RSRQ Rx[0]"}>>}

\* The decoder that the violation is shown with
PuschTx_v23_Decoder == Select({"PuschTx_v23"})

-----------------------------------------------------------------------------
\* The lists that a decoder reaches from those in new, and those in old
RECURSIVE ListsFrom(_, _)
ListsFrom(new, old) ==
    IF new = {} THEN old
    ELSE LET known == new \cup old
         IN  ListsFrom(UNION {Following(list) : list \in new} \ known, known)

ReachedLists ==
    UNION {{d} \X ListsFrom({Opened(Layouts[d])}, {}) : d \in DOMAIN Layouts}

RECURSIVE RecordsFrom(_, _)
RecordsFrom(new, old) ==
    IF new = {} THEN old
    ELSE LET known   == new \cup old
             next(r) == {<<r[1], r[2], l, r[4] + BytesOf(r[3])>> : l \in Following(r[3])}
         IN  RecordsFrom(UNION {next(r) : r \in new} \ known, known)

ReachedRecords ==
    RecordsFrom({<<e[1], ItemOf(e[2]).body, Opened(ItemOf(e[2]).body), 0>> :
                 e \in {l \in ReachedLists : IsSlotted(l[2])}}, {})

\* Hypotheses of the theorems of Decoders_proofs, true of the decoders of the code.  The
\* others say of each of these lists what the invariants say of the innermost one, and
\* the run reaches all of these lists
ASSUME MCIsClosed   == IsClosed(ReachedLists)
ASSUME MCAreRecords == AreRecords(ReachedRecords, ReachedLists)
=============================================================================
