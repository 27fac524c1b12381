----------------------------- MODULE LogConfig ------------------------------
(***************************************************************************)
(* The commands that tell a modem what to log (log_config.cpp, and the     *)
(* functions of dm_collector_c.cpp that put them in a sequence).  A type   *)
(* id is an equipment id, its upper four bits, and an item.  One command   *)
(* sets the items of one equipment id by a mask of bits, and leaves the    *)
(* other equipment ids as they are.                                        *)
(*                                                                         *)
(* Names ending in Mutant are the mutations the checks use.                *)
(***************************************************************************)
EXTENDS Integers, Sequences, FiniteSets, FiniteSetsExt

ModemDebugId == 8171            \* 0x1feb, logged by a command of its own

Item        == 0..4095
EquipId(id) == (id \div 4096) % 16
ItemId(id)  == id % 4096

TypeId(equip, item) == 4096 * equip + item

-----------------------------------------------------------------------------
(* encode_log_config *)

Simple(op) == [op |-> op, equip |-> 0, nItems |-> 0, mask |-> {}]
Disable      == Simple("DISABLE")
DisableDebug == Simple("DISABLE_DEBUG")
DebugWcdma   == Simple("DEBUG_WCDMA_L1")

\* The highest item of an equipment id that is not computed
FixedHighest ==
    [e \in {1, 4, 7, 11} |-> CASE e = 1 -> 4051 [] e = 4 -> 2336 [] e = 7 -> 2902
                                [] e = 11 -> 4095]

HighestItem(equip, ids) ==
    IF equip \in DOMAIN FixedHighest THEN FixedHighest[equip]
    ELSE Max({ItemId(i) : i \in ids})

\* The mask is set to <<byte, bit>>, as far as its bytes go; the ids have one
\* equipment id
SetMask(ids) ==
    LET equip   == EquipId(CHOOSE i \in ids : TRUE)
        highest == HighestItem(equip, ids)
        bytes   == (highest \div 8) + 1
    IN  [op |-> "SET_MASK", equip |-> equip, nItems |-> highest + 1,
         mask |-> {b \in {<<ItemId(i) \div 8, ItemId(i) % 8>> : i \in ids} : b[1] < bytes}]

\* sort_type_ids: the ids of each equipment id, in order; the k-th one has k - 1
\* before it
EquipsOf(ids) == {EquipId(i) : i \in ids}
Before(e, ids) == Cardinality({f \in EquipsOf(ids) : f < e})

SortTypeIds(ids) ==
    [k \in 1..Cardinality(EquipsOf(ids)) |-> {i \in ids : Before(EquipId(i), ids) = k - 1}]

\* An id of the table of types whose bit is within the mask.  Of that table all
\* are, but for the one that has a command of its own
Maskable(id) ==
    /\ id \in 0..65535
    /\ EquipId(id) \in DOMAIN FixedHighest => ItemId(id) <= FixedHighest[EquipId(id)]

TypesFit(ids) == \A id \in ids \ {ModemDebugId} : Maskable(id)

-----------------------------------------------------------------------------
(* generate_log_config_msgs, ..._headers and dm_collector_c_generate_diag_cfg *)

\* A command for the items of the first equipment id only
OneEquipMutant(ids) ==
    LET groups == SortTypeIds(ids \ {ModemDebugId})
    IN  (IF ModemDebugId \in ids THEN <<DebugWcdma>> ELSE <<>>)
        \o [k \in DOMAIN groups \cap {1} |-> SetMask(groups[k])]

LogConfigMsgs(ids) ==
    LET groups == SortTypeIds(ids \ {ModemDebugId})
    IN  (IF ModemDebugId \in ids THEN <<DebugWcdma>> ELSE <<>>)
        \o [k \in DOMAIN groups |-> SetMask(groups[k])]

\* The headers and the end of Diag.cfg ask for versions and the like: twelve
\* commands and one, of no effect on what is logged
Headers == [k \in 1..12 |-> Simple("DIAG_BEGIN")]
Ends    == <<Simple("DIAG_END")>>

\* What was logged before is turned off at last
DisableLastMutant(ids) == Headers \o LogConfigMsgs(ids) \o <<DisableDebug, Disable>> \o Ends

DiagCfg(ids) == Headers \o <<DisableDebug, Disable>> \o LogConfigMsgs(ids) \o Ends

-----------------------------------------------------------------------------
(* The modem, as the commands above suppose it to be *)

\* The items that a mask names, of those it says it has
ItemsOf(cmd) == {n \in {8 * b[1] + b[2] : b \in cmd.mask} : n < cmd.nItems}

\* What a modem logs (m.ids), and whether it sends debug messages
Obeyed(m, cmd) ==
    CASE cmd.op = "DISABLE"        -> [m EXCEPT !.ids = {}]
      [] cmd.op = "DISABLE_DEBUG"  -> [m EXCEPT !.debug = FALSE]
      [] cmd.op = "DEBUG_WCDMA_L1" -> [m EXCEPT !.debug = TRUE]
      [] cmd.op = "SET_MASK"       ->
            [m EXCEPT !.ids = {i \in @ : EquipId(i) # cmd.equip}
                                     \cup {TypeId(cmd.equip, n) : n \in ItemsOf(cmd)}]
      [] OTHER -> m

\* What it logs once it has obeyed one command after the other
ObeyedAll(m, cmds) ==
    LET after[k \in 0..Len(cmds)] == IF k = 0 THEN m ELSE Obeyed(after[k - 1], cmds[k])
    IN  after[Len(cmds)]

\* The modem logs ids, debug messages among them or not, and nothing else
LogsExactly(m, ids) ==
    /\ m.ids = ids \ {ModemDebugId}
    /\ m.debug <=> ModemDebugId \in ids
=============================================================================
