-------------------- MODULE AndroidDevDiagMonitor_proofs --------------------
(***************************************************************************)
(* Theorems about AndroidDevDiagMonitor, for every set of records, every   *)
(* size of a block and of a time stamp, and any number of deaths.          *)
(***************************************************************************)
EXTENDS AndroidDevDiagMonitor, Encoding_proofs

-----------------------------------------------------------------------------
(* That diag_revealer is never there twice.  The bound on the sum is not    *)
(* inductive: what makes it so is that run() starts the daemon when it has  *)
(* started the first instance and never again, and that the daemon, between *)
(* its look at ps and the restart, knows of every instance.                 *)

BeforeStart == pc \in {"config", "mkfifo", "start"}

RevealerInv ==
    /\ starting \in Nat /\ alive \in Nat
    /\ OneRevealer
    /\ BeforeStart => daemon = "none" /\ starting = 0 /\ alive = 0
    /\ daemon = "look" => starting = 0
    /\ daemon = "restart" => starting = 0 /\ alive = 0

(* What the invariant speaks of.                                           *)
LEMMA RevealerInvKept ==
  ASSUME RevealerInv, UNCHANGED <<pc, daemon, starting, alive>>
  PROVE  RevealerInv'
BY DEF RevealerInv, OneRevealer, BeforeStart

(* run() up to its loop.                                                   *)
LEMMA StartKeepsRevealerInv ==
  ASSUME RevealerInv,
         \/ \E ids \in EnableSets : EnableLog(ids)
         \/ GenerateDiagCfg \/ MakeFifo \/ StartAll \/ OpenFifo
  PROVE  RevealerInv'
<1>1. CASE \E ids \in EnableSets : EnableLog(ids)
  BY <1>1, RevealerInvKept DEF EnableLog, threadVars, revealerVars
<1>2. CASE GenerateDiagCfg
  BY <1>2 DEF GenerateDiagCfg, Goto, threadVars, revealerVars, RevealerInv, OneRevealer, BeforeStart
<1>3. CASE MakeFifo
  BY <1>3 DEF MakeFifo, Goto, threadVars, revealerVars, RevealerInv, OneRevealer, BeforeStart
<1>4. CASE StartAll
  <2>1. starting = 0 /\ alive = 0
    BY <1>4 DEF StartAll, RevealerInv, BeforeStart
  <2>2. starting' = 1 /\ alive' = 0 /\ daemon' = "sleep" /\ pc' = "open"
    BY <1>4, <2>1 DEF StartAll, StartRevealer, Goto
  <2> QED BY <2>2 DEF RevealerInv, OneRevealer, BeforeStart
<1>5. CASE OpenFifo
  BY <1>5 DEF OpenFifo, Goto, threadVars, revealerVars, RevealerInv, OneRevealer, BeforeStart
<1> QED BY <1>1, <1>2, <1>3, <1>4, <1>5

(* The loop of run().                                                      *)
LEMMA ReadKeepsRevealerInv ==
  ASSUME RevealerInv,
         \/ \E n \in 0..BlockSize : ReadFifo(n)
         \/ InProcess \/ Processed \/ ReceiveLogPacket \/ Exit
  PROVE  RevealerInv'
<1>1. /\ UNCHANGED <<daemon, starting, alive>>
      /\ ~BeforeStart /\ ~BeforeStart'
  <2>1. CASE \E n \in 0..BlockSize : ReadFifo(n)
    BY <2>1 DEF ReadFifo, Goto, threadVars, revealerVars, BeforeStart
  <2>2. CASE InProcess
    BY <2>2 DEF InProcess, threadVars, revealerVars, BeforeStart
  <2>3. CASE Processed
    BY <2>3 DEF Processed, Goto, threadVars, revealerVars, BeforeStart
  <2>4. CASE ReceiveLogPacket \/ Exit
    BY <2>4 DEF ReceiveLogPacket, Exit, Goto, threadVars, revealerVars, BeforeStart
  <2> QED BY <2>1, <2>2, <2>3, <2>4
<1> QED BY <1>1 DEF RevealerInv, OneRevealer

(* The daemon, and the thread that stops it.                               *)
LEMMA DaemonKeepsRevealerInv ==
  ASSUME RevealerInv, Daemon \/ StopDaemon \/ PauseRaises
  PROVE  RevealerInv'
<1>1. CASE WakeUp
  BY <1>1 DEF WakeUp, revealerVars, RevealerInv, OneRevealer, BeforeStart
<1>2. CASE Look
  BY <1>2 DEF Look, revealerVars, RevealerInv, OneRevealer, BeforeStart
<1>3. CASE Restart
  <2>1. starting = 0 /\ alive = 0 /\ ~BeforeStart
    BY <1>3 DEF Restart, RevealerInv
  <2>2. starting' = 1 /\ alive' = 0 /\ daemon' = "sleep" /\ pc' = pc
    BY <1>3, <2>1 DEF Restart, StartRevealer
  <2> QED BY <2>1, <2>2 DEF RevealerInv, OneRevealer, BeforeStart
<1>4. CASE StopDaemon \/ PauseRaises
  BY <1>4, RevealerInvKept DEF StopDaemon, PauseRaises, revealerVars
<1> QED BY <1>1, <1>2, <1>3, <1>4 DEF Daemon

(* diag_revealer.                                                          *)
LEMMA DeathKeepsRevealerInv ==
  ASSUME RevealerInv, Die, UNCHANGED <<pc, threadVars>>
  PROVE  RevealerInv'
BY DEF Die, threadVars, RevealerInv, OneRevealer, BeforeStart

LEMMA RevealerKeepsRevealerInv ==
  ASSUME RevealerInv, Revealer
  PROVE  RevealerInv'
<1>1. CASE Appear
  BY <1>1 DEF Appear, threadVars, RevealerInv, OneRevealer, BeforeStart
<1>2. CASE DieBetweenRecords
  BY <1>2, DeathKeepsRevealerInv DEF DieBetweenRecords
<1>3. ASSUME NEW r \in Records, WriteRecord(r)
      PROVE  RevealerInv'
  BY <1>3, RevealerInvKept DEF WriteRecord, threadVars, revealerVars
<1>4. ASSUME NEW r \in Records, NEW n \in 1..(Len(Written(r)) - 1), DieInRecord(r, n)
      PROVE  RevealerInv'
  BY <1>4, DeathKeepsRevealerInv DEF DieInRecord
<1> QED BY <1>1, <1>2, <1>3, <1>4 DEF Revealer

(* A step of the system.                                                   *)
LEMMA RevealerInvStep ==
  ASSUME RevealerInv, [AndroidNext]_vars
  PROVE  RevealerInv'
<1>1. CASE AndroidNext
  BY <1>1, StartKeepsRevealerInv, ReadKeepsRevealerInv, DaemonKeepsRevealerInv,
     RevealerKeepsRevealerInv DEF AndroidNext, Run
<1>2. CASE UNCHANGED vars
  BY <1>2, RevealerInvKept DEF vars, threadVars, revealerVars
<1> QED BY <1>1, <1>2

(* diag_revealer, which run() and the daemon start and which may die at any *)
(* time, is never there twice.                                              *)
THEOREM AndroidOneRevealer == AndroidSpec => []OneRevealer
<1>1. AndroidInit => RevealerInv
  BY DEF AndroidInit, RevealerInv, OneRevealer, BeforeStart
<1>2. RevealerInv /\ [AndroidNext]_vars => RevealerInv'
  BY RevealerInvStep
<1>3. RevealerInv => OneRevealer
  BY DEF RevealerInv
<1> QED BY <1>1, <1>2, <1>3, PTL DEF AndroidSpec
-----------------------------------------------------------------------------
(* That the modem logs what was asked for.  What is asked may change only   *)
(* before Diag.cfg is written, and no instance of diag_revealer appears     *)
(* before that; the modem forgets what it logged before the first one.  The *)
(* Diag.cfg may be one from before, when nothing is asked.                  *)

ConfigInv ==
    /\ modem \in ModemState
    /\ typeIds \in SUBSET Nat /\ TypesFit(typeIds)
    /\ cfgIds \in SUBSET Nat /\ TypesFit(cfgIds)
    /\ pc # "config" => cfgIds = typeIds \/ typeIds = {}
    /\ ModemLogsWhatIsAsked

(* What this invariant speaks of.                                          *)
LEMMA ConfigInvKept ==
  ASSUME ConfigInv, UNCHANGED <<typeIds, cfgIds, alive, modem>>, pc = "config" <=> pc' = "config"
  PROVE  ConfigInv'
BY DEF ConfigInv, ModemLogsWhatIsAsked

(* The ids of the names that are enabled are ids of the table.             *)
LEMMA EnableLogKeepsConfigInv ==
  ASSUME AndroidAssumption, RevealerInv, ConfigInv, NEW ids \in EnableSets, EnableLog(ids)
  PROVE  ConfigInv'
<1>1. ids \in SUBSET Nat /\ TypesFit(ids)
  BY DEF AndroidAssumption
<1>2. typeIds' \in SUBSET Nat /\ TypesFit(typeIds')
  <2>1. typeIds' = typeIds \cup ids
    BY DEF EnableLog
  <2> QED BY <1>1, <2>1 DEF ConfigInv, TypesFit
<1>3. pc' = "config" /\ modem' = modem /\ alive' = 0 /\ cfgIds' = cfgIds
  BY DEF EnableLog, RevealerInv, BeforeStart, revealerVars
<1> QED BY <1>2, <1>3 DEF ConfigInv, ModemLogsWhatIsAsked

(* An instance that appears has the modem obey the Diag.cfg: one for what is *)
(* asked, or from before.                                                   *)
LEMMA AppearKeepsConfigInv ==
  ASSUME RevealerInv, ConfigInv, Appear
  PROVE  ConfigInv'
<1>1. PICK c \in Configurations :
         c.ids = cfgIds /\ c.before = modem /\ modem' = c.after
  BY DEF Appear
<1>2. modem' = ObeyedAll(modem, DiagCfg(cfgIds))
  BY <1>1 DEF Configurations
<1>3. pc # "config" /\ cfgIds = IF typeIds = {} THEN cfgIds ELSE typeIds
  BY DEF RevealerInv, ConfigInv, BeforeStart, Appear
<1>4. typeIds' = typeIds /\ cfgIds' = cfgIds /\ pc' = pc
  BY DEF Appear, monitorVars
<1>5. modem' \in ModemState /\ LogsExactly(modem', cfgIds)
  BY <1>2, <1>3, DiagCfgIsObeyed DEF ConfigInv
<1> QED BY <1>3, <1>4, <1>5 DEF ConfigInv, ModemLogsWhatIsAsked

(* The other steps change neither what is asked nor the modem; an instance  *)
(* that dies leaves the modem as it is.                                    *)
LEMMA OthersKeepConfigInv ==
  ASSUME RevealerInv, ConfigInv,
         \/ Run \/ Exit \/ Daemon \/ StopDaemon \/ PauseRaises \/ DieBetweenRecords
         \/ \E r \in Records : \/ WriteRecord(r)
                                \/ \E n \in 1..(Len(Written(r)) - 1) : DieInRecord(r, n)
  PROVE  ConfigInv'
<1>1. CASE GenerateDiagCfg
  <2>1. /\ alive' = 0 /\ modem' = modem /\ typeIds' = typeIds
        /\ cfgIds' = IF typeIds = {} THEN cfgIds ELSE typeIds
    BY <1>1 DEF GenerateDiagCfg, RevealerInv, BeforeStart, revealerVars
  <2> QED BY <2>1 DEF ConfigInv, ModemLogsWhatIsAsked
<1>2. CASE \/ MakeFifo \/ OpenFifo \/ InProcess \/ Processed \/ ReceiveLogPacket \/ Exit
           \/ \E n \in 0..BlockSize : ReadFifo(n)
  <2>1. UNCHANGED <<alive, modem, typeIds, cfgIds>> /\ pc # "config" /\ pc' # "config"
    <3>1. CASE MakeFifo \/ OpenFifo
      BY <3>1 DEF MakeFifo, OpenFifo, Goto, monitorVars, revealerVars
    <3>2. CASE InProcess \/ Processed
      BY <3>2 DEF InProcess, Processed, Goto, monitorVars, revealerVars
    <3>3. CASE ReceiveLogPacket \/ Exit
      BY <3>3 DEF ReceiveLogPacket, Exit, Goto, monitorVars, revealerVars
    <3>4. CASE \E n \in 0..BlockSize : ReadFifo(n)
      BY <3>4 DEF ReadFifo, Goto, monitorVars, revealerVars
    <3> QED BY <1>2, <3>1, <3>2, <3>3, <3>4
  <2> QED BY <2>1, ConfigInvKept
<1>3. CASE StartAll \/ Daemon \/ StopDaemon \/ PauseRaises
  <2>1. UNCHANGED <<alive, modem, typeIds, cfgIds>> /\ (pc = "config" <=> pc' = "config")
    <3>1. CASE StartAll
      BY <3>1 DEF StartAll, StartRevealer, Goto, monitorVars
    <3>2. CASE Daemon
      BY <3>2 DEF Daemon, WakeUp, Look, Restart, StartRevealer, monitorVars, revealerVars
    <3>3. CASE StopDaemon \/ PauseRaises
      BY <3>3 DEF StopDaemon, PauseRaises, monitorVars, revealerVars
    <3> QED BY <1>3, <3>1, <3>2, <3>3
  <2> QED BY <2>1, ConfigInvKept
<1>4. ASSUME NEW r \in Records, WriteRecord(r)
      PROVE  ConfigInv'
  BY <1>4, ConfigInvKept DEF WriteRecord, monitorVars, revealerVars
<1>5. ASSUME Die, UNCHANGED <<pc, typeIds, cfgIds>>
      PROVE  ConfigInv'
  <2>1. modem' = modem /\ (alive' > 0 => alive > 0)
    BY <1>5 DEF Die, RevealerInv
  <2> QED BY <1>5, <2>1 DEF ConfigInv, ModemLogsWhatIsAsked
<1>6. CASE DieBetweenRecords
  BY <1>5, <1>6 DEF DieBetweenRecords, monitorVars
<1>7. ASSUME NEW r \in Records, NEW n \in 1..(Len(Written(r)) - 1), DieInRecord(r, n)
      PROVE  ConfigInv'
  BY <1>5, <1>7 DEF DieInRecord, monitorVars
<1> QED BY <1>1, <1>2, <1>3, <1>4, <1>6, <1>7 DEF Run

(* Whenever diag_revealer is there, after whatever number of deaths and     *)
(* restarts, the modem logs exactly the type ids that enable_log was called *)
(* with, or, if it was called with none, those of the Diag.cfg from before, *)
(* and debug messages only if these are among them: for every set of ids of *)
(* the table, and whatever the modem logged before.                         *)
THEOREM AndroidModemLogsWhatIsAsked == AndroidSpec => []ModemLogsWhatIsAsked
<1>1. AndroidInit => RevealerInv
  BY DEF AndroidInit, RevealerInv, OneRevealer, BeforeStart
<1>2. AndroidInit => ConfigInv
  BY AndroidAssumption DEF AndroidInit, ConfigInv, AndroidAssumption, ModemState, TypesFit,
                           ModemLogsWhatIsAsked
<1>3. RevealerInv /\ [AndroidNext]_vars => RevealerInv'
  BY RevealerInvStep
<1>4. RevealerInv /\ ConfigInv /\ [AndroidNext]_vars => ConfigInv'
  <2> SUFFICES ASSUME RevealerInv, ConfigInv, [AndroidNext]_vars
               PROVE  ConfigInv'
    OBVIOUS
  <2>1. CASE AndroidNext
    BY <2>1, AndroidAssumption, EnableLogKeepsConfigInv, AppearKeepsConfigInv,
       OthersKeepConfigInv DEF AndroidNext, Revealer
  <2>2. CASE UNCHANGED vars
    BY <2>2, ConfigInvKept DEF vars, monitorVars, revealerVars
  <2> QED BY <2>1, <2>2
<1>5. ConfigInv => ModemLogsWhatIsAsked
  BY DEF ConfigInv
<1> QED BY <1>1, <1>2, <1>3, <1>4, <1>5, PTL DEF AndroidSpec
-----------------------------------------------------------------------------
(* That what is fed is what was logged.  The bytes that are written and not *)
(* parsed yet are the rest of a record and whole records behind it, for the *)
(* place in it at which the parser is: wherever reads and calls cut them.   *)

Items == Int \X Seq(Byte)

\* Of the bytes of a record, those before its payload or name
Header(r) == 4 + Len(TimeStamp(r))

\* What a record may be
Recordable ==
    {r \in {TypeLog, TypeStartLogFile, TypeEndLogFile} \X Seq(Byte) :
        Len(r[2]) + TsBytes < 32768 /\ (r[1] = TypeEndLogFile => r[2] # <<>>)}

(* What is written for a record.                                           *)
LEMMA WrittenIs ==
  ASSUME TsBytes \in Nat \ {0}, NEW r \in Recordable
  PROVE  /\ r[2] \in Seq(Byte) /\ r[1] \in {TypeLog, TypeStartLogFile, TypeEndLogFile}
         /\ r = <<r[1], r[2]>>
         /\ Header(r) = (IF r[1] = TypeLog THEN 4 + TsBytes ELSE 4)
         /\ Written(r) \in Seq(Byte) /\ Len(Written(r)) = Header(r) + Len(r[2])
         /\ Unpack(SubSeq(Written(r), 1, 2)) = r[1]
         /\ Unpack(SubSeq(Written(r), 3, 4)) = Len(TimeStamp(r)) + Len(r[2])
         /\ SubSeq(Written(r), Header(r) + 1, Len(Written(r))) = r[2]
<1> DEFINE ts == TimeStamp(r)
           size == Len(ts) + Len(r[2])
<1>1. r[2] \in Seq(Byte) /\ r[1] \in {1, 2, 3} /\ r = <<r[1], r[2]>> /\ Len(r[2]) + TsBytes < 32768
  BY DEF Recordable, TypeLog, TypeStartLogFile, TypeEndLogFile
<1>2. ts \in Seq(Byte) /\ Len(ts) = IF r[1] = TypeLog THEN TsBytes ELSE 0
  <2>1. CASE r[1] = TypeLog
    <3>1. ts = [k \in 1..TsBytes |-> 0]
      BY <2>1 DEF TimeStamp
    <3>2. TsBytes \in Nat /\ 0 \in Byte
      BY DEF Byte
    <3> QED BY <2>1, <3>1, <3>2
  <2>2. CASE r[1] # TypeLog
    BY <2>2 DEF TimeStamp
  <2> QED BY <2>1, <2>2
<1>3. Len(r[2]) \in Nat /\ TsBytes \in Nat
  BY <1>1, LenProperties
<1>4. size \in Nat /\ size < 32768
  BY <1>1, <1>2, <1>3
<1> HIDE DEF ts
<1>5. /\ size % 256 \in Byte /\ size \div 256 \in Byte
      /\ (size % 256) + 256 * (size \div 256) = size
  <2> HIDE DEF size
  <2> QED BY <1>4 DEF Byte
<1>6. Written(r) = <<r[1], 0, size % 256, size \div 256>> \o ts \o r[2]
  BY DEF Written, ts
<1> HIDE DEF size
<1>7. r[1] \in Byte
  BY <1>1 DEF Byte
<1>8. /\ Written(r) \in Seq(Byte) /\ Len(Written(r)) = 4 + Len(ts) + Len(r[2])
      /\ SubSeq(Written(r), 1, 2) = <<r[1], 0>>
      /\ SubSeq(Written(r), 3, 4) = <<size % 256, size \div 256>>
      /\ SubSeq(Written(r), 4 + Len(ts) + 1, Len(Written(r))) = r[2]
  <2> DEFINE first == <<r[1], 0, size % 256, size \div 256>>
  <2>1. /\ first \in Seq(Byte) /\ Len(first) = 4
        /\ first[1] = r[1] /\ first[2] = 0
        /\ first[3] = size % 256 /\ first[4] = size \div 256
    <3>1. 0 \in Byte
      BY DEF Byte
    <3> QED BY <1>5, <1>7, <3>1
  <2>2. Written(r) = (first \o ts) \o r[2]
    BY <1>6
  <2> HIDE DEF first
  <2>3. IsMadeOf((first \o ts) \o r[2], Byte, first, ts, r[2])
    <3>1. first \in Seq(Byte) /\ Len(first) = 4 /\ ts \in Seq(Byte) /\ r[2] \in Seq(Byte)
      BY <1>1, <1>2, <2>1
    <3> QED BY ONLY <3>1, HeaderAndRest
  <2>4. IsMadeOf(Written(r), Byte, first, ts, r[2])
    BY <2>2, <2>3
  <2> QED BY <2>1, <2>4 DEF IsMadeOf
<1>9. Unpack(SubSeq(Written(r), 1, 2)) = r[1]
  <2>1. Unpack(<<r[1], 0>>) = r[1]
    BY <1>1 DEF Unpack
  <2> QED BY <1>8, <2>1
<1>10. Unpack(SubSeq(Written(r), 3, 4)) = size
  <2>1. Unpack(<<size % 256, size \div 256>>) = size
    BY <1>4, <1>5 DEF Unpack
  <2> QED BY <1>8, <2>1
<1>11. /\ r[1] \in {TypeLog, TypeStartLogFile, TypeEndLogFile}
       /\ Header(r) = (IF r[1] = TypeLog THEN 4 + TsBytes ELSE 4)
       /\ Header(r) = 4 + Len(ts)
  BY <1>1, <1>2, <1>3 DEF Header, ts, TypeLog, TypeStartLogFile, TypeEndLogFile
<1>12. Len(Written(r)) = Header(r) + Len(r[2])
  BY <1>8, <1>11
<1>13. SubSeq(Written(r), Header(r) + 1, Len(Written(r))) = r[2]
  BY <1>8, <1>11
<1>14. size = Len(TimeStamp(r)) + Len(r[2])
  BY DEF size, ts
<1> QED BY <1>1, <1>8, <1>9, <1>10, <1>11, <1>12, <1>13, <1>14

(* What the bytes of a record are to add.                                  *)
LEMMA DueOfIs ==
  ASSUME TsBytes \in Nat \ {0}, NEW r \in Recordable
  PROVE  /\ DueOf(r) \in Seq(Seq(Items)) /\ Len(DueOf(r)) = Len(Written(r))
         /\ \A k \in 1..Len(Written(r)) :
               DueOf(r)[k] =
                  IF r[1] = TypeLog /\ k > Header(r) THEN <<<<TypeLog, <<Written(r)[k]>>>>>>
                  ELSE IF r[1] = TypeEndLogFile /\ k = Len(Written(r)) THEN <<r>>
                  ELSE <<>>
<1> DEFINE w == Written(r)
           n == Len(w)
           h == Header(r)
           dueOf(k) == IF r[1] = TypeLog /\ k > h THEN <<<<TypeLog, <<w[k]>>>>>>
                     ELSE IF r[1] = TypeEndLogFile /\ k = n THEN <<r>>
                     ELSE <<>>
<1>1. /\ r[2] \in Seq(Byte) /\ w \in Seq(Byte) /\ n \in Nat /\ h \in Nat
      /\ n - Len(r[2]) = h /\ n = h + Len(r[2]) /\ Len(r[2]) \in Nat
      /\ SubSeq(w, h + 1, n) = r[2]
  <2>1. TsBytes \in Nat
    OBVIOUS
  <2>2. /\ r[2] \in Seq(Byte) /\ w \in Seq(Byte) /\ n = h + Len(r[2])
        /\ h = (IF r[1] = TypeLog THEN 4 + TsBytes ELSE 4) /\ SubSeq(w, h + 1, n) = r[2]
    BY WrittenIs
  <2>3. n \in Nat /\ Len(r[2]) \in Nat
    BY <2>2, LenProperties
  <2> HIDE DEF w, n, h
  <2>4. h \in Nat
    BY <2>1, <2>2
  <2>5. n - Len(r[2]) = h
    <3> DEFINE len == Len(r[2])
    <3>1. n = h + len /\ n \in Nat /\ len \in Nat /\ h \in Nat
      BY <2>2, <2>3, <2>4
    <3> HIDE DEF len
    <3>2. n - len = h
      BY ONLY <3>1
    <3> QED BY <3>2 DEF len
  <2> QED BY <2>2, <2>3, <2>4, <2>5, Zenon
<1>2. \A k \in 1..n : k > h => r[2][k - h] = w[k]
  <2>1. \A i \in 1..(n - (h + 1) + 1) : SubSeq(w, h + 1, n)[i] = w[h + 1 + i - 1]
    <3> HIDE DEF w, h
    <3>1. h + 1 \in Nat \ {0} /\ h + 1 <= n + 1 /\ n <= Len(w)
      BY <1>1
    <3> HIDE DEF n
    <3> QED BY <1>1, <3>1, Stretch
  <2> HIDE DEF w, n, h
  <2>2. ASSUME NEW k \in 1..n, k > h
        PROVE  r[2][k - h] = w[k]
    <3>1. k - h \in 1..(n - (h + 1) + 1) /\ h + 1 + (k - h) - 1 = k
      BY <1>1, <2>2
    <3>2. SubSeq(w, h + 1, n)[k - h] = w[h + 1 + (k - h) - 1]
      BY <2>1, <3>1
    <3> QED BY <1>1, <3>1, <3>2
  <2> QED BY <2>2
<1>3. DueOf(r) = [k \in 1..n |->
            CASE r[1] = TypeLog /\ k > h -> <<Bytes(r[2])[k - h]>>
              [] r[1] = TypeEndLogFile /\ k = n -> <<r>>
              [] OTHER -> <<>>]
  <2> DEFINE before == n - Len(r[2])
  <2>1. DueOf(r) = [k \in 1..n |->
            CASE r[1] = TypeLog /\ k > before -> <<Bytes(r[2])[k - before]>>
              [] r[1] = TypeEndLogFile /\ k = n -> <<r>>
              [] OTHER -> <<>>]
    BY DEF DueOf
  <2>2. before = h
    BY <1>1
  <2> HIDE DEF before, n, h
  <2> QED BY <2>1, <2>2
<1>4. ASSUME NEW k \in 1..n
      PROVE  DueOf(r)[k] = dueOf(k)
  <2>1. CASE r[1] = TypeLog /\ k > h
    <3>1. DueOf(r)[k] = <<Bytes(r[2])[k - h]>>
      BY <1>3, <2>1 DEF TypeLog, TypeEndLogFile
    <3>2. k - h \in DOMAIN r[2]
      <4>1. k - h \in 1..Len(r[2])
        <5> HIDE DEF n, h
        <5> QED BY <1>1, <2>1
      <4> QED BY <1>1, <4>1, LenProperties
    <3>3. Bytes(r[2])[k - h] = <<TypeLog, <<w[k]>>>>
      BY <1>2, <2>1, <3>2 DEF Bytes
    <3> QED BY <2>1, <3>1, <3>3
  <2>2. CASE ~(r[1] = TypeLog /\ k > h) /\ r[1] = TypeEndLogFile /\ k = n
    BY <1>3, <2>2
  <2>3. CASE ~(r[1] = TypeLog /\ k > h) /\ ~(r[1] = TypeEndLogFile /\ k = n)
    BY <1>3, <2>3
  <2> QED BY <2>1, <2>2, <2>3
<1>5. ASSUME NEW k \in 1..n
      PROVE  dueOf(k) \in Seq(Items)
  <2>1. w[k] \in Byte
    BY <1>1, ElementOfSeq
  <2>2. r \in Items
    BY WrittenIs DEF Items, TypeLog, TypeStartLogFile, TypeEndLogFile
  <2>3. <<TypeLog, <<w[k]>>>> \in Items
    BY <2>1 DEF Items, TypeLog
  <2> QED BY <2>2, <2>3
<1>6. DueOf(r) \in Seq(Seq(Items)) /\ Len(DueOf(r)) = n
  <2>1. DOMAIN DueOf(r) = 1..n /\ DueOf(r) = [k \in 1..n |-> DueOf(r)[k]]
    BY <1>3
  <2>2. \A k \in 1..n : DueOf(r)[k] \in Seq(Items)
    BY <1>4, <1>5
  <2> DEFINE d == DueOf(r)
  <2> HIDE DEF n, d
  <2>3. d \in [1..n -> Seq(Items)]
    BY <2>1, <2>2 DEF d
  <2>4. d \in Seq(Seq(Items)) /\ Len(d) = n
    <3>1. n \in Nat
      BY <1>1
    <3> QED BY ONLY <2>3, <3>1, FunctionIsSeq
  <2> QED BY <2>4 DEF d
<1> QED BY <1>4, <1>6

-----------------------------------------------------------------------------
(* Whole records in the stream *)

WrittenOf == [r \in Recordable |-> Written(r)]
DuesOf    == [r \in Recordable |-> DueOf(r)]

\* s holds whole records, and d what their bytes are to add
IsStream(s, d) ==
    /\ s \in Seq(Byte) /\ d \in Seq(Seq(Items)) /\ Len(d) = Len(s)
    /\ \E R \in Seq(Recordable) :
          s = FlattenSeq(Mapped(WrittenOf, R)) /\ d = FlattenSeq(Mapped(DuesOf, R))

(* The functions that these are built from.                                *)
LEMMA WrittenOfIs ==
  ASSUME TsBytes \in Nat \ {0}
  PROVE  /\ WrittenOf \in [Recordable -> Seq(Byte)]
         /\ DuesOf \in [Recordable -> Seq(Seq(Items))]
         /\ \A r \in Recordable : WrittenOf[r] = Written(r) /\ DuesOf[r] = DueOf(r)
<1>1. \A r \in Recordable : Written(r) \in Seq(Byte) /\ DueOf(r) \in Seq(Seq(Items))
  <2> TAKE r \in Recordable
  <2>1. Written(r) \in Seq(Byte)
    BY WrittenIs
  <2>2. DueOf(r) \in Seq(Seq(Items))
    BY DueOfIs
  <2> QED BY <2>1, <2>2
<1>2. \A r \in Recordable : WrittenOf[r] = Written(r)
  BY DEF WrittenOf
<1>3. \A r \in Recordable : DuesOf[r] = DueOf(r)
  BY DEF DuesOf
<1>4. WrittenOf \in [Recordable -> Seq(Byte)]
  BY <1>1 DEF WrittenOf
<1>5. DuesOf \in [Recordable -> Seq(Seq(Items))]
  BY <1>1 DEF DuesOf
<1> QED BY <1>2, <1>3, <1>4, <1>5

(* Nothing is no record.                                                   *)
LEMMA StreamOfNone == IsStream(<<>>, <<>>)
<1> DEFINE R == <<>>
<1>1. R \in Seq(Recordable) /\ Len(R) = 0
  OBVIOUS
<1>2. Mapped(WrittenOf, R) = <<>> /\ Mapped(DuesOf, R) = <<>>
  BY <1>1 DEF Mapped
<1>3. FlattenSeq(<<>>) = <<>>
  BY DEF FlattenSeq
<1>4. <<>> \in Seq(Byte) /\ <<>> \in Seq(Seq(Items)) /\ Len(<<>>) = 0
  OBVIOUS
<1> HIDE DEF R
<1>5. /\ <<>> = FlattenSeq(Mapped(WrittenOf, R)) /\ <<>> = FlattenSeq(Mapped(DuesOf, R))
  BY <1>2, <1>3, Zenon
<1> QED BY <1>1, <1>4, <1>5 DEF IsStream

(* A record that is written behind them.                                   *)
LEMMA StreamGrows ==
  ASSUME TsBytes \in Nat \ {0}, NEW s, NEW d, IsStream(s, d), NEW r \in Recordable
  PROVE  IsStream(s \o Written(r), d \o DueOf(r))
<1>1. PICK R \in Seq(Recordable) :
         s = FlattenSeq(Mapped(WrittenOf, R)) /\ d = FlattenSeq(Mapped(DuesOf, R))
  BY DEF IsStream
<1> DEFINE A == Append(R, r)
<1>2. /\ s \in Seq(Byte) /\ d \in Seq(Seq(Items)) /\ Len(d) = Len(s)
      /\ Written(r) \in Seq(Byte) /\ DueOf(r) \in Seq(Seq(Items))
      /\ Len(DueOf(r)) = Len(Written(r))
  BY WrittenIs, DueOfIs DEF IsStream
<1>3. s \o Written(r) \in Seq(Byte) /\ Len(s \o Written(r)) = Len(s) + Len(Written(r))
  <2>1. IsConcat(s \o Written(r), Byte, s, Written(r))
    BY <1>2, ConcatIs
  <2> QED BY <2>1 DEF IsConcat
<1>4. d \o DueOf(r) \in Seq(Seq(Items)) /\ Len(d \o DueOf(r)) = Len(d) + Len(DueOf(r))
  <2>1. IsConcat(d \o DueOf(r), Seq(Items), d, DueOf(r))
    BY <1>2, ConcatIs
  <2> QED BY <2>1 DEF IsConcat
<1>5. A \in Seq(Recordable)
  BY AppendProperties
<1>6. s \o Written(r) = FlattenSeq(Mapped(WrittenOf, A))
  <2>1. Mapped(WrittenOf, A) = Mapped(WrittenOf, R) \o <<Written(r)>>
    <3>1. WrittenOf \in [Recordable -> Seq(Byte)] /\ WrittenOf[r] = Written(r)
      BY WrittenOfIs
    <3>2. Mapped(WrittenOf, A) = Mapped(WrittenOf, R) \o <<WrittenOf[r]>>
      <4>1. R \in Seq(Recordable) /\ r \in Recordable
        OBVIOUS
      <4>2. MapsAppend(WrittenOf, R, r)
        BY <3>1, <4>1, MappedAppend
      <4> QED BY <4>2 DEF MapsAppend
    <3> QED BY <3>1, <3>2, Zenon
  <2>2. Mapped(WrittenOf, R) \in Seq(Seq(Byte))
    <3>1. IsMapped(Mapped(WrittenOf, R), Seq(Byte), WrittenOf, R)
      BY WrittenOfIs, MappedType
    <3> QED BY <3>1 DEF IsMapped
  <2>3. <<Written(r)>> \in Seq(Seq(Byte))
    BY <1>2
  <2>4. FlattenSeq(Mapped(WrittenOf, R) \o <<Written(r)>>)
           = FlattenSeq(Mapped(WrittenOf, R)) \o FlattenSeq(<<Written(r)>>)
    BY <2>2, <2>3, FlattenBoth
  <2>5. FlattenSeq(<<Written(r)>>) = Written(r)
    BY <1>2, FlattenSingle
  <2> HIDE DEF A
  <2> QED BY <1>1, <2>1, <2>4, <2>5, Zenon
<1>7. d \o DueOf(r) = FlattenSeq(Mapped(DuesOf, A))
  <2>1. Mapped(DuesOf, A) = Mapped(DuesOf, R) \o <<DueOf(r)>>
    <3>1. DuesOf \in [Recordable -> Seq(Seq(Items))] /\ DuesOf[r] = DueOf(r)
      BY WrittenOfIs
    <3>2. Mapped(DuesOf, A) = Mapped(DuesOf, R) \o <<DuesOf[r]>>
      <4>1. R \in Seq(Recordable) /\ r \in Recordable
        OBVIOUS
      <4>2. MapsAppend(DuesOf, R, r)
        BY <3>1, <4>1, MappedAppend
      <4> QED BY <4>2 DEF MapsAppend
    <3> QED BY <3>1, <3>2, Zenon
  <2>2. Mapped(DuesOf, R) \in Seq(Seq(Seq(Items)))
    <3>1. IsMapped(Mapped(DuesOf, R), Seq(Seq(Items)), DuesOf, R)
      BY WrittenOfIs, MappedType
    <3> QED BY <3>1 DEF IsMapped
  <2>3. <<DueOf(r)>> \in Seq(Seq(Seq(Items)))
    BY <1>2
  <2>4. FlattenSeq(Mapped(DuesOf, R) \o <<DueOf(r)>>)
           = FlattenSeq(Mapped(DuesOf, R)) \o FlattenSeq(<<DueOf(r)>>)
    BY <2>2, <2>3, FlattenBoth
  <2>5. FlattenSeq(<<DueOf(r)>>) = DueOf(r)
    BY <1>2, FlattenSingle
  <2> HIDE DEF A
  <2> QED BY <1>1, <2>1, <2>4, <2>5, Zenon
<1> HIDE DEF A
<1> QED BY <1>2, <1>3, <1>4, <1>5, <1>6, <1>7 DEF IsStream

\* s is a whole record and more of them
StartsRecord(s, d) ==
    \E r \in Recordable : \E rest, dues :
        IsStream(rest, dues) /\ s = Written(r) \o rest /\ d = DueOf(r) \o dues

(* The first of them.                                                      *)
LEMMA StreamStarts ==
  ASSUME TsBytes \in Nat \ {0}, NEW s, NEW d, IsStream(s, d), s # <<>>
  PROVE  StartsRecord(s, d)
<1>1. PICK R \in Seq(Recordable) :
         s = FlattenSeq(Mapped(WrittenOf, R)) /\ d = FlattenSeq(Mapped(DuesOf, R))
  BY DEF IsStream
<1>2. s \in Seq(Byte) /\ d \in Seq(Seq(Items)) /\ Len(d) = Len(s)
  BY DEF IsStream
<1>3. R # <<>>
  <2> SUFFICES ASSUME R = <<>> PROVE FALSE
    OBVIOUS
  <2>1. Mapped(WrittenOf, R) = <<>>
    BY DEF Mapped
  <2>2. FlattenSeq(<<>>) = <<>>
    BY DEF FlattenSeq
  <2> QED BY <1>1, <2>1, <2>2, Zenon
<1> DEFINE r == R[1]
           A == Tail(R)
           mw == Mapped(WrittenOf, A)
           md == Mapped(DuesOf, A)
           rest == FlattenSeq(mw)
           dues == FlattenSeq(md)
<1>4. r \in Recordable /\ A \in Seq(Recordable)
  BY <1>3, WrittenOfIs, MappedTail
<1>5. /\ Written(r) \in Seq(Byte) /\ DueOf(r) \in Seq(Seq(Items))
      /\ Len(DueOf(r)) = Len(Written(r))
  BY <1>4, WrittenIs, DueOfIs
<1>6. s = Written(r) \o rest /\ rest \in Seq(Byte)
  <2>1. Mapped(WrittenOf, R) = <<Written(r)>> \o mw
    <3>1. WrittenOf \in [Recordable -> Seq(Byte)] /\ WrittenOf[r] = Written(r)
      BY <1>4, WrittenOfIs
    <3>2. Mapped(WrittenOf, R) = <<WrittenOf[r]>> \o mw
      BY <1>3, <3>1, MappedTail, Zenon
    <3> QED BY <3>1, <3>2, Zenon
  <2>2. mw \in Seq(Seq(Byte))
    <3>1. IsMapped(mw, Seq(Byte), WrittenOf, A)
      BY <1>4, WrittenOfIs, MappedType
    <3> QED BY <3>1 DEF IsMapped
  <2>3. <<Written(r)>> \in Seq(Seq(Byte))
    BY <1>5
  <2> HIDE DEF mw, r
  <2>4. FlattenSeq(<<Written(r)>> \o mw) = FlattenSeq(<<Written(r)>>) \o rest
    BY <2>2, <2>3, FlattenBoth
  <2>5. FlattenSeq(<<Written(r)>>) = Written(r)
    BY <1>5, FlattenSingle
  <2>6. rest \in Seq(Byte)
    BY <2>2, FlattenAny
  <2> QED BY <1>1, <2>1, <2>4, <2>5, <2>6, Zenon
<1>7. d = DueOf(r) \o dues /\ dues \in Seq(Seq(Items))
  <2>1. Mapped(DuesOf, R) = <<DueOf(r)>> \o md
    <3>1. DuesOf \in [Recordable -> Seq(Seq(Items))] /\ DuesOf[r] = DueOf(r)
      BY <1>4, WrittenOfIs
    <3>2. Mapped(DuesOf, R) = <<DuesOf[r]>> \o md
      BY <1>3, <3>1, MappedTail, Zenon
    <3> QED BY <3>1, <3>2, Zenon
  <2>2. md \in Seq(Seq(Seq(Items)))
    <3>1. IsMapped(md, Seq(Seq(Items)), DuesOf, A)
      BY <1>4, WrittenOfIs, MappedType
    <3> QED BY <3>1 DEF IsMapped
  <2>3. <<DueOf(r)>> \in Seq(Seq(Seq(Items)))
    BY <1>5
  <2> HIDE DEF md, r
  <2>4. FlattenSeq(<<DueOf(r)>> \o md) = FlattenSeq(<<DueOf(r)>>) \o dues
    BY <2>2, <2>3, FlattenBoth
  <2>5. FlattenSeq(<<DueOf(r)>>) = DueOf(r)
    BY <1>5, FlattenSingle
  <2>6. dues \in Seq(Seq(Items))
    BY <2>2, FlattenAny
  <2> QED BY <1>1, <2>1, <2>4, <2>5, <2>6, Zenon
<1>8. \E Q \in Seq(Recordable) :
         rest = FlattenSeq(Mapped(WrittenOf, Q)) /\ dues = FlattenSeq(Mapped(DuesOf, Q))
  BY <1>4, Zenon
<1> HIDE DEF rest, dues, r
<1>9. Len(dues) = Len(rest)
  <2>1. IsConcat(s, Byte, Written(r), rest)
    BY <1>5, <1>6, ConcatIs
  <2>2. IsConcat(d, Seq(Items), DueOf(r), dues)
    BY <1>5, <1>7, ConcatIs
  <2>3. Len(s) = Len(Written(r)) + Len(rest) /\ Len(d) = Len(DueOf(r)) + Len(dues)
    BY <2>1, <2>2 DEF IsConcat
  <2>4. Len(Written(r)) \in Nat /\ Len(rest) \in Nat /\ Len(dues) \in Nat
    BY <1>5, <1>6, <1>7, LenProperties
  <2> QED BY <1>2, <1>5, <2>3, <2>4
<1>10. IsStream(rest, dues)
  BY <1>6, <1>7, <1>8, <1>9 DEF IsStream
<1> QED BY <1>4, <1>6, <1>7, <1>10 DEF StartsRecord

-----------------------------------------------------------------------------
(* What a stretch of a record is to add *)

\* What process() has found and run() has not taken yet
PendingOf(found) ==
    IF found.type = TypeLog THEN Bytes(found.payload)
    ELSE IF found.type = TypeEndLogFile /\ found.filename # <<>>
         THEN <<<<TypeEndLogFile, found.filename>>>>
    ELSE <<>>

\* What the bytes of r from p + 1 to q are to add
DueIn(r, p, q) == FlattenSeq(SubSeq(DueOf(r), p + 1, q))

(* A stretch of what a record is to add.                                   *)
LEMMA StretchOfDue ==
  ASSUME TsBytes \in Nat \ {0}, NEW r \in Recordable,
         NEW p \in Nat, NEW q \in Nat, p <= q, q <= Len(Written(r)),
         NEW x, x = SubSeq(DueOf(r), p + 1, q)
  PROVE  /\ x \in Seq(Seq(Items)) /\ Len(x) = q - p
         /\ \A i \in 1..(q - p) : x[i] = DueOf(r)[p + i] /\ p + i \in 1..Len(Written(r))
<1>1. DueOf(r) \in Seq(Seq(Items)) /\ Len(DueOf(r)) = Len(Written(r)) /\ Len(Written(r)) \in Nat
  BY DueOfIs, WrittenIs, LenProperties
<1>2. p + 1 \in Nat \ {0} /\ p + 1 <= q + 1 /\ q <= Len(DueOf(r)) /\ q - (p + 1) + 1 = q - p
  BY <1>1
<1>3. /\ x \in Seq(Seq(Items)) /\ Len(x) = q - (p + 1) + 1
      /\ \A i \in 1..(q - (p + 1) + 1) : x[i] = DueOf(r)[(p + 1) + i - 1]
  BY <1>1, <1>2, Stretch
<1>4. ASSUME NEW i \in 1..(q - p)
      PROVE  x[i] = DueOf(r)[p + i] /\ p + i \in 1..Len(Written(r))
  <2>1. (p + 1) + i - 1 = p + i /\ i \in 1..(q - (p + 1) + 1) /\ p + i \in 1..Len(Written(r))
    BY <1>1
  <2> QED BY <1>3, <2>1
<1> QED BY <1>2, <1>3, <1>4

(* The header of a record, and a name that is not complete, add nothing.   *)
LEMMA NothingDue ==
  ASSUME TsBytes \in Nat \ {0}, NEW r \in Recordable,
         NEW p \in Nat, NEW q \in Nat, p <= q, q <= Len(Written(r)),
         r[1] = TypeLog => q <= Header(r),
         r[1] = TypeEndLogFile => q < Len(Written(r))
  PROVE  DueIn(r, p, q) = <<>>
<1> DEFINE x == SubSeq(DueOf(r), p + 1, q)
<1>1. /\ x \in Seq(Seq(Items)) /\ Len(x) = q - p
      /\ \A i \in 1..(q - p) : x[i] = DueOf(r)[p + i] /\ p + i \in 1..Len(Written(r))
  BY StretchOfDue
<1>2. ASSUME NEW i \in 1..(q - p)
      PROVE  x[i] = <<>>
  <2>1. x[i] = DueOf(r)[p + i] /\ p + i \in 1..Len(Written(r))
    BY <1>1
  <2>2. DueOf(r)[p + i] =
           IF r[1] = TypeLog /\ p + i > Header(r) THEN <<<<TypeLog, <<Written(r)[p + i]>>>>>>
           ELSE IF r[1] = TypeEndLogFile /\ p + i = Len(Written(r)) THEN <<r>>
           ELSE <<>>
    BY <2>1, DueOfIs
  <2>3. ~(r[1] = TypeEndLogFile /\ p + i = Len(Written(r)))
    <3>1. p + i <= q
      OBVIOUS
    <3>2. Len(Written(r)) \in Nat
      BY WrittenIs, LenProperties
    <3> QED BY <3>1, <3>2
  <2>4. ~(r[1] = TypeLog /\ p + i > Header(r))
    <3>1. p + i <= q
      OBVIOUS
    <3>2. Header(r) = (IF r[1] = TypeLog THEN 4 + TsBytes ELSE 4)
      BY WrittenIs
    <3> QED BY <3>1, <3>2
  <2> QED BY <2>1, <2>2, <2>3, <2>4
<1> HIDE DEF x
<1>3. FlattenSeq(x) = <<>>
  <2>1. \A i \in 1..Len(x) : x[i] = <<>>
    BY <1>1, <1>2
  <2> QED BY <1>1, <2>1, FlattenNone
<1> QED BY <1>3 DEF DueIn, x

(* A part of a payload.                                                    *)
LEMMA PayloadDue ==
  ASSUME TsBytes \in Nat \ {0}, NEW r \in Recordable, r[1] = TypeLog,
         NEW p \in Nat, NEW q \in Nat, Header(r) <= p, p <= q, q <= Len(Written(r))
  PROVE  DueIn(r, p, q) = Bytes(SubSeq(Written(r), p + 1, q))
<1> DEFINE x == SubSeq(DueOf(r), p + 1, q)
           b == SubSeq(Written(r), p + 1, q)
           y == Bytes(b)
           n == q - p
<1>1. /\ x \in Seq(Seq(Items)) /\ Len(x) = n
      /\ \A i \in 1..n : x[i] = DueOf(r)[p + i] /\ p + i \in 1..Len(Written(r))
  BY StretchOfDue
<1>2. Written(r) \in Seq(Byte) /\ Len(Written(r)) \in Nat
  BY WrittenIs, LenProperties
<1>3. b \in Seq(Byte) /\ Len(b) = n /\ n \in Nat /\ \A i \in 1..n : b[i] = Written(r)[p + i]
  <2>1. p + 1 \in Nat \ {0} /\ p + 1 <= q + 1
    OBVIOUS
  <2>2. /\ b \in Seq(Byte) /\ Len(b) = q - (p + 1) + 1
        /\ \A i \in 1..(q - (p + 1) + 1) : b[i] = Written(r)[(p + 1) + i - 1]
    BY <1>2, <2>1, Stretch
  <2> HIDE DEF b
  <2>3. n = q - (p + 1) + 1 /\ n \in Nat
    OBVIOUS
  <2>4. \A i \in 1..n : (p + 1) + i - 1 = p + i
    OBVIOUS
  <2> QED BY <2>2, <2>3, <2>4
<1> HIDE DEF b, n
<1>4. y = [i \in 1..n |-> <<TypeLog, <<b[i]>>>>]
  <2>1. DOMAIN b = 1..n
    BY <1>3, LenProperties
  <2> QED BY <2>1 DEF Bytes
<1> HIDE DEF x, y
<1>5. \A i \in 1..n : y[i] = <<TypeLog, <<b[i]>>>> /\ y[i] \in Items
  <2> TAKE i \in 1..n
  <2>1. y[i] = <<TypeLog, <<b[i]>>>>
    BY <1>4
  <2>2. b[i] \in Byte
    BY <1>3, ElementOfSeq
  <2>3. <<TypeLog, <<b[i]>>>> \in Items
    <3> DEFINE s == <<b[i]>>
    <3>1. s \in Seq(Byte)
      BY <2>2
    <3> HIDE DEF s
    <3>2. <<1, s>> \in Items
      BY <3>1 DEF Items
    <3> QED BY <3>2 DEF s, TypeLog
  <2> QED BY <2>1, <2>3
<1>6. y \in Seq(Items) /\ Len(y) = n
  <2>1. y \in [1..n -> Items]
    BY <1>4, <1>5
  <2> QED BY <1>3, <2>1, FunctionIsSeq
<1>7. ASSUME NEW i \in 1..n
      PROVE  x[i] = <<y[i]>>
  <2>1. x[i] = DueOf(r)[p + i] /\ p + i \in 1..Len(Written(r))
    BY <1>1
  <2>2. p + i > Header(r)
    <3>1. Header(r) \in Nat
      BY WrittenIs
    <3>2. i \in Nat /\ i > 0
      BY <1>3
    <3> QED BY <3>1, <3>2
  <2>3. DueOf(r)[p + i] = <<<<TypeLog, <<Written(r)[p + i]>>>>>>
    BY <2>1, <2>2, DueOfIs
  <2>4. b[i] = Written(r)[p + i]
    BY <1>3
  <2> QED BY <1>5, <2>1, <2>3, <2>4
<1>8. FlattenSeq(x) = y
  BY <1>1, <1>6, <1>7, FlattenOnes
<1> QED BY <1>8 DEF DueIn, x, y, b

(* The end of a name.                                                      *)
LEMMA NameDue ==
  ASSUME TsBytes \in Nat \ {0}, NEW r \in Recordable, r[1] = TypeEndLogFile,
         NEW p \in Nat, p < Len(Written(r))
  PROVE  DueIn(r, p, Len(Written(r))) = <<r>>
<1> DEFINE n == Len(Written(r))
           d == DueOf(r)
           x == SubSeq(d, p + 1, n - 1)
           y == SubSeq(d, n - 1 + 1, n)
<1>1. /\ d \in Seq(Seq(Items)) /\ Len(d) = n /\ n \in Nat /\ p \in Nat /\ p < n
      /\ n - 1 \in Nat /\ n - 1 + 1 = n /\ p <= n - 1 /\ n - 1 <= n
  <2>1. d \in Seq(Seq(Items)) /\ Len(d) = n
    BY DueOfIs
  <2>2. n \in Nat
    BY WrittenIs, LenProperties
  <2> HIDE DEF d, n
  <2>3. p < n
    BY DEF n
  <2> QED BY <2>1, <2>2, <2>3
<1>2. SubSeq(d, p + 1, n) = x \o y
  <2> HIDE DEF d, n
  <2>1. p + 1 \in 1..(Len(d) + 1) /\ n - 1 \in ((p + 1) - 1)..Len(d) /\ n \in (n - 1)..Len(d)
    BY <1>1
  <2> QED BY <1>1, <2>1, ConcatAdjacentSubSeq
<1>3. x \in Seq(Seq(Items))
  BY <1>1, StretchOfDue
<1>4. DueIn(r, p, n - 1) = <<>>
  <2>1. r[1] # TypeLog
    BY DEF TypeLog, TypeEndLogFile
  <2> HIDE DEF d
  <2>2. n - 1 < n
    BY <1>1
  <2> QED BY <1>1, <2>1, <2>2, NothingDue
<1>5. y \in Seq(Seq(Items)) /\ Len(y) = 1 /\ y[1] = d[n]
  <2>1. /\ y \in Seq(Seq(Items)) /\ Len(y) = n - (n - 1)
        /\ \A i \in 1..(n - (n - 1)) : y[i] = d[n - 1 + i]
    BY <1>1, StretchOfDue
  <2> HIDE DEF y, d, n
  <2>2. n - (n - 1) = 1 /\ 1 \in 1..1
    BY <1>1
  <2>3. y[1] = d[n - 1 + 1]
    BY <2>1, <2>2
  <2> QED BY <1>1, <2>1, <2>2, <2>3
<1>6. d[n] = <<r>>
  <2>1. n \in 1..n /\ r[1] # TypeLog
    BY <1>1 DEF TypeLog, TypeEndLogFile
  <2> QED BY <2>1, DueOfIs
<1>7. r \in Items
  BY WrittenIs DEF Items, TypeLog, TypeStartLogFile, TypeEndLogFile
<1> HIDE DEF y, x, d, n
<1>8. y = <<<<r>>>>
  BY <1>5, <1>6
<1>9. FlattenSeq(y) = <<r>>
  <2>1. <<r>> \in Seq(Items)
    BY <1>7
  <2>2. FlattenSeq(<<<<r>>>>) = <<r>>
    BY <2>1, FlattenSingle
  <2> QED BY <1>8, <2>2
<1>10. FlattenSeq(x \o y) = FlattenSeq(x) \o FlattenSeq(y)
  BY <1>3, <1>5, FlattenBoth
<1>11. FlattenSeq(x) = <<>>
  BY <1>4 DEF DueIn, x, d
<1>12. <<>> \o <<r>> = <<r>>
  OBVIOUS
<1>13. FlattenSeq(SubSeq(d, p + 1, n)) = <<r>>
  BY <1>2, <1>9, <1>10, <1>11, <1>12, Zenon
<1> QED BY <1>13 DEF DueIn, d, n

-----------------------------------------------------------------------------
(* The parser *)

\* The bytes of a record before a field of it, and those up to its end
FromOf(f) ==
    IF f = "TYPE" THEN 0
    ELSE IF f = "MSG_LEN" THEN 2
    ELSE IF f = "PAYLOAD" THEN 4 + TsBytes
    ELSE 4

ToOf(f, r) ==
    IF f = "TYPE" THEN 2
    ELSE IF f = "MSG_LEN" THEN 4
    ELSE IF f = "TS" THEN 4 + TsBytes
    ELSE Len(Written(r))

\* A parser that has read p bytes of r
At(r, p, f, type, bytes, n, len) ==
    /\ f \in Fields /\ len \in Nat
    /\ p \in Nat /\ FromOf(f) <= p /\ p <= ToOf(f, r) /\ n = ToOf(f, r) - p
    /\ bytes = IF f = "PAYLOAD" THEN <<>> ELSE SubSeq(Written(r), FromOf(f) + 1, p)
    /\ f \in {"TYPE", "MSG_LEN", "TS"} => p < ToOf(f, r)
    /\ type = IF f = "TYPE" THEN NoType ELSE r[1]
    /\ f \in {"TS", "PAYLOAD"} => r[1] = TypeLog
    /\ f = "TS" => len = Len(r[2])
    /\ f = "FILENAME" => /\ r[1] # TypeLog
                         /\ r[1] = TypeEndLogFile => p < Len(Written(r))

\* A parser that has read none of a record
AtStart(f, type, bytes, n, len) ==
    f = "TYPE" /\ type = NoType /\ bytes = <<>> /\ n = 2 /\ len \in Nat

\* What the parser takes of the piece is what r goes on with
Took(r, p) ==
    /\ Taken \in Nat /\ Taken <= Len(piece) /\ p + Taken <= ToOf(field, r)
    /\ Left = ToOf(field, r) - (p + Taken)
    /\ NowGot = IF field = "PAYLOAD" THEN SubSeq(Written(r), p + 1, p + Taken)
                ELSE SubSeq(Written(r), FromOf(field) + 1, p + Taken)

\* The parser has read the bytes of r from p + 1 to q
Moved(r, p, q) ==
    /\ PendingOf(ret') = DueIn(r, p, q)
    /\ \/ At(r, q, field', msgType', got', toRead', payloadLen')
       \/ q = Len(Written(r)) /\ AtStart(field', msgType', got', toRead', payloadLen')

(* The places of the fields.                                               *)
LEMMA PlacesOfFields ==
  ASSUME TsBytes \in Nat \ {0}, NEW r \in Recordable, NEW p, NEW f, NEW type, NEW bytes,
         NEW n, NEW len, At(r, p, f, type, bytes, n, len)
  PROVE  /\ FromOf(f) \in Nat /\ ToOf(f, r) \in Nat /\ p \in Nat /\ Len(Written(r)) \in Nat
         /\ FromOf(f) <= p /\ p <= ToOf(f, r) /\ ToOf(f, r) <= Len(Written(r))
<1> DEFINE size == Len(Written(r))
           h == Header(r)
<1>1. /\ size \in Nat /\ size = h + Len(r[2]) /\ Len(r[2]) \in Nat
      /\ h = (IF r[1] = TypeLog THEN 4 + TsBytes ELSE 4)
  BY WrittenIs, LenProperties
<1>2. f \in {"TYPE", "MSG_LEN", "TS", "PAYLOAD", "FILENAME"} /\ (f = "TS" => r[1] = TypeLog)
  BY DEF At, Fields
<1>3. FromOf(f) \in Nat
  BY DEF FromOf
<1> HIDE DEF h
<1>4. ToOf(f, r) \in Nat /\ ToOf(f, r) <= size
  <2>1. 4 <= size /\ (r[1] = TypeLog => 4 + TsBytes <= size)
    <3> DEFINE n2 == Len(r[2])
    <3>1. TsBytes \in Nat
      OBVIOUS
    <3>2. size \in Nat /\ size = h + n2 /\ n2 \in Nat
      BY <1>1
    <3>3. CASE r[1] = TypeLog
      <4>1. h = 4 + TsBytes
        BY <1>1, <3>3
      <4> HIDE DEF size, n2
      <4>2. 4 <= size /\ 4 + TsBytes <= size
        BY ONLY <3>1, <3>2, <4>1
      <4> QED BY <4>2
    <3>4. CASE r[1] # TypeLog
      <4>1. h = 4
        BY <1>1, <3>4
      <4> HIDE DEF size, n2
      <4>2. 4 <= size
        BY ONLY <3>2, <4>1
      <4> QED BY <3>4, <4>2
    <3> QED BY <3>3, <3>4
  <2>2. ToOf(f, r) = IF f = "TYPE" THEN 2 ELSE IF f = "MSG_LEN" THEN 4
                     ELSE IF f = "TS" THEN 4 + TsBytes ELSE size
    BY DEF ToOf
  <2>3. size \in Nat
    BY <1>1
  <2> HIDE DEF size
  <2> QED BY <1>2, <2>1, <2>2, <2>3
<1>5. p \in Nat /\ FromOf(f) <= p /\ p <= ToOf(f, r)
  BY DEF At
<1> QED BY <1>1, <1>3, <1>4, <1>5

(* A parser at a place of a record takes what stands there.                *)
LEMMA ParserTook ==
  ASSUME TsBytes \in Nat \ {0}, NEW r \in Recordable, NEW p,
         At(r, p, field, msgType, got, toRead, payloadLen),
         piece \in Seq(Byte), NEW more \in Seq(Byte), NEW rest \in Seq(Byte),
         piece \o more = SubSeq(Written(r), p + 1, Len(Written(r))) \o rest
  PROVE  Took(r, p)
<1> DEFINE w == Written(r)
           size == Len(w)
           from == FromOf(field)
           to == ToOf(field, r)
           t == Taken
           a == SubSeq(w, p + 1, size)
<1>1. /\ from \in Nat /\ to \in Nat /\ p \in Nat /\ size \in Nat
      /\ from <= p /\ p <= to /\ to <= size
  BY PlacesOfFields
<1>2. toRead = to - p /\ toRead \in Nat
  <2>1. toRead = to - p
    BY DEF At
  <2> HIDE DEF to
  <2> QED BY <1>1, <2>1
<1>3. Len(piece) \in Nat
  BY LenProperties
<1>4. t = IF Len(piece) <= toRead THEN Len(piece) ELSE toRead
  BY <1>2 DEF Taken
<1>5. Left = IF Len(piece) <= toRead THEN toRead - Len(piece) ELSE 0
  BY DEF Left
<1>6. t \in Nat /\ t <= Len(piece) /\ t <= toRead /\ Left = toRead - t
  <2> HIDE DEF t
  <2>1. CASE Len(piece) <= toRead
    BY <1>2, <1>3, <1>4, <1>5, <2>1
  <2>2. CASE ~(Len(piece) <= toRead)
    BY <1>2, <1>3, <1>4, <1>5, <2>2
  <2> QED BY <2>1, <2>2
<1>7. w \in Seq(Byte)
  BY WrittenIs
<1> HIDE DEF t, to, from, w, size
<1>70. size = Len(w)
  BY DEF size
<1>8. p + t <= to /\ Left = to - (p + t) /\ p + t <= size
  BY <1>1, <1>2, <1>6
<1>9. a \in Seq(Byte) /\ Len(a) = size - p
  <2>1. p + 1 \in Nat \ {0} /\ p + 1 <= size + 1 /\ size <= Len(w) /\ size - (p + 1) + 1 = size - p
    BY ONLY <1>1, <1>70
  <2>2. a \in Seq(Byte) /\ Len(a) = size - (p + 1) + 1
    BY <1>1, <1>7, <2>1, Stretch
  <2> QED BY <2>1, <2>2
<1>10. SubSeq(piece, 1, t) = SubSeq(w, p + 1, p + t)
  <2>1. t \in 0..Len(piece) /\ t \in 0..Len(a)
    BY <1>1, <1>3, <1>6, <1>8, <1>9
  <2>2. SubSeq(piece \o more, 1, t) = SubSeq(piece, 1, t)
    BY <2>1, TakenFromFront
  <2>3. SubSeq(a \o rest, 1, t) = SubSeq(a, 1, t)
    <3> HIDE DEF a
    <3> QED BY <1>9, <2>1, TakenFromFront
  <2>4. SubSeq(a, 1, t) = SubSeq(w, p + 1, p + t)
    <3>1. p + t <= Len(w) /\ a = SubSeq(w, p + 1, Len(w))
      BY <1>8, <1>70
    <3> HIDE DEF a
    <3> QED BY <1>1, <1>6, <1>7, <3>1, TakenBehind
  <2>5. piece \o more = a \o rest
    BY DEF w, size
  <2> HIDE DEF a
  <2> QED BY <2>2, <2>3, <2>4, <2>5
<1>11. NowGot = got \o SubSeq(w, p + 1, p + t)
  BY <1>10 DEF NowGot, t
<1>12. got = IF field = "PAYLOAD" THEN <<>> ELSE SubSeq(w, from + 1, p)
  BY DEF At, w, from
<1>13. CASE field = "PAYLOAD"
  <2>1. SubSeq(w, p + 1, p + t) \in Seq(Byte)
    <3>1. p + 1 \in Nat \ {0} /\ p + t \in Nat /\ p + 1 <= (p + t) + 1 /\ p + t <= Len(w)
      BY ONLY <1>1, <1>6, <1>8, <1>70
    <3> QED BY <1>7, <3>1, Stretch
  <2>2. NowGot = SubSeq(w, p + 1, p + t)
    BY <1>11, <1>12, <1>13, <2>1, ConcatEmptySeq
  <2> QED BY <1>6, <1>8, <1>13, <2>2 DEF Took, t, to, w
<1>14. CASE field # "PAYLOAD"
  <2>1. from + 1 \in 1..(Len(w) + 1) /\ p \in ((from + 1) - 1)..Len(w) /\ p + t \in p..Len(w)
    <3>1. from + 1 \in 1..(size + 1)
      BY ONLY <1>1
    <3>2. p \in ((from + 1) - 1)..size
      BY ONLY <1>1
    <3>3. p + t \in p..size
      BY ONLY <1>1, <1>6, <1>8
    <3> QED BY <1>70, <3>1, <3>2, <3>3, Zenon
  <2>2. SubSeq(w, from + 1, p) \o SubSeq(w, p + 1, p + t) = SubSeq(w, from + 1, p + t)
    BY <1>7, <2>1, ConcatAdjacentSubSeq
  <2>3. NowGot = SubSeq(w, from + 1, p + t)
    BY <1>11, <1>12, <1>14, <2>2
  <2> QED BY <1>6, <1>8, <1>14, <2>3 DEF Took, t, to, from, w
<1> QED BY <1>13, <1>14

(* What process() has found before it has read of a payload or a name.     *)
LEMMA NothingPending ==
  ASSUME NEW type
  PROVE  PendingOf([Nothing EXCEPT !.type = type]) = <<>>
<1> DEFINE found == [Nothing EXCEPT !.type = type]
<1>1. found.payload = <<>> /\ found.filename = <<>>
  BY DEF Nothing
<1>2. Bytes(<<>>) = <<>>
  BY DEF Bytes
<1> HIDE DEF found
<1>3. PendingOf(found) = <<>>
  BY <1>1, <1>2 DEF PendingOf
<1> QED BY <1>3 DEF found

(* A record of the end of a log file holds a name.                         *)
LEMMA NameIsThere ==
  ASSUME NEW r \in Recordable, r[1] = TypeEndLogFile
  PROVE  r[2] # <<>>
BY DEF Recordable

(* A stretch of nothing.                                                   *)
LEMMA NoStretch ==
  ASSUME NEW s \in Seq(Byte), NEW q \in Nat
  PROVE  SubSeq(s, q + 1, q) = <<>>
BY SubSeqEmpty

(* The sizes of a record.                                                  *)
LEMMA SizesOf ==
  ASSUME TsBytes \in Nat \ {0}, NEW r \in Recordable
  PROVE  /\ Written(r) \in Seq(Byte) /\ Len(Written(r)) \in Nat
         /\ Header(r) \in Nat /\ Len(r[2]) \in Nat
         /\ 4 <= Header(r) /\ Header(r) <= Len(Written(r))
         /\ Len(Written(r)) = Header(r) + Len(r[2])
         /\ r[1] = TypeLog => Header(r) = 4 + TsBytes /\ Len(TimeStamp(r)) = TsBytes
         /\ r[1] # TypeLog => Header(r) = 4 /\ Len(TimeStamp(r)) = 0
         /\ r[1] = TypeEndLogFile => 4 < Len(Written(r))
<1> DEFINE w == Written(r)
           size == Len(w)
           h == Header(r)
           n2 == Len(r[2])
           stamp == TimeStamp(r)
           ts == Len(stamp)
<1>1. /\ w \in Seq(Byte) /\ size = h + n2 /\ r[2] \in Seq(Byte)
      /\ h = (IF r[1] = TypeLog THEN 4 + TsBytes ELSE 4)
  BY WrittenIs
<1>2. size \in Nat /\ n2 \in Nat
  <2> HIDE DEF w
  <2> QED BY <1>1, LenProperties
<1>3. ts \in Nat
  <2>1. stamp \in Seq(Int)
    <3>1. CASE r[1] = TypeLog
      <4>1. stamp = [k \in 1..TsBytes |-> 0]
        BY <3>1 DEF TimeStamp
      <4> QED BY <4>1
    <3>2. CASE r[1] # TypeLog
      <4>1. stamp = <<>>
        BY <3>2 DEF TimeStamp
      <4> QED BY <4>1
    <3> QED BY <3>1, <3>2
  <2> HIDE DEF stamp
  <2> QED BY <2>1, LenProperties
<1>4. h = 4 + ts
  BY DEF Header
<1>5. r[1] = TypeEndLogFile => r[2] # <<>>
  BY NameIsThere
<1>6. r[1] = TypeEndLogFile => n2 # 0
  BY <1>1, <1>5, EmptySeq
<1>7. TsBytes \in Nat
  OBVIOUS
<1> HIDE DEF w, size, h, n2, ts
<1>8. CASE r[1] = TypeLog
  <2>1. h = 4 + TsBytes
    BY <1>1, <1>8
  <2>2. ts = TsBytes
    BY ONLY <1>3, <1>4, <1>7, <2>1
  <2>3. h \in Nat /\ 4 <= h /\ h <= size
    BY ONLY <1>1, <1>2, <1>7, <2>1
  <2>4. r[1] # TypeEndLogFile
    BY <1>8 DEF TypeLog, TypeEndLogFile
  <2> QED BY <1>1, <1>2, <1>8, <2>1, <2>2, <2>3, <2>4 DEF w, size, h, n2, ts
<1>9. CASE r[1] # TypeLog
  <2>1. h = 4
    BY <1>1, <1>9
  <2>2. ts = 0
    BY ONLY <1>3, <1>4, <2>1
  <2>3. h \in Nat /\ 4 <= h /\ h <= size
    <3>1. size = h + n2
      BY <1>1
    <3> QED BY ONLY <1>2, <2>1, <3>1
  <2>4. r[1] = TypeEndLogFile => 4 < size
    <3> SUFFICES ASSUME r[1] = TypeEndLogFile PROVE 4 < size
      OBVIOUS
    <3>1. n2 # 0 /\ size = h + n2
      BY <1>1, <1>6
    <3> QED BY ONLY <1>2, <2>1, <3>1
  <2> QED BY <1>1, <1>2, <1>9, <2>1, <2>2, <2>3, <2>4 DEF w, size, h, n2, ts
<1> QED BY <1>8, <1>9

(* What the parser has read when it has taken something.                   *)
LEMMA TookIs ==
  ASSUME NEW r, NEW p \in Nat, NEW to \in Nat, to = ToOf(field, r), Took(r, p), p <= to,
         NEW q, q = p + Taken
  PROVE  /\ q \in Nat /\ p <= q /\ q <= to /\ Left = to - q
         /\ Complete => q = to
         /\ ~Complete => q < to
         /\ field = "PAYLOAD" => NowGot = SubSeq(Written(r), p + 1, q)
         /\ field # "PAYLOAD" => NowGot = SubSeq(Written(r), FromOf(field) + 1, q)
<1> DEFINE t == Taken
           left == Left
<1>1. t \in Nat /\ q = p + t /\ q <= to /\ left = to - q
  BY DEF Took
<1>2. NowGot = IF field = "PAYLOAD" THEN SubSeq(Written(r), p + 1, q)
               ELSE SubSeq(Written(r), FromOf(field) + 1, q)
  BY DEF Took
<1>3. Complete <=> left = 0
  BY DEF Complete
<1> HIDE DEF t, left
<1>4. p \in Nat /\ to \in Nat
  OBVIOUS
<1>5. q \in Nat /\ p <= q
  BY ONLY <1>1, <1>4
<1>6. left = 0 => q = to
  BY ONLY <1>1, <1>4, <1>5
<1>7. left # 0 => q < to
  BY ONLY <1>1, <1>4, <1>5
<1> QED BY <1>1, <1>2, <1>3, <1>5, <1>6, <1>7 DEF left

(* The type is read.                                                       *)
LEMMA TypeMoves ==
  ASSUME TsBytes \in Nat \ {0}, NEW r \in Recordable, NEW p,
         At(r, p, field, msgType, got, toRead, payloadLen), Took(r, p),
         ret = [Nothing EXCEPT !.type = msgType], ReadType
  PROVE  Moved(r, p, p + Taken)
<1> DEFINE w == Written(r)
           size == Len(w)
           q == p + Taken
<1>1. field = "TYPE" /\ msgType = NoType
  BY DEF ReadType, Iteration, At
<1>2. p \in Nat /\ p < 2 /\ payloadLen \in Nat
  BY <1>1 DEF At, ToOf, FromOf
<1>3. q \in Nat /\ p <= q /\ q <= 2 /\ Left = 2 - q /\ NowGot = SubSeq(w, 1, q)
  BY <1>1, <1>2 DEF Took, ToOf, FromOf
<1>4. w \in Seq(Byte) /\ size \in Nat /\ 4 <= size /\ 2 <= Header(r)
  <2> DEFINE h == Header(r)
  <2>1. h \in Nat /\ 4 <= h /\ h <= size /\ size \in Nat
    BY SizesOf
  <2> HIDE DEF size, h
  <2>2. 4 <= size /\ 2 <= h
    BY ONLY <2>1
  <2> QED BY <2>1, <2>2, SizesOf DEF h
<1> HIDE DEF w, size, q
<1>5. DueIn(r, p, q) = <<>>
  <2>1. p \in Nat /\ q \in Nat /\ p <= q /\ q <= Header(r) /\ q < size /\ q <= size
    <3> DEFINE h == Header(r)
    <3>1. h \in Nat /\ size \in Nat /\ 4 <= size /\ 2 <= h
      BY <1>4, SizesOf
    <3>2. p \in Nat
      BY <1>2
    <3>3. q \in Nat /\ p <= q /\ q <= 2
      BY <1>3
    <3> HIDE DEF h
    <3>4. q <= h /\ q < size /\ q <= size
      BY ONLY <3>1, <3>3
    <3> QED BY <3>2, <3>3, <3>4 DEF h
  <2> QED BY <2>1, NothingDue DEF size, w
<1>6. CASE Complete
  <2>1. /\ field' = "MSG_LEN" /\ got' = <<>> /\ toRead' = 2 /\ msgType' = Unpack(NowGot)
        /\ ret' = [ret EXCEPT !.type = msgType'] /\ payloadLen' = payloadLen
    BY <1>6 DEF ReadType, ReadNext
  <2>2. q = 2
    BY <1>3, <1>6 DEF Complete
  <2>3. msgType' = r[1]
    <3>1. msgType' = Unpack(SubSeq(Written(r), 1, 2))
      BY <1>3, <2>1, <2>2 DEF w
    <3> QED BY <3>1, WrittenIs
  <2>4. PendingOf(ret') = <<>>
    <3>1. ret' = [Nothing EXCEPT !.type = r[1]]
      BY <2>1, <2>3 DEF Nothing
    <3> QED BY <3>1, NothingPending
  <2>5. SubSeq(w, 3, 2) = <<>>
    <3>1. SubSeq(w, 2 + 1, 2) = <<>>
      BY <1>4, NoStretch
    <3> QED BY <3>1
  <2>6. At(r, q, field', msgType', got', toRead', payloadLen')
    BY <1>2, <2>1, <2>2, <2>3, <2>5 DEF At, FromOf, ToOf, Fields, w
  <2> QED BY <1>5, <2>4, <2>6 DEF Moved, q
<1>7. CASE ~Complete
  <2>1. /\ field' = "TYPE" /\ got' = SubSeq(w, 1, q) /\ toRead' = 2 - q /\ msgType' = NoType
        /\ ret' = ret /\ payloadLen' = payloadLen
    BY <1>1, <1>3, <1>7 DEF ReadType, Stay
  <2>2. q < 2
    BY <1>3, <1>7 DEF Complete
  <2>3. PendingOf(ret') = <<>>
    BY <2>1, NothingPending
  <2>4. At(r, q, field', msgType', got', toRead', payloadLen')
    BY <1>2, <1>3, <2>1, <2>2 DEF At, FromOf, ToOf, Fields, w
  <2> QED BY <1>5, <2>3, <2>4 DEF Moved, q
<1> QED BY <1>6, <1>7

(* The length is read.                                                     *)
LEMMA MsgLenMoves ==
  ASSUME TsBytes \in Nat \ {0}, NEW r \in Recordable, NEW p,
         At(r, p, field, msgType, got, toRead, payloadLen), Took(r, p),
         ret = [Nothing EXCEPT !.type = msgType], ReadMsgLen
  PROVE  Moved(r, p, p + Taken)
<1> DEFINE w == Written(r)
           size == Len(w)
           q == p + Taken
           n2 == Len(r[2])
           h == Header(r)
           ts == Len(TimeStamp(r))
<1>1. field = "MSG_LEN" /\ msgType = r[1]
  BY DEF ReadMsgLen, Iteration, At
<1>2. p \in Nat /\ 2 <= p /\ p < 4 /\ payloadLen \in Nat
  BY <1>1 DEF At, ToOf, FromOf
<1>3. /\ q \in Nat /\ p <= q /\ q <= 4 /\ Left = 4 - q /\ NowGot = SubSeq(w, 3, q)
      /\ (Complete => q = 4) /\ (~Complete => q < 4)
  <2>1. ToOf(field, r) = 4 /\ FromOf(field) + 1 = 3 /\ p <= 4
    BY <1>1, <1>2 DEF ToOf, FromOf
  <2> QED BY <1>1, <1>2, <2>1, TookIs
<1>4. /\ w \in Seq(Byte) /\ size \in Nat /\ h \in Nat /\ n2 \in Nat
      /\ 4 <= h /\ h <= size /\ size = h + n2
      /\ r[1] = TypeLog => h = 4 + TsBytes /\ ts = TsBytes
      /\ r[1] # TypeLog => h = 4 /\ ts = 0
      /\ r[1] = TypeEndLogFile => 4 < size
  BY SizesOf
<1>5. /\ r[1] \in {TypeLog, TypeStartLogFile, TypeEndLogFile}
      /\ Unpack(SubSeq(w, 3, 4)) = ts + n2
  BY WrittenIs
<1> HIDE DEF w, size, q, n2, h, ts
<1>6. TsBytes \in Nat /\ TsBytes > 0
  OBVIOUS
<1>7. DueIn(r, p, q) = <<>>
  <2>1. q \in Nat /\ q <= 4 /\ h \in Nat /\ size \in Nat /\ 4 <= h /\ h <= size
    BY <1>3, <1>4
  <2>2. q <= h /\ q <= size
    BY ONLY <2>1
  <2>3. 4 < size => q < size
    BY ONLY <2>1
  <2>4. p \in Nat /\ p <= q
    BY <1>2, <1>3
  <2> QED BY <1>4, <2>1, <2>2, <2>3, <2>4, NothingDue DEF size, w, h
<1>8. CASE Complete
  <2>1. q = 4
    BY <1>3, <1>8
  <2>2. Unpack(NowGot) = ts + n2
    BY <1>3, <1>5, <2>1
  <2>3. msgType' = r[1] /\ ret' = ret /\ PendingOf(ret') = <<>>
    BY <1>1, NothingPending DEF ReadMsgLen
  <2>4. SubSeq(w, 5, 4) = <<>>
    <3>1. SubSeq(w, 4 + 1, 4) = <<>>
      BY <1>4, NoStretch
    <3> QED BY <3>1
  <2>5. CASE r[1] = TypeLog
    <3>2. ts = TsBytes
      BY <1>4, <2>5
    <3>3. payloadLen' = n2
      <4>1. payloadLen' = Unpack(NowGot) - TsBytes
        BY <1>1, <1>8, <2>5 DEF ReadMsgLen, TypeLog, TypeStartLogFile, TypeEndLogFile
      <4>2. payloadLen' = (TsBytes + n2) - TsBytes /\ n2 \in Nat
        BY <1>4, <2>2, <3>2, <4>1
      <4> QED BY ONLY <1>6, <4>2
    <3>4. field' = "TS" /\ got' = <<>> /\ toRead' = TsBytes
      BY <1>1, <1>8, <2>5 DEF ReadMsgLen, ReadNext, TypeLog, TypeStartLogFile, TypeEndLogFile
    <3>5. At(r, 4, "TS", r[1], <<>>, TsBytes, n2)
      <4> DEFINE to == 4 + TsBytes
      <4>1. to \in Nat /\ 4 < to /\ TsBytes = to - 4 /\ FromOf("TS") = 4 /\ ToOf("TS", r) = to
        BY <1>6 DEF FromOf, ToOf
      <4>2. n2 \in Nat /\ n2 = Len(r[2]) /\ SubSeq(Written(r), 4 + 1, 4) = <<>>
        BY <1>4, <2>4 DEF n2, w
      <4> HIDE DEF to
      <4>3. /\ 4 \in Nat /\ FromOf("TS") <= 4 /\ 4 <= ToOf("TS", r) /\ TsBytes = ToOf("TS", r) - 4
            /\ <<>> = SubSeq(Written(r), FromOf("TS") + 1, 4) /\ 4 < ToOf("TS", r)
        BY <4>1, <4>2
      <4>4. n2 \in Nat /\ n2 = Len(r[2]) /\ "TS" \in Fields
        BY <4>2 DEF Fields
      <4> QED BY ONLY <2>5, <4>3, <4>4 DEF At
    <3>6. At(r, q, field', msgType', got', toRead', payloadLen')
      BY <2>1, <2>3, <3>3, <3>4, <3>5, Zenon
    <3> QED BY <1>7, <2>3, <3>6 DEF Moved, q
  <2>6. CASE r[1] # TypeLog
    <3>1. h = 4 /\ ts = 0
      BY <1>4, <2>6
    <3>3. field' = "FILENAME" /\ got' = <<>> /\ toRead' = n2 /\ payloadLen' = payloadLen
      <4>1. r[1] \in {TypeStartLogFile, TypeEndLogFile}
        BY <1>5, <2>6
      <4>2. field' = "FILENAME" /\ got' = <<>> /\ toRead' = Unpack(NowGot) /\ payloadLen' = payloadLen
        BY <1>1, <1>8, <2>6, <4>1 DEF ReadMsgLen, ReadNext
      <4> QED BY <1>4, <2>2, <3>1, <4>2
    <3>4. At(r, 4, "FILENAME", r[1], <<>>, n2, payloadLen)
      <4>1. size = 4 + n2 /\ n2 = size - 4 /\ 4 <= size
        <5>1. size = h + n2 /\ n2 \in Nat /\ h = 4
          BY <1>4, <3>1
        <5> QED BY ONLY <5>1
      <4>2. FromOf("FILENAME") = 4 /\ ToOf("FILENAME", r) = size
        BY DEF FromOf, ToOf, size, w
      <4>3. SubSeq(Written(r), 4 + 1, 4) = <<>> /\ size = Len(Written(r)) /\ payloadLen \in Nat
        BY <1>2, <2>4 DEF w, size
      <4> QED BY <1>4, <2>6, <4>1, <4>2, <4>3 DEF At, Fields
    <3>5. At(r, q, field', msgType', got', toRead', payloadLen')
      BY <2>1, <2>3, <3>3, <3>4, Zenon
    <3> QED BY <1>7, <2>3, <3>5 DEF Moved, q
  <2> QED BY <2>5, <2>6
<1>9. CASE ~Complete
  <2>1. /\ field' = "MSG_LEN" /\ got' = SubSeq(w, 3, q) /\ toRead' = 4 - q /\ msgType' = r[1]
        /\ ret' = ret /\ payloadLen' = payloadLen
    BY <1>1, <1>3, <1>5, <1>9 DEF ReadMsgLen, Stay
  <2>2. q < 4
    BY <1>3, <1>9
  <2>3. PendingOf(ret') = <<>>
    BY <2>1, NothingPending
  <2>4. At(r, q, field', msgType', got', toRead', payloadLen')
    BY <1>2, <1>3, <2>1, <2>2 DEF At, FromOf, ToOf, Fields, w
  <2> QED BY <1>7, <2>3, <2>4 DEF Moved, q
<1> QED BY <1>8, <1>9

(* The time stamp is read.                                                 *)
LEMMA TsMoves ==
  ASSUME TsBytes \in Nat \ {0}, NEW r \in Recordable, NEW p,
         At(r, p, field, msgType, got, toRead, payloadLen), Took(r, p),
         ret = [Nothing EXCEPT !.type = msgType], ReadTs
  PROVE  Moved(r, p, p + Taken)
<1> DEFINE w == Written(r)
           size == Len(w)
           q == p + Taken
           n2 == Len(r[2])
           to == 4 + TsBytes
<1>1. field = "TS" /\ msgType = r[1] /\ r[1] = TypeLog
  BY DEF ReadTs, Iteration, At
<1>2. p \in Nat /\ 4 <= p /\ p < to /\ payloadLen = n2 /\ n2 \in Nat
  BY <1>1 DEF At, ToOf, FromOf
<1>3. /\ q \in Nat /\ p <= q /\ q <= to /\ Left = to - q /\ NowGot = SubSeq(w, 5, q)
      /\ (Complete => q = to) /\ (~Complete => q < to)
  <2>1. ToOf(field, r) = to /\ FromOf(field) + 1 = 5 /\ to \in Nat /\ p <= to
    BY <1>1, <1>2 DEF ToOf, FromOf
  <2>2. field # "PAYLOAD"
    BY <1>1
  <2> HIDE DEF to
  <2>3. /\ q \in Nat /\ p <= q /\ q <= to /\ Left = to - q
        /\ (Complete => q = to) /\ (~Complete => q < to)
        /\ NowGot = SubSeq(Written(r), FromOf(field) + 1, q)
    BY <1>2, <2>1, <2>2, TookIs
  <2> QED BY <2>1, <2>3
<1>4. /\ w \in Seq(Byte) /\ size \in Nat /\ size = to + n2 /\ Header(r) = to /\ to \in Nat
      /\ to <= size
  <2>1. Header(r) = to
    BY <1>1, SizesOf
  <2> HIDE DEF to
  <2> QED BY <2>1, SizesOf
<1> HIDE DEF w, size, q, n2
<1>40. ToOf("TS", r) = to /\ FromOf("TS") = 4 /\ ToOf("PAYLOAD", r) = size /\ FromOf("PAYLOAD") = to
  BY DEF FromOf, ToOf, size, w
<1> HIDE DEF to
<1>5. DueIn(r, p, q) = <<>>
  <2>1. p \in Nat /\ q \in Nat /\ p <= q /\ q <= Header(r) /\ q <= size
    <3>1. q \in Nat /\ q <= to /\ to <= size /\ to \in Nat /\ size \in Nat
      BY <1>3, <1>4
    <3>2. q <= size
      BY ONLY <3>1
    <3> QED BY <1>2, <1>3, <1>4, <3>2
  <2>2. r[1] # TypeEndLogFile
    BY <1>1 DEF TypeLog, TypeEndLogFile
  <2> QED BY <2>1, <2>2, NothingDue DEF size, w
<1>6. msgType' = r[1] /\ ret' = ret /\ PendingOf(ret') = <<>> /\ payloadLen' = n2
  BY <1>1, <1>2, NothingPending DEF ReadTs
<1>7. CASE Complete
  <2>1. q = to
    BY <1>3, <1>7
  <2>2. field' = "PAYLOAD" /\ got' = <<>> /\ toRead' = n2
    BY <1>2, <1>7 DEF ReadTs, ReadNext
  <2>3. n2 = size - to /\ to <= size
    <3>1. to \in Nat /\ n2 \in Nat /\ size = to + n2
      BY <1>2, <1>4
    <3> QED BY ONLY <3>1
  <2>4. At(r, to, "PAYLOAD", r[1], <<>>, n2, n2)
    BY <1>1, <1>2, <1>4, <1>40, <2>3 DEF At, Fields
  <2>5. At(r, q, field', msgType', got', toRead', payloadLen')
    BY <1>6, <2>1, <2>2, <2>4, Zenon
  <2> QED BY <1>5, <1>6, <2>5 DEF Moved, q
<1>8. CASE ~Complete
  <2>1. field' = "TS" /\ got' = SubSeq(w, 5, q) /\ toRead' = to - q
    BY <1>1, <1>3, <1>8 DEF ReadTs, Stay
  <2>2. q < to
    BY <1>3, <1>8
  <2>3. At(r, q, field', msgType', got', toRead', payloadLen')
    <3>1. 4 <= q
      <4>1. p \in Nat /\ 4 <= p /\ q \in Nat /\ p <= q
        BY <1>2, <1>3
      <4> QED BY ONLY <4>1
    <3>2. n2 = Len(r[2]) /\ w = Written(r)
      BY DEF n2, w
    <3>3. /\ q \in Nat /\ FromOf("TS") <= q /\ q <= ToOf("TS", r) /\ to - q = ToOf("TS", r) - q
          /\ SubSeq(w, 5, q) = SubSeq(Written(r), FromOf("TS") + 1, q) /\ q < ToOf("TS", r)
      <4>1. SubSeq(w, 5, q) = SubSeq(Written(r), 4 + 1, q)
        BY <3>2
      <4>2. q \in Nat /\ q <= to /\ q < to
        BY <1>3, <2>2
      <4>3. FromOf("TS") = 4 /\ ToOf("TS", r) = to
        BY <1>40
      <4> QED BY ONLY <3>1, <4>1, <4>2, <4>3
    <3>4. n2 \in Nat /\ n2 = Len(r[2]) /\ "TS" \in Fields
      BY <1>2, <3>2 DEF Fields
    <3>5. At(r, q, "TS", r[1], SubSeq(w, 5, q), to - q, n2)
      BY ONLY <1>1, <3>3, <3>4 DEF At
    <3> QED BY <1>6, <2>1, <3>5, Zenon
  <2> QED BY <1>5, <1>6, <2>3 DEF Moved, q
<1> QED BY <1>7, <1>8

(* A part of the payload is read and handed on.                            *)
LEMMA PayloadMoves ==
  ASSUME TsBytes \in Nat \ {0}, NEW r \in Recordable, NEW p,
         At(r, p, field, msgType, got, toRead, payloadLen), Took(r, p),
         ret = [Nothing EXCEPT !.type = msgType], ReadPayload
  PROVE  Moved(r, p, p + Taken)
<1> DEFINE w == Written(r)
           size == Len(w)
           q == p + Taken
<1>1. field = "PAYLOAD" /\ msgType = r[1] /\ r[1] = TypeLog
  BY DEF ReadPayload, Iteration, At
<1>2. p \in Nat /\ 4 + TsBytes <= p /\ p <= size /\ payloadLen \in Nat
  BY <1>1 DEF At, ToOf, FromOf
<1>3. /\ q \in Nat /\ p <= q /\ q <= size /\ Left = size - q /\ NowGot = SubSeq(w, p + 1, q)
      /\ (Complete => q = size) /\ (~Complete => q < size)
  <2>1. ToOf(field, r) = size /\ size \in Nat
    BY <1>1, SizesOf DEF ToOf
  <2> HIDE DEF size
  <2> QED BY <1>1, <1>2, <2>1, TookIs
<1>4. w \in Seq(Byte) /\ size \in Nat /\ Header(r) = 4 + TsBytes
  BY <1>1, SizesOf
<1> HIDE DEF w, size, q
<1>5. DueIn(r, p, q) = Bytes(NowGot)
  <2>1. p \in Nat /\ q \in Nat /\ Header(r) <= p /\ p <= q /\ q <= size
    BY <1>2, <1>3, <1>4
  <2>2. DueIn(r, p, q) = Bytes(SubSeq(w, p + 1, q))
    BY <1>1, <2>1, PayloadDue DEF size, w
  <2> QED BY <1>3, <2>2
<1>6. PendingOf(ret') = Bytes(NowGot)
  <2>1. ret.type = TypeLog /\ ret.payload = <<>>
    BY <1>1 DEF Nothing
  <2>2. ret' = IF NowGot = <<>> THEN ret ELSE [ret EXCEPT !.payload = NowGot]
    BY DEF ReadPayload
  <2>3. ret'.type = TypeLog /\ ret'.payload = NowGot
    <3>1. ret = [type |-> msgType, payload |-> <<>>, filename |-> <<>>]
      BY DEF Nothing
    <3> QED BY <2>1, <2>2, <3>1
  <2> QED BY <2>3 DEF PendingOf
<1>7. CASE Complete
  <2>1. q = size
    BY <1>3, <1>7
  <2>2. AtStart(field', msgType', got', toRead', payloadLen')
    BY <1>7 DEF ReadPayload, InitState, ReadNext, AtStart
  <2> QED BY <1>5, <1>6, <2>1, <2>2 DEF Moved, q, size, w
<1>8. CASE ~Complete
  <2>1. /\ field' = "PAYLOAD" /\ got' = <<>> /\ toRead' = size - q /\ msgType' = r[1]
        /\ payloadLen' = payloadLen
    BY <1>1, <1>3, <1>8 DEF ReadPayload, ReadNext
  <2>2. 4 + TsBytes <= q
    BY <1>2, <1>3
  <2>3. At(r, q, field', msgType', got', toRead', payloadLen')
    BY <1>1, <1>2, <1>3, <2>1, <2>2 DEF At, FromOf, ToOf, Fields, w, size
  <2> QED BY <1>5, <1>6, <2>3 DEF Moved, q
<1> QED BY <1>7, <1>8

(* The name of a log file is read.                                         *)
LEMMA FilenameMoves ==
  ASSUME TsBytes \in Nat \ {0}, NEW r \in Recordable, NEW p,
         At(r, p, field, msgType, got, toRead, payloadLen), Took(r, p),
         ret = [Nothing EXCEPT !.type = msgType], ReadFilename
  PROVE  Moved(r, p, p + Taken)
<1> DEFINE w == Written(r)
           size == Len(w)
           q == p + Taken
<1>1. field = "FILENAME" /\ msgType = r[1] /\ r[1] # TypeLog
  BY DEF ReadFilename, Iteration, At
<1>2. /\ p \in Nat /\ 4 <= p /\ p <= size /\ payloadLen \in Nat
      /\ r[1] = TypeEndLogFile => p < size
  BY <1>1 DEF At, ToOf, FromOf
<1>3. /\ q \in Nat /\ p <= q /\ q <= size /\ Left = size - q /\ NowGot = SubSeq(w, 5, q)
      /\ (Complete => q = size) /\ (~Complete => q < size)
  <2>1. ToOf(field, r) = size /\ size \in Nat /\ FromOf(field) + 1 = 5
    BY <1>1, SizesOf DEF ToOf, FromOf
  <2> HIDE DEF size
  <2> QED BY <1>1, <1>2, <2>1, TookIs
<1>4. /\ w \in Seq(Byte) /\ size \in Nat /\ Header(r) = 4 /\ r = <<r[1], r[2]>>
      /\ SubSeq(w, 5, size) = r[2]
      /\ r[1] \in {TypeLog, TypeStartLogFile, TypeEndLogFile}
  <2>1. Header(r) = 4 /\ r = <<r[1], r[2]>> /\ SubSeq(w, Header(r) + 1, size) = r[2]
    BY <1>1, WrittenIs
  <2> QED BY <2>1, WrittenIs, LenProperties
<1> HIDE DEF w, size, q
<1>5. r[1] = TypeEndLogFile /\ q = size => DueIn(r, p, q) = <<r>>
  <2> SUFFICES ASSUME r[1] = TypeEndLogFile, q = size PROVE DueIn(r, p, q) = <<r>>
    OBVIOUS
  <2> QED BY <1>2, NameDue DEF size, w
<1>6. ~(r[1] = TypeEndLogFile /\ q = size) => DueIn(r, p, q) = <<>>
  <2> SUFFICES ASSUME ~(r[1] = TypeEndLogFile /\ q = size) PROVE DueIn(r, p, q) = <<>>
    OBVIOUS
  <2>1. r[1] = TypeEndLogFile => q < size
    BY <1>3, <1>4
  <2> QED BY <1>1, <1>2, <1>3, <2>1, NothingDue DEF size, w
<1>7. ret = [type |-> r[1], payload |-> <<>>, filename |-> <<>>]
  BY <1>1 DEF Nothing
<1>8. CASE Complete
  <2>1. q = size
    BY <1>3, <1>8
  <2>2. AtStart(field', msgType', got', toRead', payloadLen')
    BY <1>8 DEF ReadFilename, InitState, ReadNext, AtStart
  <2>3. ret' = [type |-> r[1], payload |-> <<>>, filename |-> r[2]]
    <3>1. ret' = [ret EXCEPT !.filename = NowGot]
      BY <1>8 DEF ReadFilename
    <3>2. NowGot = r[2]
      BY <1>3, <1>4, <2>1
    <3> QED BY <1>7, <3>1, <3>2
  <2>4. PendingOf(ret') = DueIn(r, p, q)
    <3>1. ret'.type = r[1] /\ ret'.filename = r[2]
      BY <2>3
    <3>2. CASE r[1] = TypeEndLogFile
      <4>1. r[2] # <<>>
        BY <3>2, NameIsThere
      <4>2. PendingOf(ret') = <<<<r[1], r[2]>>>>
        BY <1>1, <3>1, <3>2, <4>1 DEF PendingOf
      <4> QED BY <1>4, <1>5, <2>1, <3>2, <4>2
    <3>3. CASE r[1] # TypeEndLogFile
      <4>1. PendingOf(ret') = <<>>
        BY <1>1, <3>1, <3>3 DEF PendingOf
      <4> QED BY <1>6, <3>3, <4>1
    <3> QED BY <3>2, <3>3
  <2> QED BY <2>1, <2>2, <2>4 DEF Moved, q, size, w
<1>9. CASE ~Complete
  <2>1. /\ field' = "FILENAME" /\ got' = SubSeq(w, 5, q) /\ toRead' = size - q /\ msgType' = r[1]
        /\ payloadLen' = payloadLen /\ ret' = ret
    BY <1>1, <1>3, <1>9 DEF ReadFilename, Stay
  <2>2. q < size
    BY <1>3, <1>9
  <2>3. PendingOf(ret') = <<>>
    BY <2>1, NothingPending
  <2>4. DueIn(r, p, q) = <<>>
    BY <1>4, <1>6, <2>2
  <2>5. 4 <= q
    BY <1>2, <1>3
  <2>6. At(r, q, field', msgType', got', toRead', payloadLen')
    BY <1>1, <1>2, <1>3, <2>1, <2>2, <2>5 DEF At, FromOf, ToOf, Fields, w, size
  <2> QED BY <2>3, <2>4, <2>6 DEF Moved, q
<1> QED BY <1>8, <1>9

(* The fields of a record, one after the other.                            *)
LEMMA ParserMoves ==
  ASSUME TsBytes \in Nat \ {0}, NEW r \in Recordable, NEW p,
         At(r, p, field, msgType, got, toRead, payloadLen), Took(r, p),
         ret = [Nothing EXCEPT !.type = msgType], ProcessStep
  PROVE  Moved(r, p, p + Taken)
<1>1. CASE ReadType
  BY <1>1, TypeMoves
<1>2. CASE ReadMsgLen
  BY <1>2, MsgLenMoves
<1>3. CASE ReadTs
  BY <1>3, TsMoves
<1>4. CASE ReadPayload
  BY <1>4, PayloadMoves
<1>5. CASE ReadFilename
  BY <1>5, FilenameMoves
<1> QED BY <1>1, <1>2, <1>3, <1>4, <1>5 DEF ProcessStep

-----------------------------------------------------------------------------
(* The parser in the stream *)

\* s goes on where the parser is inside a record, and d is what it is to add
InRecord(s, d, f, type, bytes, n, len) ==
    \E r \in Recordable : \E p, rest, dues :
        /\ At(r, p, f, type, bytes, n, len) /\ IsStream(rest, dues)
        /\ s = SubSeq(Written(r), p + 1, Len(Written(r))) \o rest
        /\ d = SubSeq(DueOf(r), p + 1, Len(Written(r))) \o dues

Place(s, d, f, type, bytes, n, len) ==
    \/ IsStream(s, d) /\ AtStart(f, type, bytes, n, len)
    \/ InRecord(s, d, f, type, bytes, n, len)

(* What is to be read is a number of bytes.                                *)
LEMMA PlaceIs ==
  ASSUME TsBytes \in Nat \ {0}, NEW s, NEW d, NEW f, NEW type, NEW bytes, NEW n, NEW len,
         Place(s, d, f, type, bytes, n, len)
  PROVE  n \in Nat /\ len \in Nat
<1>1. CASE AtStart(f, type, bytes, n, len)
  BY <1>1 DEF AtStart
<1>2. CASE InRecord(s, d, f, type, bytes, n, len)
  <2>0. PICK r \in Recordable : \E p : At(r, p, f, type, bytes, n, len)
    BY <1>2 DEF InRecord
  <2>1. PICK p : At(r, p, f, type, bytes, n, len)
    BY <2>0
  <2> DEFINE to == ToOf(f, r)
  <2>2. to \in Nat /\ p \in Nat /\ p <= to
    BY <2>1, PlacesOfFields
  <2>3. n = to - p /\ len \in Nat
    BY <2>1 DEF At
  <2> HIDE DEF to
  <2>4. n \in Nat
    BY ONLY <2>2, <2>3
  <2> QED BY <2>3, <2>4
<1> QED BY <1>1, <1>2 DEF Place

(* When there is more, the parser is inside a record.                      *)
LEMMA PlaceInRecord ==
  ASSUME TsBytes \in Nat \ {0}, NEW s, NEW d, NEW f, NEW type, NEW bytes, NEW n, NEW len,
         Place(s, d, f, type, bytes, n, len), s # <<>>
  PROVE  InRecord(s, d, f, type, bytes, n, len)
<1> SUFFICES ASSUME IsStream(s, d), AtStart(f, type, bytes, n, len)
             PROVE  InRecord(s, d, f, type, bytes, n, len)
  BY DEF Place
<1>1. PICK r \in Recordable : \E rest, dues :
         IsStream(rest, dues) /\ s = Written(r) \o rest /\ d = DueOf(r) \o dues
  <2>1. StartsRecord(s, d)
    BY StreamStarts
  <2> QED BY <2>1 DEF StartsRecord
<1>2. PICK rest, dues :
         IsStream(rest, dues) /\ s = Written(r) \o rest /\ d = DueOf(r) \o dues
  BY <1>1
<1>3. /\ Written(r) \in Seq(Byte) /\ DueOf(r) \in Seq(Seq(Items))
      /\ Len(DueOf(r)) = Len(Written(r))
  BY WrittenIs, DueOfIs
<1>4. SubSeq(Written(r), 0 + 1, Len(Written(r))) = Written(r)
  BY <1>3, SubSeqFull
<1>5. SubSeq(DueOf(r), 0 + 1, Len(Written(r))) = DueOf(r)
  <2>1. SubSeq(DueOf(r), 1, Len(DueOf(r))) = DueOf(r)
    BY <1>3, SubSeqFull
  <2> QED BY <1>3, <2>1
<1>6. At(r, 0, f, type, bytes, n, len)
  <2>1. SubSeq(Written(r), 0 + 1, 0) = <<>>
    BY <1>3, NoStretch
  <2> QED BY <2>1 DEF At, AtStart, FromOf, ToOf, Fields
<1>7. /\ s = SubSeq(Written(r), 0 + 1, Len(Written(r))) \o rest
      /\ d = SubSeq(DueOf(r), 0 + 1, Len(Written(r))) \o dues
  BY <1>2, <1>4, <1>5
<1>8. IsStream(rest, dues)
  BY <1>2
<1> QED BY <1>6, <1>7, <1>8, Zenon DEF InRecord

(* A record that is written behind what there is.                          *)
LEMMA PlaceGrows ==
  ASSUME TsBytes \in Nat \ {0}, NEW s, NEW d, NEW f, NEW type, NEW bytes, NEW n, NEW len,
         Place(s, d, f, type, bytes, n, len), NEW w \in Recordable
  PROVE  Place(s \o Written(w), d \o DueOf(w), f, type, bytes, n, len)
<1>1. CASE IsStream(s, d) /\ AtStart(f, type, bytes, n, len)
  <2>1. IsStream(s \o Written(w), d \o DueOf(w))
    BY <1>1, StreamGrows
  <2> QED BY <1>1, <2>1 DEF Place
<1>2. CASE InRecord(s, d, f, type, bytes, n, len)
  <2>0. PICK r \in Recordable : \E p, rest, dues :
           /\ At(r, p, f, type, bytes, n, len) /\ IsStream(rest, dues)
           /\ s = SubSeq(Written(r), p + 1, Len(Written(r))) \o rest
           /\ d = SubSeq(DueOf(r), p + 1, Len(Written(r))) \o dues
    BY <1>2 DEF InRecord
  <2>1. PICK p, rest, dues :
           /\ At(r, p, f, type, bytes, n, len) /\ IsStream(rest, dues)
           /\ s = SubSeq(Written(r), p + 1, Len(Written(r))) \o rest
           /\ d = SubSeq(DueOf(r), p + 1, Len(Written(r))) \o dues
    BY <2>0
  <2> DEFINE a == SubSeq(Written(r), p + 1, Len(Written(r)))
             b == SubSeq(DueOf(r), p + 1, Len(Written(r)))
  <2>2. IsStream(rest \o Written(w), dues \o DueOf(w))
    BY <2>1, StreamGrows
  <2>3. p \in Nat /\ p <= Len(Written(r)) /\ Len(Written(r)) \in Nat
    <3>1. /\ ToOf(f, r) \in Nat /\ p \in Nat /\ Len(Written(r)) \in Nat
          /\ p <= ToOf(f, r) /\ ToOf(f, r) <= Len(Written(r))
      BY <2>1, PlacesOfFields
    <3> QED BY ONLY <3>1
  <2>4. a \in Seq(Byte)
    <3> DEFINE x == Written(r)
    <3>1. x \in Seq(Byte)
      BY WrittenIs
    <3>2. p + 1 \in Nat \ {0} /\ p + 1 <= Len(x) + 1
      BY <2>3
    <3> HIDE DEF x
    <3>3. SubSeq(x, p + 1, Len(x)) \in Seq(Byte)
      BY <2>3, <3>1, <3>2, Stretch DEF x
    <3> QED BY <3>3 DEF x
  <2>5. b \in Seq(Seq(Items))
    <3>1. Len(Written(r)) <= Len(Written(r))
      BY <2>3
    <3> QED BY <2>3, <3>1, StretchOfDue
  <2>6. rest \in Seq(Byte) /\ dues \in Seq(Seq(Items))
    BY <2>1 DEF IsStream
  <2>7. Written(w) \in Seq(Byte) /\ DueOf(w) \in Seq(Seq(Items))
    BY WrittenIs, DueOfIs
  <2> HIDE DEF a, b
  <2>8. (a \o rest) \o Written(w) = a \o (rest \o Written(w))
    BY <2>4, <2>6, <2>7, Associative
  <2>9. (b \o dues) \o DueOf(w) = b \o (dues \o DueOf(w))
    <3>1. \A x, y, z \in Seq(Seq(Items)) : (x \o y) \o z = x \o (y \o z)
      BY Associative
    <3> QED BY <2>5, <2>6, <2>7, <3>1, Zenon
  <2>10. /\ s \o Written(w) = SubSeq(Written(r), p + 1, Len(Written(r))) \o (rest \o Written(w))
         /\ d \o DueOf(w) = SubSeq(DueOf(r), p + 1, Len(Written(r))) \o (dues \o DueOf(w))
    BY <2>1, <2>8, <2>9, Zenon DEF a, b
  <2>11. At(r, p, f, type, bytes, n, len)
    BY <2>1
  <2>12. InRecord(s \o Written(w), d \o DueOf(w), f, type, bytes, n, len)
    BY <2>2, <2>10, <2>11, Zenon DEF InRecord
  <2> QED BY <2>12 DEF Place
<1> QED BY <1>1, <1>2 DEF Place

\* When x with y behind it is s from p + 1 on with rest behind it: the first t
\* elements of x, and what is left
IsTakenOff(s, p, t, x, y, rest) ==
    /\ SubSeq(x, 1, t) = SubSeq(s, p + 1, p + t)
    /\ SubSeq(x, t + 1, Len(x)) \o y = SubSeq(s, p + t + 1, Len(s)) \o rest

(* What is taken from the front of a sequence, seen in two ways.           *)
LEMMA TakenOff ==
  ASSUME NEW S, NEW s \in Seq(S), NEW p \in Nat, NEW t \in Nat, p + t <= Len(s),
         NEW x \in Seq(S), NEW y \in Seq(S), NEW rest \in Seq(S), t <= Len(x),
         x \o y = SubSeq(s, p + 1, Len(s)) \o rest
  PROVE  IsTakenOff(s, p, t, x, y, rest)
<1> DEFINE a == SubSeq(s, p + 1, Len(s))
<1>1. Len(s) \in Nat /\ Len(x) \in Nat
  BY LenProperties
<1>2. a \in Seq(S) /\ Len(a) = Len(s) - p
  <2>1. p + 1 \in Nat \ {0} /\ p + 1 <= Len(s) + 1 /\ Len(s) <= Len(s)
    BY <1>1
  <2>2. a \in Seq(S) /\ Len(a) = Len(s) - (p + 1) + 1
    BY <1>1, <2>1, Stretch
  <2> QED BY <1>1, <2>2
<1>3. t \in 0..Len(x) /\ t \in 0..Len(a)
  BY <1>1, <1>2
<1>4. /\ SubSeq(a, 1, t) = SubSeq(s, p + 1, p + t)
      /\ SubSeq(a, t + 1, Len(a)) = SubSeq(s, p + t + 1, Len(s))
  BY TakenBehind
<1>5. x \o y = a \o rest
  OBVIOUS
<1> HIDE DEF a
<1>6. /\ SubSeq(x \o y, 1, t) = SubSeq(x, 1, t)
      /\ SubSeq(x \o y, t + 1, Len(x \o y)) = SubSeq(x, t + 1, Len(x)) \o y
  BY <1>3, TakenFromFront
<1>7. /\ SubSeq(a \o rest, 1, t) = SubSeq(a, 1, t)
      /\ SubSeq(a \o rest, t + 1, Len(a \o rest)) = SubSeq(a, t + 1, Len(a)) \o rest
  BY <1>2, <1>3, TakenFromFront
<1> QED BY <1>4, <1>5, <1>6, <1>7, Zenon DEF IsTakenOff

\* x, with y behind it, without its first t bytes, and dx, which is what they are
\* to add
IsAdvanced(r, p, t, rest, dues, x, y, dx, dy) ==
    /\ SubSeq(x, t + 1, Len(x)) \o y
          = SubSeq(Written(r), p + t + 1, Len(Written(r))) \o rest
    /\ SubSeq(dx, t + 1, Len(dx)) \o dy
          = SubSeq(DueOf(r), p + t + 1, Len(Written(r))) \o dues
    /\ FlattenSeq(dx) = DueIn(r, p, p + t) \o FlattenSeq(SubSeq(dx, t + 1, Len(dx)))
    /\ SubSeq(dx, t + 1, Len(dx)) \in Seq(Seq(Items))
    /\ Len(SubSeq(dx, t + 1, Len(dx))) = Len(SubSeq(x, t + 1, Len(x)))
    /\ DueIn(r, p, p + t) \in Seq(Items)

(* The bytes that the parser takes, and what they are to add.              *)
LEMMA StreamMoves ==
  ASSUME TsBytes \in Nat \ {0}, NEW r \in Recordable, NEW p \in Nat, NEW t \in Nat,
         p + t <= Len(Written(r)),
         NEW rest, NEW dues, IsStream(rest, dues),
         NEW x \in Seq(Byte), NEW y \in Seq(Byte), t <= Len(x),
         x \o y = SubSeq(Written(r), p + 1, Len(Written(r))) \o rest,
         NEW dx \in Seq(Seq(Items)), NEW dy \in Seq(Seq(Items)), Len(dx) = Len(x),
         dx \o dy = SubSeq(DueOf(r), p + 1, Len(Written(r))) \o dues
  PROVE  IsAdvanced(r, p, t, rest, dues, x, y, dx, dy)
<1> DEFINE w == Written(r)
           d == DueOf(r)
           front == SubSeq(dx, 1, t)
           back == SubSeq(dx, t + 1, Len(dx))
<1>1. w \in Seq(Byte) /\ d \in Seq(Seq(Items)) /\ Len(d) = Len(w)
  BY WrittenIs, DueOfIs
<1>2. rest \in Seq(Byte) /\ dues \in Seq(Seq(Items))
  BY DEF IsStream
<1>3. SubSeq(x, t + 1, Len(x)) \o y = SubSeq(w, p + t + 1, Len(w)) \o rest
  <2>1. /\ p \in Nat /\ t \in Nat /\ p + t <= Len(w) /\ x \in Seq(Byte) /\ y \in Seq(Byte)
        /\ t <= Len(x) /\ x \o y = SubSeq(w, p + 1, Len(w)) \o rest
    OBVIOUS
  <2> HIDE DEF w
  <2>2. IsTakenOff(w, p, t, x, y, rest)
    BY ONLY <1>1, <1>2, <2>1, TakenOff
  <2> QED BY <2>2 DEF IsTakenOff
<1>4. p + t <= Len(d) /\ t <= Len(dx) /\ dx \o dy = SubSeq(d, p + 1, Len(d)) \o dues
  BY <1>1
<1> HIDE DEF d
<1>5. front = SubSeq(d, p + 1, p + t) /\ back \o dy = SubSeq(d, p + t + 1, Len(d)) \o dues
  <2>1. p \in Nat /\ t \in Nat /\ dx \in Seq(Seq(Items)) /\ dy \in Seq(Seq(Items))
    OBVIOUS
  <2> HIDE DEF w
  <2>2. IsTakenOff(d, p, t, dx, dy, dues)
    BY ONLY <1>1, <1>2, <1>4, <2>1, TakenOff
  <2> QED BY <2>2 DEF IsTakenOff
<1>6. t \in 0..Len(dx) /\ t \in 0..Len(x) /\ Len(dx) \in Nat
  <2>1. Len(dx) \in Nat
    BY LenProperties
  <2> QED BY <1>4, <2>1
<1>7. /\ front \in Seq(Seq(Items)) /\ back \in Seq(Seq(Items)) /\ dx = front \o back
      /\ Len(back) = Len(dx) - t
  BY <1>6, CutAt, Zenon
<1>8. Len(SubSeq(x, t + 1, Len(x))) = Len(x) - t
  BY <1>6, CutAt, Zenon
<1> HIDE DEF front, back
<1>9. FlattenSeq(dx) = FlattenSeq(front) \o FlattenSeq(back)
  BY <1>7, FlattenBoth
<1>10. FlattenSeq(front) \in Seq(Items)
  BY <1>7, FlattenAny
<1>11. FlattenSeq(front) = DueIn(r, p, p + t)
  BY <1>5 DEF DueIn, d
<1>12. Len(back) = Len(SubSeq(x, t + 1, Len(x)))
  BY <1>7, <1>8
<1> QED BY <1>1, <1>3, <1>5, <1>7, <1>9, <1>10, <1>11, <1>12 DEF back, d, IsAdvanced

-----------------------------------------------------------------------------
(* What the variables hold.  That the two bytes of a type or a length are   *)
(* two when they are unpacked is not said by their types, and needs to be   *)
(* known of them also behind a record that is cut.                          *)

ParserInv ==
    /\ ChronicleTypeOK
    /\ inProcess => pc = "process" /\ ret = [Nothing EXCEPT !.type = msgType]
    /\ pc # "process" => piece = <<>>
    /\ field \in {"TYPE", "MSG_LEN"} => toRead \in 0..2 /\ Len(got) = 2 - toRead

\* What an iteration takes, whatever is to be read
TakenIsOfPiece ==
    /\ Taken \in 0..Len(piece)
    /\ NowGot \in Seq(Byte) /\ Len(NowGot) = Len(got) + Taken
    /\ Rest \in Seq(Byte) /\ Left \in Nat
    /\ ~Complete => Rest = <<>> /\ Left = toRead - Taken
    /\ Complete /\ toRead \in Nat => Taken = toRead

(* It is a part of the piece, and all of it unless the field is complete.  *)
LEMMA TakenIs ==
  ASSUME piece \in Seq(Byte), got \in Seq(Byte), toRead \in Int
  PROVE  TakenIsOfPiece
<1> DEFINE t == Taken
           n == Len(piece)
           left == Left
           front == SubSeq(piece, 1, t)
<1>1. n \in Nat
  BY LenProperties
<1>2. t = (IF toRead >= 0 THEN IF n <= toRead THEN n ELSE toRead
           ELSE IF n + toRead > 0 THEN n + toRead ELSE 0)
  BY DEF Taken
<1>3. left = (IF n <= toRead THEN toRead - n ELSE 0)
  BY DEF Left
<1>4. toRead \in Int
  OBVIOUS
<1> HIDE DEF t, n, left, front
<1>5. t \in 0..n
  <2>1. CASE toRead >= 0
    BY ONLY <1>1, <1>2, <1>4, <2>1
  <2>2. CASE ~(toRead >= 0)
    BY ONLY <1>1, <1>2, <1>4, <2>2
  <2> QED BY <2>1, <2>2
<1>6. left \in Nat
  BY ONLY <1>1, <1>3, <1>4
<1>7. left # 0 => t = n /\ left = toRead - t
  BY ONLY <1>1, <1>2, <1>3, <1>4
<1>8. left = 0 /\ toRead \in Nat => t = toRead
  BY ONLY <1>1, <1>2, <1>3, <1>4
<1>9. front \in Seq(Byte) /\ Len(front) = t /\ Rest \in Seq(Byte) /\ Len(Rest) = n - t
  BY <1>5, CutAt DEF front, t, n, Rest
<1>10. NowGot \in Seq(Byte) /\ Len(NowGot) = Len(got) + t
  <2>1. NowGot = got \o front
    BY DEF NowGot, front, t
  <2>2. IsConcat(got \o front, Byte, got, front)
    BY <1>9, ConcatIs
  <2> QED BY <1>9, <2>1, <2>2 DEF IsConcat
<1>11. t = n => Rest = <<>>
  <2> SUFFICES ASSUME t = n PROVE Rest = <<>>
    OBVIOUS
  <2>1. Len(Rest) = 0
    BY <1>1, <1>9
  <2> QED BY <1>9, <2>1, EmptySeq
<1>12. Complete <=> left = 0
  BY DEF Complete, left
<1>13. ~Complete => Rest = <<>> /\ left = toRead - t
  BY <1>7, <1>11, <1>12
<1>14. Complete /\ toRead \in Nat => t = toRead
  BY <1>8, <1>12
<1> QED BY <1>5, <1>6, <1>9, <1>10, <1>13, <1>14 DEF TakenIsOfPiece, t, n, left

(* Two bytes are an integer.                                               *)
LEMMA UnpackType ==
  ASSUME NEW b \in Seq(Byte), Len(b) = 2
  PROVE  Unpack(b) \in Int
<1>1. b[1] \in Byte /\ b[2] \in Byte
  BY ElementOfSeq
<1>2. b[1] \in Int /\ b[2] \in Int
  <2>1. Byte \subseteq Int
    BY DEF Byte
  <2> QED BY ONLY <1>1, <2>1
<1> DEFINE n == b[1] + 256 * b[2]
<1>3. n \in Int
  BY <1>2
<1>4. Unpack(b) = IF n < 32768 THEN n ELSE n - 65536
  BY DEF Unpack
<1> HIDE DEF n
<1> QED BY <1>3, <1>4

(* process() is called.                                                    *)
LEMMA CallKeepsParserInv ==
  ASSUME ParserInv, NEW b \in Seq(Byte), Process(b), pc' = "process"
  PROVE  ParserInv' /\ ret' = [Nothing EXCEPT !.type = msgType']
<1>1. /\ piece' = b /\ inProcess' = TRUE /\ ret' = [Nothing EXCEPT !.type = msgType]
      /\ UNCHANGED <<field, msgType, got, toRead, payloadLen>>
  BY DEF Process
<1>2. ret' \in [type : Int, payload : Seq(Byte), filename : Seq(Byte)]
  <2>1. msgType \in Int /\ <<>> \in Seq(Byte)
    BY DEF ParserInv, ChronicleTypeOK
  <2> QED BY <1>1, <2>1 DEF Nothing
<1>3. ChronicleTypeOK'
  BY <1>1, <1>2 DEF ParserInv, ChronicleTypeOK
<1> QED BY <1>1, <1>3 DEF ParserInv

(* An iteration.                                                           *)
LEMMA IterationKeepsParserInv ==
  ASSUME ParserInv, ProcessStep, pc' = pc, TsBytes \in Nat
  PROVE  ParserInv'
<1>1. /\ piece \in Seq(Byte) /\ inProcess \in BOOLEAN
      /\ field \in Fields /\ msgType \in Int
      /\ got \in Seq(Byte) /\ toRead \in Int /\ payloadLen \in Int
      /\ ret \in [type : Int, payload : Seq(Byte), filename : Seq(Byte)]
  BY DEF ParserInv, ChronicleTypeOK
<1>2. /\ NowGot \in Seq(Byte) /\ Rest \in Seq(Byte) /\ Left \in Nat
      /\ ~Complete => Rest = <<>>
  BY <1>1, TakenIs DEF TakenIsOfPiece
<1>3. /\ inProcess = TRUE /\ piece' = Rest /\ pc = "process"
      /\ ret = [Nothing EXCEPT !.type = msgType]
      /\ field \in {"TYPE", "MSG_LEN", "TS", "PAYLOAD", "FILENAME"}
  BY DEF ParserInv, ProcessStep, ReadType, ReadMsgLen, ReadTs, ReadPayload, ReadFilename,
         Iteration
<1>4. ASSUME field \in {"TYPE", "MSG_LEN"}
      PROVE  /\ Complete => Unpack(NowGot) \in Int
             /\ Stay => toRead' \in 0..2 /\ Len(got') = 2 - toRead'
  <2> DEFINE t == Taken
             g == Len(got)
             k == Len(NowGot)
             left == Left
  <2>1. toRead \in 0..2 /\ g = 2 - toRead
    BY <1>4 DEF ParserInv
  <2>2. /\ t \in 0..Len(piece) /\ k = g + t
        /\ ~Complete => left = toRead - t
        /\ Complete /\ toRead \in Nat => t = toRead
    BY <1>1, TakenIs DEF TakenIsOfPiece
  <2>3. toRead \in Nat /\ Len(piece) \in Nat /\ left \in Nat
    BY <1>1, <1>2, <2>1, LenProperties
  <2>4. Complete <=> left = 0
    BY DEF Complete
  <2> HIDE DEF t, g, k, left
  <2>5. t \in Nat
    BY <2>2, <2>3
  <2>6. k = 2 - left /\ left \in 0..2
    <3>1. CASE left = 0
      <4>1. t = toRead /\ k = g + t
        BY <2>2, <2>3, <2>4, <3>1
      <4> QED BY ONLY <2>1, <2>3, <3>1, <4>1
    <3>2. CASE left # 0
      <4>1. left = toRead - t /\ k = g + t
        BY <2>2, <2>4, <3>2
      <4> QED BY ONLY <2>1, <2>3, <2>5, <4>1
    <3> QED BY <3>1, <3>2
  <2>7. ASSUME Complete PROVE Unpack(NowGot) \in Int
    <3>1. k = 2
      BY <2>4, <2>6, <2>7
    <3> QED BY <1>2, <3>1, UnpackType DEF k
  <2>8. ASSUME Stay PROVE toRead' \in 0..2 /\ Len(got') = 2 - toRead'
    <3>1. toRead' = left /\ Len(got') = k
      BY <2>8 DEF Stay, left, k
    <3> QED BY <2>6, <3>1
  <2> QED BY <2>7, <2>8
<1>5. ASSUME NEW f, NEW n, ReadNext(f, n), f \in {"TYPE", "MSG_LEN"} => n = 2
      PROVE  field' \in {"TYPE", "MSG_LEN"} => toRead' \in 0..2 /\ Len(got') = 2 - toRead'
  BY <1>5 DEF ReadNext
<1>6. ASSUME InitState
      PROVE  /\ field' \in Fields /\ got' \in Seq(Byte) /\ toRead' \in Int
             /\ msgType' \in Int /\ payloadLen' \in Int
             /\ toRead' \in 0..2 /\ Len(got') = 2 - toRead'
  BY <1>6 DEF InitState, ReadNext, Fields, NoType
<1>7. /\ piece' \in Seq(Byte) /\ inProcess' \in BOOLEAN
      /\ (pc' # "process" => piece' = <<>>) /\ pc' = "process"
  BY <1>2, <1>3
       DEF ProcessStep, ReadType, ReadMsgLen, ReadTs, ReadPayload, ReadFilename, GoOn, Break
<1> DEFINE Typed == /\ field' \in Fields /\ msgType' \in Int
                    /\ got' \in Seq(Byte) /\ toRead' \in Int /\ payloadLen' \in Int
                    /\ ret' \in [type : Int, payload : Seq(Byte), filename : Seq(Byte)]
           Bare == inProcess' => ret' = [Nothing EXCEPT !.type = msgType']
           Two == field' \in {"TYPE", "MSG_LEN"} => toRead' \in 0..2 /\ Len(got') = 2 - toRead'
<1>8. Typed /\ Bare /\ Two
  <2>1. CASE ReadType
    <3>1. field = "TYPE"
      BY <2>1 DEF ReadType, Iteration
    <3>2. CASE Complete
      <4>1. /\ ReadNext("MSG_LEN", 2) /\ msgType' = Unpack(NowGot)
            /\ ret' = [ret EXCEPT !.type = msgType'] /\ payloadLen' = payloadLen
        BY <2>1, <3>2 DEF ReadType
      <4>2. msgType' \in Int
        BY <1>4, <3>1, <3>2, <4>1
      <4>3. Typed
        BY <1>1, <4>1, <4>2 DEF ReadNext, Fields
      <4>4. Bare
        BY <1>3, <4>1 DEF Nothing
      <4>5. Two
        BY <4>1 DEF ReadNext
      <4> QED BY <4>3, <4>4, <4>5
    <3>3. CASE ~Complete
      <4>1. Stay /\ UNCHANGED <<msgType, ret, payloadLen>>
        BY <2>1, <3>3 DEF ReadType
      <4>2. Typed
        BY <1>1, <1>2, <4>1 DEF Stay
      <4>3. Bare
        BY <1>3, <4>1
      <4>4. Two
        BY <1>4, <3>1, <4>1
      <4> QED BY <4>2, <4>3, <4>4
    <3> QED BY <3>2, <3>3
  <2>2. CASE ReadMsgLen
    <3>1. field = "MSG_LEN" /\ UNCHANGED <<msgType, ret>>
      BY <2>2 DEF ReadMsgLen, Iteration
    <3>2. Bare
      BY <1>3, <3>1
    <3>3. CASE /\ Complete /\ payloadLen' = Unpack(NowGot) - TsBytes
               /\ ReadNext("TS", TsBytes)
      <4>1. payloadLen' \in Int
        BY <1>4, <3>1, <3>3
      <4>2. Typed
        BY <1>1, <3>1, <3>3, <4>1 DEF ReadNext, Fields
      <4>3. Two
        BY <3>3 DEF ReadNext
      <4> QED BY <3>2, <4>2, <4>3
    <3>4. CASE Complete /\ ReadNext("FILENAME", Unpack(NowGot)) /\ UNCHANGED payloadLen
      <4>1. Unpack(NowGot) \in Int
        BY <1>4, <3>1, <3>4
      <4>2. Typed
        BY <1>1, <3>1, <3>4, <4>1 DEF ReadNext, Fields
      <4>3. Two
        BY <3>4 DEF ReadNext
      <4> QED BY <3>2, <4>2, <4>3
    <3>5. CASE Stay /\ UNCHANGED payloadLen
      <4>1. Typed
        BY <1>1, <1>2, <3>1, <3>5 DEF Stay
      <4>2. Two
        BY <1>4, <3>1, <3>5
      <4> QED BY <3>2, <4>1, <4>2
    <3> QED BY <2>2, <3>3, <3>4, <3>5 DEF ReadMsgLen
  <2>3. CASE ReadTs
    <3>1. field = "TS" /\ UNCHANGED <<msgType, payloadLen, ret>>
      BY <2>3 DEF ReadTs, Iteration
    <3>2. CASE ReadNext("PAYLOAD", payloadLen)
      BY <1>1, <1>3, <3>1, <3>2 DEF ReadNext, Fields
    <3>3. CASE Stay
      BY <1>1, <1>2, <1>3, <3>1, <3>3 DEF Stay, Fields
    <3> QED BY <2>3, <3>2, <3>3 DEF ReadTs
  <2>4. CASE ReadPayload
    <3>1. /\ field = "PAYLOAD"
          /\ ret' = IF NowGot = <<>> THEN ret ELSE [ret EXCEPT !.payload = NowGot]
      BY <2>4 DEF ReadPayload, Iteration
    <3>2. ret' \in [type : Int, payload : Seq(Byte), filename : Seq(Byte)]
      BY <1>1, <1>2, <3>1
    <3>3. CASE Complete /\ InitState /\ Break
      BY <1>6, <3>2, <3>3 DEF Break
    <3>4. CASE /\ ~Complete /\ GoOn /\ ReadNext("PAYLOAD", Left)
               /\ UNCHANGED <<msgType, payloadLen>>
      <4>1. inProcess' = FALSE
        BY <1>2, <3>4 DEF GoOn
      <4>2. Left \in Int
        BY <1>2
      <4> HIDE DEF Left
      <4>3. Typed
        BY <1>1, <3>2, <3>4, <4>2 DEF ReadNext, Fields
      <4>4. Two
        BY <3>4 DEF ReadNext
      <4> QED BY <4>1, <4>3, <4>4
    <3> QED BY <2>4, <3>3, <3>4 DEF ReadPayload
  <2>5. CASE ReadFilename
    <3>1. field = "FILENAME"
      BY <2>5 DEF ReadFilename, Iteration
    <3>2. CASE Complete /\ InitState /\ Break /\ ret' = [ret EXCEPT !.filename = NowGot]
      <4>1. ret' \in [type : Int, payload : Seq(Byte), filename : Seq(Byte)]
        BY <1>1, <1>2, <3>2
      <4> QED BY <1>6, <3>2, <4>1 DEF Break
    <3>3. CASE ~Complete /\ GoOn /\ Stay /\ UNCHANGED <<msgType, payloadLen, ret>>
      BY <1>1, <1>2, <1>3, <3>1, <3>3 DEF Stay, Fields
    <3> QED BY <2>5, <3>2, <3>3 DEF ReadFilename
  <2> QED BY <2>1, <2>2, <2>3, <2>4, <2>5 DEF ProcessStep
<1>9. ChronicleTypeOK'
  BY <1>7, <1>8 DEF ChronicleTypeOK
<1> QED BY <1>7, <1>8, <1>9 DEF ParserInv

-----------------------------------------------------------------------------
(* What is fed and what was logged.  While records are whole: what was read *)
(* is what is fed, what process() has found and what the rest of the piece  *)
(* is to add; and the rest of the piece with the FIFO behind it is what the *)
(* parser expects where it is.                                              *)

FifoInv ==
    /\ fifo \in Seq(Byte) /\ due \in Seq(Seq(Items)) /\ Len(due) = Len(fifo)
    /\ fed \in Seq(Items) /\ owed \in Seq(Items)
    /\ pc \in {"config", "mkfifo", "start", "open", "read", "process", "receive", "exited",
               "raised"}
    /\ daemon \in {"none", "sleep", "look", "restart", "over"}
    /\ pause \in {"no", "waiting", "raised"}

\* dp is what the bytes that are left of the piece are to add
Accounts(dp) ==
    /\ Len(dp) = Len(piece)
    /\ owed = fed \o ((IF pc = "process" THEN PendingOf(ret) ELSE <<>>) \o FlattenSeq(dp))
    /\ Place(piece \o fifo, dp \o due, field, msgType, got, toRead, payloadLen)

StreamInv == ~cut => \E dp \in Seq(Seq(Items)) : Accounts(dp)

LoggedInv == ParserInv /\ FifoInv /\ StreamInv

(* What process() has found is of the type of what is fed.                 *)
LEMMA PendingType ==
  ASSUME ParserInv
  PROVE  PendingOf(ret) \in Seq(Items)
<1>1. ret.type \in Int /\ ret.payload \in Seq(Byte) /\ ret.filename \in Seq(Byte)
  BY DEF ParserInv, ChronicleTypeOK
<1>2. Bytes(ret.payload) \in Seq(Items)
  <2> DEFINE b == ret.payload
             n == Len(b)
             y == Bytes(b)
  <2>1. b \in Seq(Byte) /\ n \in Nat /\ DOMAIN b = 1..n
    BY <1>1, LenProperties
  <2>2. y = [i \in 1..n |-> <<TypeLog, <<b[i]>>>>]
    BY <2>1 DEF Bytes
  <2> HIDE DEF b, n, y
  <2>3. \A i \in 1..n : y[i] \in Items
    <3> TAKE i \in 1..n
    <3>1. b[i] \in Byte
      BY <2>1
    <3> DEFINE s == <<b[i]>>
    <3>2. s \in Seq(Byte)
      BY <3>1
    <3>3. y[i] = <<TypeLog, s>>
      BY <2>2
    <3> HIDE DEF s
    <3> QED BY <3>2, <3>3 DEF Items, TypeLog
  <2>4. y \in [1..n -> Items]
    BY <2>2, <2>3
  <2>5. y \in Seq(Items)
    BY <2>1, <2>4, FunctionIsSeq
  <2> QED BY <2>5 DEF y, b
<1>3. <<<<TypeEndLogFile, ret.filename>>>> \in Seq(Items)
  <2> DEFINE f == ret.filename
             e == <<TypeEndLogFile, f>>
  <2>1. f \in Seq(Byte)
    BY <1>1
  <2> HIDE DEF f
  <2>2. e \in Items
    BY <2>1 DEF Items, TypeEndLogFile
  <2> HIDE DEF e
  <2>3. <<e>> \in Seq(Items)
    BY <2>2
  <2> QED BY <2>3 DEF e, f
<1>4. <<>> \in Seq(Items)
  OBVIOUS
<1> QED BY <1>2, <1>3, <1>4 DEF PendingOf

(* What the invariant speaks of.                                           *)
LEMMA LoggedInvKept ==
  ASSUME LoggedInv, UNCHANGED <<chronicle, fifo, due, owed, fed, cut>>,
         pc = "process" <=> pc' = "process",
         pc' \in {"config", "mkfifo", "start", "open", "read", "process", "receive", "exited",
                  "raised"},
         daemon' \in {"none", "sleep", "look", "restart", "over"},
         pause' \in {"no", "waiting", "raised"}
  PROVE  LoggedInv'
<1>1. UNCHANGED <<piece, inProcess, field, msgType, got, toRead, payloadLen, ret>>
  BY DEF chronicle
<1>2. ParserInv'
  BY <1>1 DEF LoggedInv, ParserInv, ChronicleTypeOK
<1>3. FifoInv'
  BY DEF LoggedInv, FifoInv
<1>4. StreamInv'
  <2> SUFFICES ASSUME ~cut PROVE \E dp \in Seq(Seq(Items)) : Accounts(dp)'
    BY DEF StreamInv
  <2>1. PICK dp \in Seq(Seq(Items)) : Accounts(dp)
    BY DEF LoggedInv, StreamInv
  <2>2. Accounts(dp)'
    BY <1>1, <2>1 DEF Accounts
  <2> QED BY <2>2
<1> QED BY <1>2, <1>3, <1>4 DEF LoggedInv

(* A block is read.                                                        *)
LEMMA ReadFifoKeepsLoggedInv ==
  ASSUME LoggedInv, NEW n \in Nat, ReadFifo(n)
  PROVE  LoggedInv'
<1>1. /\ pc = "read" /\ n <= Len(fifo)
      /\ fifo' = SubSeq(fifo, n + 1, Len(fifo)) /\ due' = SubSeq(due, n + 1, Len(due))
      /\ owed' = owed \o FlattenSeq(SubSeq(due, 1, n))
      /\ UNCHANGED <<fed, cut, daemon, pause>>
  BY DEF ReadFifo, monitorVars, threadVars
<1>2. /\ fifo \in Seq(Byte) /\ due \in Seq(Seq(Items)) /\ Len(due) = Len(fifo)
      /\ fed \in Seq(Items) /\ owed \in Seq(Items)
      /\ piece = <<>>
  BY <1>1 DEF LoggedInv, FifoInv, ParserInv
<1> DEFINE front == SubSeq(fifo, 1, n)
           back == SubSeq(fifo, n + 1, Len(fifo))
           dfront == SubSeq(due, 1, n)
           dback == SubSeq(due, n + 1, Len(due))
<1>3. n \in 0..Len(fifo) /\ n \in 0..Len(due)
  <2>1. Len(fifo) \in Nat
    BY <1>2, LenProperties
  <2> QED BY <1>1, <1>2, <2>1
<1>4. /\ front \in Seq(Byte) /\ back \in Seq(Byte) /\ fifo = front \o back
      /\ Len(front) = n /\ Len(back) = Len(fifo) - n
  BY <1>2, <1>3, CutAt
<1>5. /\ dfront \in Seq(Seq(Items)) /\ dback \in Seq(Seq(Items)) /\ due = dfront \o dback
      /\ Len(dfront) = n /\ Len(dback) = Len(due) - n
  BY <1>2, <1>3, CutAt
<1> HIDE DEF front, back, dfront, dback
<1>6. FlattenSeq(dfront) \in Seq(Items) /\ FlattenSeq(<<>>) = <<>>
  BY <1>5, FlattenAny
<1>7. owed' \in Seq(Items) /\ owed' = owed \o FlattenSeq(dfront)
  <2>1. owed' = owed \o FlattenSeq(dfront)
    BY <1>1 DEF dfront
  <2>2. IsConcat(owed \o FlattenSeq(dfront), Items, owed, FlattenSeq(dfront))
    BY <1>2, <1>6, ConcatIs
  <2> QED BY <2>1, <2>2 DEF IsConcat
<1>8. FifoInv' /\ fifo' = back /\ due' = dback
  <2>1. fifo' = back /\ due' = dback
    BY <1>1 DEF back, dback
  <2>2. pc' \in {"process", "receive"}
    BY DEF ReadFifo, Goto
  <2>3. Len(due') = Len(fifo')
    BY <1>2, <1>4, <1>5, <2>1
  <2> QED BY <1>1, <1>4, <1>5, <1>7, <2>1, <2>2, <2>3 DEF LoggedInv, FifoInv
<1>9. ASSUME ~cut
      PROVE  /\ owed = fed
             /\ Place(fifo, due, field, msgType, got, toRead, payloadLen)
  <2>1. PICK dp \in Seq(Seq(Items)) : Accounts(dp)
    BY <1>9 DEF LoggedInv, StreamInv
  <2>2. dp = <<>>
    <3>1. Len(dp) = 0
      BY <1>2, <2>1 DEF Accounts
    <3> QED BY <3>1, EmptySeq
  <2>3. owed = fed \o (<<>> \o <<>>)
    BY <1>1, <1>6, <2>1, <2>2 DEF Accounts
  <2>4. piece \o fifo = fifo /\ dp \o due = due
    BY <1>2, <2>2, ConcatEmptySeq
  <2>5. <<>> \o <<>> = <<>> /\ fed \o <<>> = fed
    BY <1>2, ConcatEmptySeq
  <2>6. Place(piece \o fifo, dp \o due, field, msgType, got, toRead, payloadLen)
    BY <2>1 DEF Accounts
  <2>7. owed = fed
    BY <2>3, <2>5, Zenon
  <2> QED BY <2>4, <2>6, <2>7, Zenon
<1>10. CASE n > 0
  <2>1. Process(front) /\ pc' = "process"
    BY <1>10 DEF ReadFifo, Goto, front
  <2>2. ParserInv' /\ ret' = [Nothing EXCEPT !.type = msgType']
    BY <1>4, <2>1, CallKeepsParserInv DEF LoggedInv
  <2>3. piece' = front /\ UNCHANGED <<field, msgType, got, toRead, payloadLen>>
    BY <2>1 DEF Process
  <2>4. ASSUME ~cut
        PROVE  \E dp \in Seq(Seq(Items)) : Accounts(dp)'
    <3>1. PICK dp \in Seq(Seq(Items)) : dp = dfront
      BY <1>5
    <3>2. PendingOf(ret') = <<>>
      BY <2>2, NothingPending
    <3>3. owed' = fed' \o (PendingOf(ret') \o FlattenSeq(dp))
      <4>1. <<>> \o FlattenSeq(dp) = FlattenSeq(dp)
        BY <1>6, <3>1, ConcatEmptySeq
      <4>2. owed' = fed \o FlattenSeq(dp)
        BY <1>7, <1>9, <2>4, <3>1
      <4> QED BY <1>1, <3>2, <4>1, <4>2
    <3>4. piece' \o fifo' = fifo /\ dp \o due' = due
      BY <1>4, <1>5, <1>8, <2>3, <3>1
    <3>5. Place(piece' \o fifo', dp \o due', field', msgType', got', toRead', payloadLen')
      BY <1>9, <2>3, <2>4, <3>4
    <3>6. Len(dp) = Len(piece')
      BY <1>4, <1>5, <2>3, <3>1
    <3>7. Accounts(dp)'
      BY <2>1, <3>3, <3>5, <3>6 DEF Accounts
    <3> QED BY <3>7
  <2>5. StreamInv'
    BY <1>1, <2>4 DEF StreamInv
  <2> QED BY <1>8, <2>2, <2>5 DEF LoggedInv
<1>11. CASE ~(n > 0)
  <2>1. pc' = "receive" /\ UNCHANGED chronicle
    BY <1>11 DEF ReadFifo, Goto
  <2>2. UNCHANGED <<piece, inProcess, field, msgType, got, toRead, payloadLen, ret>>
    BY <2>1 DEF chronicle
  <2>3. ParserInv'
    BY <1>1, <1>2, <2>1, <2>2 DEF LoggedInv, ParserInv, ChronicleTypeOK
  <2>4. n = 0
    BY <1>11
  <2>5. front = <<>> /\ dfront = <<>>
    BY <1>4, <1>5, <2>4, EmptySeq
  <2>6. fifo' = fifo /\ due' = due /\ owed' = owed
    <3>1. <<>> \o back = back /\ <<>> \o dback = dback /\ owed \o <<>> = owed
      BY <1>2, <1>4, <1>5, ConcatEmptySeq
    <3> QED BY <1>4, <1>5, <1>6, <1>7, <1>8, <2>5, <3>1, Zenon
  <2>7. StreamInv'
    <3> SUFFICES ASSUME ~cut PROVE \E dp \in Seq(Seq(Items)) : Accounts(dp)'
      BY <1>1 DEF StreamInv
    <3>1. PICK dp \in Seq(Seq(Items)) : Accounts(dp)
      BY DEF LoggedInv, StreamInv
    <3>2. Accounts(dp)'
      BY <1>1, <2>1, <2>2, <2>6, <3>1 DEF Accounts
    <3> QED BY <3>2
  <2> QED BY <1>8, <2>3, <2>7 DEF LoggedInv
<1> QED BY <1>10, <1>11

(* An iteration of process().                                              *)
LEMMA InProcessKeepsLoggedInv ==
  ASSUME LoggedInv, InProcess, TsBytes \in Nat \ {0}
  PROVE  LoggedInv'
<1>1. /\ pc = "process" /\ ProcessStep
      /\ UNCHANGED <<pc, fifo, due, owed, fed, cut, daemon, pause>>
  BY DEF InProcess, monitorVars, threadVars, fifoVars
<1>2. ParserInv'
  BY <1>1, IterationKeepsParserInv DEF LoggedInv
<1>3. FifoInv'
  BY <1>1 DEF LoggedInv, FifoInv
<1>4. /\ piece # <<>> /\ piece' = Rest /\ piece \in Seq(Byte) /\ fifo \in Seq(Byte)
      /\ due \in Seq(Seq(Items)) /\ Len(due) = Len(fifo)
      /\ ret = [Nothing EXCEPT !.type = msgType]
  BY <1>1 DEF LoggedInv, FifoInv, ParserInv, ChronicleTypeOK, ProcessStep, Iteration,
              ReadType, ReadMsgLen, ReadTs, ReadPayload, ReadFilename
<1>5. ASSUME ~cut
      PROVE  \E dp \in Seq(Seq(Items)) : Accounts(dp)'
  <2>1. PICK dp \in Seq(Seq(Items)) : Accounts(dp)
    BY <1>5 DEF LoggedInv, StreamInv
  <2>2. InRecord(piece \o fifo, dp \o due, field, msgType, got, toRead, payloadLen)
    <3>1. Place(piece \o fifo, dp \o due, field, msgType, got, toRead, payloadLen)
      BY <2>1 DEF Accounts
    <3>2. piece \o fifo # <<>>
      BY <1>4
    <3> QED BY <3>1, <3>2, PlaceInRecord
  <2>3. PICK r \in Recordable : \E p, rest, dues :
           /\ At(r, p, field, msgType, got, toRead, payloadLen) /\ IsStream(rest, dues)
           /\ piece \o fifo = SubSeq(Written(r), p + 1, Len(Written(r))) \o rest
           /\ dp \o due = SubSeq(DueOf(r), p + 1, Len(Written(r))) \o dues
    BY <2>2 DEF InRecord
  <2>4. PICK p, rest, dues :
           /\ At(r, p, field, msgType, got, toRead, payloadLen) /\ IsStream(rest, dues)
           /\ piece \o fifo = SubSeq(Written(r), p + 1, Len(Written(r))) \o rest
           /\ dp \o due = SubSeq(DueOf(r), p + 1, Len(Written(r))) \o dues
    BY <2>3
  <2> DEFINE t == Taken
             back == SubSeq(dp, t + 1, Len(dp))
             size == Len(Written(r))
  <2>5. Took(r, p)
    <3>1. rest \in Seq(Byte)
      BY <2>4 DEF IsStream
    <3> QED BY <1>4, <2>4, <3>1, ParserTook
  <2>6. Moved(r, p, p + t)
    BY <1>1, <1>4, <2>4, <2>5, ParserMoves
  <2>7. p \in Nat /\ t \in Nat /\ p + t <= size /\ t <= Len(piece) /\ size \in Nat
    <3> DEFINE to == ToOf(field, r)
    <3>1. to \in Nat /\ p \in Nat /\ size \in Nat /\ to <= size
      BY <2>4, PlacesOfFields
    <3>2. t \in Nat /\ t <= Len(piece) /\ p + t <= to
      BY <2>5 DEF Took
    <3> HIDE DEF to, t, size
    <3>3. p + t <= size
      BY ONLY <3>1, <3>2
    <3> QED BY <3>1, <3>2, <3>3
  <2>8. /\ SubSeq(piece, t + 1, Len(piece)) \o fifo = SubSeq(Written(r), p + t + 1, size) \o rest
        /\ back \o due = SubSeq(DueOf(r), p + t + 1, size) \o dues
        /\ FlattenSeq(dp) = DueIn(r, p, p + t) \o FlattenSeq(back)
        /\ back \in Seq(Seq(Items))
        /\ Len(back) = Len(SubSeq(piece, t + 1, Len(piece)))
        /\ DueIn(r, p, p + t) \in Seq(Items)
    <3>1. Len(dp) = Len(piece)
      BY <2>1 DEF Accounts
    <3>2. /\ TsBytes \in Nat \ {0} /\ r \in Recordable
          /\ dp \in Seq(Seq(Items))
      OBVIOUS
    <3> HIDE DEF t
    <3>3. IsAdvanced(r, p, t, rest, dues, piece, fifo, dp, due)
      BY ONLY <1>4, <2>4, <2>7, <3>1, <3>2, StreamMoves DEF size
    <3> QED BY <3>3 DEF IsAdvanced
  <2>9. PICK dq \in Seq(Seq(Items)) : dq = back
    BY <2>8
  <2>10. piece' = SubSeq(piece, t + 1, Len(piece))
    BY <1>4 DEF Rest
  <2>11. Len(dq) = Len(piece')
    BY <2>8, <2>9, <2>10
  <2>12. owed' = fed' \o (PendingOf(ret') \o FlattenSeq(dq))
    <3>1. owed = fed \o (PendingOf(ret) \o FlattenSeq(dp))
      BY <1>1, <2>1 DEF Accounts
    <3>2. PendingOf(ret) = <<>>
      BY <1>4, NothingPending
    <3>3. FlattenSeq(dp) \in Seq(Items)
      BY FlattenAny
    <3>4. <<>> \o FlattenSeq(dp) = FlattenSeq(dp)
      BY <3>3, ConcatEmptySeq
    <3>5. PendingOf(ret') = DueIn(r, p, p + t)
      BY <2>6 DEF Moved
    <3> HIDE DEF t, back
    <3> QED BY <1>1, <2>8, <2>9, <3>1, <3>2, <3>4, <3>5
  <2>13. Place(piece' \o fifo', dq \o due', field', msgType', got', toRead', payloadLen')
    <3>1. /\ piece' \o fifo' = SubSeq(Written(r), p + t + 1, size) \o rest
          /\ dq \o due' = SubSeq(DueOf(r), p + t + 1, size) \o dues
          /\ IsStream(rest, dues)
      BY <1>1, <2>4, <2>8, <2>9, <2>10
    <3>2. CASE At(r, p + t, field', msgType', got', toRead', payloadLen')
      <4>1. InRecord(piece' \o fifo', dq \o due', field', msgType', got', toRead', payloadLen')
        BY <3>1, <3>2, Zenon DEF InRecord, size
      <4> QED BY <4>1 DEF Place
    <3>3. CASE p + t = size /\ AtStart(field', msgType', got', toRead', payloadLen')
      <4> DEFINE w == Written(r)
                 d == DueOf(r)
      <4>1. w \in Seq(Byte) /\ d \in Seq(Seq(Items)) /\ Len(d) = size
        BY WrittenIs, DueOfIs
      <4> HIDE DEF w, d, t, size
      <4>2. SubSeq(w, size + 1, size) = <<>> /\ SubSeq(d, size + 1, size) = <<>>
        <5>1. size + 1 > size
          BY <2>7
        <5> QED BY <2>7, <4>1, <5>1, SubSeqEmpty
      <4>3. rest \in Seq(Byte) /\ dues \in Seq(Seq(Items))
        BY <2>4 DEF IsStream
      <4>4. <<>> \o rest = rest /\ <<>> \o dues = dues
        BY <4>3, ConcatEmptySeq
      <4>5. piece' \o fifo' = rest /\ dq \o due' = dues
        BY <3>1, <3>3, <4>2, <4>4 DEF w, d
      <4>6. IsStream(piece' \o fifo', dq \o due')
        BY <3>1, <4>5
      <4> QED BY <3>3, <4>6 DEF Place
    <3> QED BY <2>6, <3>2, <3>3 DEF Moved, size
  <2>14. Accounts(dq)'
    BY <1>1, <2>11, <2>12, <2>13 DEF Accounts
  <2> QED BY <2>14
<1>6. StreamInv'
  BY <1>1, <1>5 DEF StreamInv
<1> QED BY <1>2, <1>3, <1>6 DEF LoggedInv

(* What process() has found is fed.                                        *)
LEMMA ProcessedKeepsLoggedInv ==
  ASSUME LoggedInv, Processed
  PROVE  LoggedInv'
<1>1. /\ pc = "process" /\ UNCHANGED <<fifo, due, owed, cut, daemon, pause>>
  BY DEF Processed, threadVars, fifoVars
<1>2. /\ piece \in Seq(Byte) /\ fed \in Seq(Items)
      /\ ret.type \in Int /\ ret.payload \in Seq(Byte) /\ ret.filename \in Seq(Byte)
  BY DEF LoggedInv, ParserInv, ChronicleTypeOK, FifoInv
<1>3. PendingOf(ret) \in Seq(Items)
  BY PendingType DEF LoggedInv
<1>4. fed' = fed \o PendingOf(ret)
  <2>1. CASE ret.type = TypeLog
    <3>1. ret.type # TypeEndLogFile
      BY <2>1 DEF TypeLog, TypeEndLogFile
    <3>2. fed' = fed \o Bytes(ret.payload)
      BY <2>1, <3>1 DEF Processed
    <3> QED BY <2>1, <3>2 DEF PendingOf
  <2>2. CASE ret.type = TypeEndLogFile /\ ret.filename # <<>>
    <3>1. ret.type # TypeLog
      BY <2>2 DEF TypeLog, TypeEndLogFile
    <3>2. fed' = Append(fed, <<TypeEndLogFile, ret.filename>>)
      BY <2>2, <3>1 DEF Processed
    <3>3. PendingOf(ret) = <<<<TypeEndLogFile, ret.filename>>>>
      BY <2>2, <3>1 DEF PendingOf
    <3>4. <<TypeEndLogFile, ret.filename>> \in Items
      <4> DEFINE f == ret.filename
      <4>1. f \in Seq(Byte)
        BY <1>2
      <4> HIDE DEF f
      <4>2. <<TypeEndLogFile, f>> \in Items
        BY <4>1 DEF Items, TypeEndLogFile
      <4> QED BY <4>2 DEF f
    <3>5. Append(fed, <<TypeEndLogFile, ret.filename>>)
             = fed \o <<<<TypeEndLogFile, ret.filename>>>>
      BY <1>2, <3>4, AppendIsConcat
    <3> QED BY <3>2, <3>3, <3>5
  <2>3. CASE ret.type # TypeLog /\ ~(ret.type = TypeEndLogFile /\ ret.filename # <<>>)
    <3>1. fed' = fed
      BY <2>3 DEF Processed
    <3>2. PendingOf(ret) = <<>>
      BY <2>3 DEF PendingOf
    <3>3. fed \o <<>> = fed
      BY <1>2, ConcatEmptySeq
    <3> QED BY <3>1, <3>2, <3>3
  <2> QED BY <2>1, <2>2, <2>3
<1>5. fed' \in Seq(Items)
  <2>1. IsConcat(fed \o PendingOf(ret), Items, fed, PendingOf(ret))
    BY <1>2, <1>3, ConcatIs
  <2> QED BY <1>4, <2>1 DEF IsConcat
<1>6. pc' \in {"process", "receive"}
  BY <1>1 DEF Processed, Goto
<1>7. FifoInv'
  BY <1>1, <1>5, <1>6 DEF LoggedInv, FifoInv
<1>8. /\ ParserInv' /\ UNCHANGED <<piece, field, msgType, got, toRead, payloadLen>>
      /\ (IF pc' = "process" THEN PendingOf(ret') ELSE <<>>) = <<>>
  <2>1. CASE piece # <<>>
    <3>1. Process(piece) /\ pc' = "process"
      BY <1>1, <2>1 DEF Processed
    <3>2. ParserInv' /\ ret' = [Nothing EXCEPT !.type = msgType']
      BY <1>2, <3>1, CallKeepsParserInv DEF LoggedInv
    <3>3. UNCHANGED <<piece, field, msgType, got, toRead, payloadLen>>
      BY <3>1 DEF Process
    <3>4. PendingOf(ret') = <<>>
      BY <3>2, NothingPending
    <3> QED BY <3>2, <3>3, <3>4
  <2>2. CASE piece = <<>>
    <3>1. pc' = "receive" /\ UNCHANGED chronicle /\ ~inProcess
      BY <2>2 DEF Processed, Goto
    <3>2. UNCHANGED <<piece, inProcess, field, msgType, got, toRead, payloadLen, ret>>
      BY <3>1 DEF chronicle
    <3>3. ParserInv'
      BY <2>2, <3>1, <3>2 DEF LoggedInv, ParserInv, ChronicleTypeOK
    <3> QED BY <3>1, <3>2, <3>3
  <2> QED BY <2>1, <2>2
<1>9. ASSUME ~cut
      PROVE  \E dp \in Seq(Seq(Items)) : Accounts(dp)'
  <2>1. PICK dp \in Seq(Seq(Items)) : Accounts(dp)
    BY <1>9 DEF LoggedInv, StreamInv
  <2> DEFINE more == FlattenSeq(dp)
             found == PendingOf(ret)
  <2>2. more \in Seq(Items)
    BY FlattenAny
  <2>3. owed = fed \o (found \o more)
    BY <1>1, <2>1 DEF Accounts
  <2>4. found \in Seq(Items)
    BY <1>3
  <2> HIDE DEF more, found
  <2>5. (fed \o found) \o more = fed \o (found \o more)
    <3>1. \A x, y, z \in Seq(Items) : (x \o y) \o z = x \o (y \o z)
      BY Associative
    <3> QED BY <1>2, <2>2, <2>4, <3>1, Zenon
  <2>6. <<>> \o more = more
    BY <2>2, ConcatEmptySeq
  <2>7. owed' = fed' \o ((IF pc' = "process" THEN PendingOf(ret') ELSE <<>>) \o more)
    <3>1. owed' = owed /\ fed' = fed \o found
      BY <1>1, <1>4 DEF found
    <3>2. owed = fed' \o more
      BY <2>3, <2>5, <3>1
    <3>3. fed' \o more = fed' \o (<<>> \o more)
      BY <2>6
    <3> QED BY <1>8, <3>1, <3>2, <3>3, Zenon
  <2>8. Accounts(dp)'
    BY <1>1, <1>8, <2>1, <2>7 DEF Accounts, more
  <2> QED BY <2>8
<1>10. StreamInv'
  BY <1>1, <1>9 DEF StreamInv
<1> QED BY <1>7, <1>8, <1>10 DEF LoggedInv

\* x is written to the FIFO, and dx what its bytes are to add
Wrote(x, dx) ==
    /\ fifo' = fifo \o x /\ due' = due \o dx
    /\ UNCHANGED <<chronicle, pc, fed, owed, daemon, pause>>

(* Something is written.                                                   *)
LEMMA WrittenType ==
  ASSUME LoggedInv, NEW x \in Seq(Byte), NEW dx \in Seq(Seq(Items)), Len(dx) = Len(x),
         Wrote(x, dx)
  PROVE  ParserInv' /\ FifoInv'
<1>1. /\ fifo \in Seq(Byte) /\ due \in Seq(Seq(Items)) /\ Len(due) = Len(fifo)
      /\ fifo' = fifo \o x /\ due' = due \o dx
  BY DEF LoggedInv, FifoInv, Wrote
<1>2. UNCHANGED <<piece, inProcess, field, msgType, got, toRead, payloadLen, ret, pc>>
  BY DEF Wrote, chronicle
<1>3. ParserInv'
  BY <1>2 DEF LoggedInv, ParserInv, ChronicleTypeOK
<1>4. IsConcat(fifo \o x, Byte, fifo, x) /\ IsConcat(due \o dx, Seq(Items), due, dx)
  BY <1>1, ConcatIs
<1>5. fifo' \in Seq(Byte) /\ due' \in Seq(Seq(Items)) /\ Len(due') = Len(fifo')
  BY <1>1, <1>4 DEF IsConcat
<1>6. FifoInv'
  BY <1>5 DEF LoggedInv, FifoInv, Wrote
<1> QED BY <1>3, <1>6

(* A record is written.                                                    *)
LEMMA WriteKeepsLoggedInv ==
  ASSUME LoggedInv, TsBytes \in Nat \ {0}, NEW r \in Recordable, WriteRecord(r)
  PROVE  LoggedInv'
<1>1. Wrote(Written(r), DueOf(r)) /\ cut' = cut
  BY DEF WriteRecord, Wrote, monitorVars, threadVars
<1>2. /\ Written(r) \in Seq(Byte) /\ DueOf(r) \in Seq(Seq(Items))
      /\ Len(DueOf(r)) = Len(Written(r))
  BY WrittenIs, DueOfIs
<1>3. ParserInv' /\ FifoInv'
  BY <1>1, <1>2, WrittenType
<1>4. ASSUME ~cut
      PROVE  \E dp \in Seq(Seq(Items)) : Accounts(dp)'
  <2>1. PICK dp \in Seq(Seq(Items)) : Accounts(dp)
    BY <1>4 DEF LoggedInv, StreamInv
  <2>2. /\ fifo \in Seq(Byte) /\ due \in Seq(Seq(Items)) /\ piece \in Seq(Byte)
    BY DEF LoggedInv, FifoInv, ParserInv, ChronicleTypeOK
  <2>3. /\ fifo' = fifo \o Written(r) /\ due' = due \o DueOf(r)
        /\ UNCHANGED <<pc, fed, owed, piece, field, msgType, got, toRead, payloadLen, ret>>
    BY <1>1 DEF Wrote, chronicle
  <2>4. piece \o (fifo \o Written(r)) = (piece \o fifo) \o Written(r)
    <3>1. \A x, y, z \in Seq(Byte) : (x \o y) \o z = x \o (y \o z)
      BY Associative
    <3> QED BY <1>2, <2>2, <3>1, Zenon
  <2>5. dp \o (due \o DueOf(r)) = (dp \o due) \o DueOf(r)
    <3>1. \A x, y, z \in Seq(Seq(Items)) : (x \o y) \o z = x \o (y \o z)
      BY Associative
    <3> QED BY <1>2, <2>2, <3>1, Zenon
  <2>6. Place(piece \o fifo, dp \o due, field, msgType, got, toRead, payloadLen)
    BY <2>1 DEF Accounts
  <2>7. Place((piece \o fifo) \o Written(r), (dp \o due) \o DueOf(r),
              field, msgType, got, toRead, payloadLen)
    BY <2>6, PlaceGrows
  <2>8. Place(piece' \o fifo', dp \o due', field', msgType', got', toRead', payloadLen')
    BY <2>3, <2>4, <2>5, <2>7
  <2>9. Accounts(dp)'
    BY <2>1, <2>3, <2>8 DEF Accounts
  <2> QED BY <2>9
<1>5. StreamInv'
  BY <1>1, <1>4 DEF StreamInv
<1> QED BY <1>3, <1>5 DEF LoggedInv

(* diag_revealer dies inside a record.                                     *)
LEMMA CutKeepsLoggedInv ==
  ASSUME LoggedInv, TsBytes \in Nat \ {0}, NEW r \in Recordable,
         NEW n \in 1..(Len(Written(r)) - 1), DieInRecord(r, n)
  PROVE  LoggedInv'
<1> DEFINE w == Written(r)
           d == DueOf(r)
<1>1. w \in Seq(Byte) /\ d \in Seq(Seq(Items)) /\ Len(d) = Len(w)
  BY WrittenIs, DueOfIs
<1>2. Wrote(SubSeq(w, 1, n), SubSeq(d, 1, n)) /\ cut' = TRUE
  BY DEF DieInRecord, Wrote, monitorVars, threadVars
<1> HIDE DEF w, d
<1>3. n \in 0..Len(w) /\ n \in 0..Len(d)
  <2>1. Len(w) \in Nat
    BY <1>1, LenProperties
  <2>2. n \in 1..(Len(w) - 1)
    BY DEF w
  <2>3. n \in 0..Len(w)
    BY ONLY <2>1, <2>2
  <2> QED BY <1>1, <2>3
<1>4. /\ SubSeq(w, 1, n) \in Seq(Byte) /\ SubSeq(d, 1, n) \in Seq(Seq(Items))
      /\ Len(SubSeq(w, 1, n)) = n /\ Len(SubSeq(d, 1, n)) = n
  BY <1>1, <1>3, CutAt
<1>5. ParserInv' /\ FifoInv'
  BY <1>2, <1>4, WrittenType
<1> QED BY <1>2, <1>5 DEF LoggedInv, StreamInv

(* The steps that neither read, parse nor write.                           *)
LEMMA OthersKeepLoggedInv ==
  ASSUME LoggedInv,
         \/ \E ids \in EnableSets : EnableLog(ids)
         \/ GenerateDiagCfg \/ MakeFifo \/ StartAll \/ OpenFifo \/ ReceiveLogPacket \/ Exit
         \/ Daemon \/ StopDaemon \/ PauseRaises \/ Appear \/ DieBetweenRecords
  PROVE  LoggedInv'
<1> DEFINE Same == UNCHANGED <<chronicle, fifo, due, owed, fed, cut>>
<1>1. /\ pc \in {"config", "mkfifo", "start", "open", "read", "process", "receive", "exited",
                 "raised"}
      /\ daemon \in {"none", "sleep", "look", "restart", "over"}
      /\ pause \in {"no", "waiting", "raised"}
  BY DEF LoggedInv, FifoInv
<1>2. CASE \/ \E ids \in EnableSets : EnableLog(ids)
           \/ Daemon \/ StopDaemon \/ PauseRaises \/ Appear \/ DieBetweenRecords
  <2>1. Same /\ pc' = pc
    <3>1. CASE \E ids \in EnableSets : EnableLog(ids)
      BY <3>1 DEF EnableLog, fifoVars
    <3>2. CASE Daemon
      BY <3>2 DEF Daemon, WakeUp, Look, Restart, StartRevealer, fifoVars, monitorVars
    <3>3. CASE StopDaemon \/ PauseRaises
      BY <3>3 DEF StopDaemon, PauseRaises, fifoVars, monitorVars
    <3>4. CASE Appear \/ DieBetweenRecords
      BY <3>4 DEF Appear, DieBetweenRecords, fifoVars, monitorVars
    <3> QED BY <1>2, <3>1, <3>2, <3>3, <3>4
  <2>2. /\ daemon' \in {"none", "sleep", "look", "restart", "over"}
        /\ pause' \in {"no", "waiting", "raised"}
    <3>1. CASE \E ids \in EnableSets : EnableLog(ids)
      BY <1>1, <3>1 DEF EnableLog, threadVars
    <3>2. CASE Daemon
      BY <1>1, <3>2 DEF Daemon, WakeUp, Look, Restart
    <3>3. CASE StopDaemon \/ PauseRaises
      BY <1>1, <3>3 DEF StopDaemon, PauseRaises
    <3>4. CASE Appear \/ DieBetweenRecords
      BY <1>1, <3>4 DEF Appear, DieBetweenRecords, threadVars
    <3> QED BY <1>2, <3>1, <3>2, <3>3, <3>4
  <2> QED BY <1>1, <2>1, <2>2, LoggedInvKept
<1>3. CASE GenerateDiagCfg \/ MakeFifo \/ StartAll \/ OpenFifo \/ ReceiveLogPacket \/ Exit
  <2>1. Same
    <3>1. CASE GenerateDiagCfg \/ MakeFifo \/ StartAll
      BY <3>1 DEF GenerateDiagCfg, MakeFifo, StartAll, StartRevealer, fifoVars, monitorVars
    <3>2. CASE OpenFifo \/ ReceiveLogPacket \/ Exit
      BY <3>2 DEF OpenFifo, ReceiveLogPacket, Exit, fifoVars, monitorVars
    <3> QED BY <1>3, <3>1, <3>2
  <2>2. /\ pc # "process" /\ pc' # "process"
        /\ pc' \in {"config", "mkfifo", "start", "open", "read", "process", "receive", "exited",
                    "raised"}
    BY <1>3 DEF GenerateDiagCfg, MakeFifo, StartAll, OpenFifo, ReceiveLogPacket, Exit, Goto
  <2>3. /\ daemon' \in {"none", "sleep", "look", "restart", "over"}
        /\ pause' \in {"no", "waiting", "raised"}
    BY <1>1, <1>3
         DEF GenerateDiagCfg, MakeFifo, StartAll, OpenFifo, ReceiveLogPacket, Exit, threadVars
  <2> QED BY <2>1, <2>2, <2>3, LoggedInvKept
<1> QED BY <1>2, <1>3

(* What is written is what the model is given to write.                    *)
LEMMA RecordsAre ==
  ASSUME AndroidAssumption
  PROVE  /\ Records \subseteq Recordable
         /\ \A n \in 0..BlockSize : n \in Nat
<1>1. Records \subseteq Recordable
  BY DEF AndroidAssumption, Recordable
<1>2. BlockSize \in Nat
  BY DEF AndroidAssumption
<1> QED BY <1>1, <1>2

(* A step of the system.                                                   *)
LEMMA LoggedInvStep ==
  ASSUME Records \subseteq Recordable, \A n \in 0..BlockSize : n \in Nat,
         TsBytes \in Nat \ {0}, LoggedInv, [AndroidNext]_vars
  PROVE  LoggedInv'
<1>1. ASSUME NEW n \in 0..BlockSize, ReadFifo(n)
      PROVE  LoggedInv'
  <2>1. n \in Nat
    OBVIOUS
  <2> QED BY <1>1, <2>1, ReadFifoKeepsLoggedInv
<1>2. CASE InProcess
  BY <1>2, InProcessKeepsLoggedInv
<1>3. CASE Processed
  BY <1>3, ProcessedKeepsLoggedInv
<1>4. ASSUME NEW r \in Records, WriteRecord(r)
      PROVE  LoggedInv'
  <2>1. r \in Recordable
    OBVIOUS
  <2> QED BY <1>4, <2>1, WriteKeepsLoggedInv
<1>5. ASSUME NEW r \in Records, NEW n \in 1..(Len(Written(r)) - 1), DieInRecord(r, n)
      PROVE  LoggedInv'
  <2>1. r \in Recordable
    OBVIOUS
  <2> QED BY <1>5, <2>1, CutKeepsLoggedInv
<1>6. CASE \/ \E ids \in EnableSets : EnableLog(ids)
           \/ GenerateDiagCfg \/ MakeFifo \/ StartAll \/ OpenFifo \/ ReceiveLogPacket \/ Exit
           \/ Daemon \/ StopDaemon \/ PauseRaises \/ Appear \/ DieBetweenRecords
  BY <1>6, OthersKeepLoggedInv
<1>7. CASE UNCHANGED vars
  <2>1. UNCHANGED <<chronicle, fifo, due, owed, fed, cut, pc, daemon, pause>>
    BY <1>7 DEF vars, monitorVars, threadVars, fifoVars
  <2>2. FifoInv
    BY DEF LoggedInv
  <2> QED BY <2>1, <2>2, LoggedInvKept DEF FifoInv
<1> QED BY <1>1, <1>2, <1>3, <1>4, <1>5, <1>6, <1>7 DEF AndroidNext, Run, Revealer

(* At first nothing is written, read or fed.                               *)
LEMMA LoggedInvAtFirst ==
  ASSUME AndroidInit
  PROVE  LoggedInv
<1>1. /\ piece = <<>> /\ inProcess = FALSE /\ ret = Nothing /\ field = "TYPE"
      /\ msgType = NoType /\ got = <<>> /\ toRead = 2 /\ payloadLen = 0
      /\ pc = "config" /\ fed = <<>> /\ daemon = "none" /\ pause = "no"
      /\ fifo = <<>> /\ due = <<>> /\ owed = <<>>
  BY DEF AndroidInit, ChronicleInit
<1>2. ParserInv
  <2>1. ret \in [type : Int, payload : Seq(Byte), filename : Seq(Byte)]
    BY <1>1 DEF Nothing, NoType
  <2>2. /\ piece \in Seq(Byte) /\ got \in Seq(Byte) /\ Len(got) = 0
        /\ toRead \in Int /\ payloadLen \in Int /\ msgType \in Int
        /\ field \in Fields /\ inProcess \in BOOLEAN
    <3>1. <<>> \in Seq(Byte) /\ Len(<<>>) = 0
      OBVIOUS
    <3>2. 2 \in Int /\ 0 \in Int /\ NoType \in Int /\ "TYPE" \in Fields /\ FALSE \in BOOLEAN
      BY DEF NoType, Fields
    <3> QED BY ONLY <1>1, <3>1, <3>2
  <2>3. ChronicleTypeOK
    BY <2>1, <2>2 DEF ChronicleTypeOK
  <2>4. toRead \in 0..2 /\ Len(got) = 2 - toRead
    BY <1>1, <2>2
  <2> QED BY <1>1, <2>3, <2>4 DEF ParserInv
<1>3. FifoInv
  BY <1>1 DEF FifoInv
<1>4. Accounts(<<>>)
  <2>1. FlattenSeq(<<>>) = <<>>
    <3>1. <<>> \in Seq(Seq(Items))
      OBVIOUS
    <3> QED BY <3>1, FlattenAny
  <2>2. <<>> \o <<>> = <<>>
    OBVIOUS
  <2>3. owed = fed \o (<<>> \o FlattenSeq(<<>>))
    BY <1>1, <2>1, <2>2
  <2>4. AtStart(field, msgType, got, toRead, payloadLen)
    BY <1>1 DEF AtStart
  <2>5. Place(<<>>, <<>>, field, msgType, got, toRead, payloadLen)
    BY <2>4, StreamOfNone DEF Place
  <2> QED BY <1>1, <2>2, <2>3, <2>5 DEF Accounts
<1>5. StreamInv
  <2>1. <<>> \in Seq(Seq(Items))
    OBVIOUS
  <2> QED BY <1>4, <2>1 DEF StreamInv
<1> QED BY <1>2, <1>3, <1>5 DEF LoggedInv

(* Whatever blocks the stream is read in, wherever these cut a record, and  *)
(* however often process() is called with the rest of one: between two      *)
(* blocks, the native module has been fed the payloads of the records whose *)
(* bytes were read and has been told of the ends of log files, in order and *)
(* each byte once, unless diag_revealer has died inside a record.           *)
THEOREM AndroidFedWhatWasLogged == AndroidSpec => []FedWhatWasLogged
<1>1. AndroidInit => LoggedInv
  BY LoggedInvAtFirst
<1>2. LoggedInv /\ [AndroidNext]_vars => LoggedInv'
  BY AndroidAssumption, TsBytesAssumption, RecordsAre, LoggedInvStep
<1>3. LoggedInv => FedWhatWasLogged
  <2> SUFFICES ASSUME LoggedInv, ~cut, pc \in {"read", "receive"}
               PROVE  fed = owed
    BY DEF FedWhatWasLogged
  <2>1. PICK dp \in Seq(Seq(Items)) : Accounts(dp)
    BY DEF LoggedInv, StreamInv
  <2>2. piece = <<>> /\ fed \in Seq(Items)
    BY DEF LoggedInv, ParserInv, FifoInv
  <2>3. dp = <<>>
    <3>1. Len(dp) = 0
      BY <2>1, <2>2 DEF Accounts
    <3> QED BY <3>1, EmptySeq
  <2>4. FlattenSeq(dp) = <<>>
    BY <2>3, FlattenAny
  <2>5. owed = fed \o (<<>> \o <<>>)
    BY <2>1, <2>4 DEF Accounts
  <2>6. <<>> \o <<>> = <<>> /\ fed \o <<>> = fed
    BY <2>2, ConcatEmptySeq
  <2> QED BY <2>5, <2>6, Zenon
<1> QED BY <1>1, <1>2, <1>3, PTL DEF AndroidSpec

(* No field is longer than its record says, as long as records are whole:   *)
(* the number of bytes that are to be read never turns negative, as it does *)
(* when the parser takes bytes of one record for the length of another; and *)
(* the other variables hold what they are declared to hold.                 *)
THEOREM AndroidTypeOK == AndroidSpec => []TypeOK
<1>1. AndroidInit => LoggedInv
  BY LoggedInvAtFirst
<1>2. AndroidInit => RevealerInv
  BY DEF AndroidInit, RevealerInv, OneRevealer, BeforeStart
<1>3. LoggedInv /\ [AndroidNext]_vars => LoggedInv'
  BY AndroidAssumption, TsBytesAssumption, RecordsAre, LoggedInvStep
<1>4. RevealerInv /\ [AndroidNext]_vars => RevealerInv'
  BY RevealerInvStep
<1>5. LoggedInv /\ RevealerInv => TypeOK
  <2> SUFFICES ASSUME LoggedInv, RevealerInv
               PROVE  TypeOK
    OBVIOUS
  <2>1. ASSUME ~cut
        PROVE  toRead \in Nat /\ payloadLen \in Nat
    <3>1. PICK dp \in Seq(Seq(Items)) : Accounts(dp)
      BY <2>1 DEF LoggedInv, StreamInv
    <3>2. TsBytes \in Nat \ {0}
      BY TsBytesAssumption
    <3>3. Place(piece \o fifo, dp \o due, field, msgType, got, toRead, payloadLen)
      BY <3>1 DEF Accounts
    <3> QED BY <3>2, <3>3, PlaceIs
  <2>2. ChronicleTypeOK
    BY DEF LoggedInv, ParserInv
  <2>3. starting \in Nat /\ alive \in Nat
    BY DEF RevealerInv
  <2> QED BY <2>1, <2>2, <2>3 DEF LoggedInv, FifoInv, TypeOK
<1> QED BY <1>1, <1>2, <1>3, <1>4, <1>5, PTL DEF AndroidSpec
=============================================================================
