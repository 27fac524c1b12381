---------------------- MODULE MCAndroidDevDiagMonitor -----------------------
(***************************************************************************)
(* Records with payloads of one and two bytes, and the end of a log file.  *)
(***************************************************************************)
EXTENDS AndroidDevDiagMonitor

MCRecords    == {<<TypeLog, <<7, 126>>>>, <<TypeEndLogFile, <<65>>>>,
                 <<TypeStartLogFile, <<66>>>>}
MCEnableSets == {{16687, 45248}}
MCCfgs       == {{}, {20783, ModemDebugId}}
MCModems     == {[ids |-> {20783, 16687}, debug |-> TRUE]}
=============================================================================
