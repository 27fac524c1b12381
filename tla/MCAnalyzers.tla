---------------------------- MODULE MCAnalyzers -----------------------------
(***************************************************************************)
(* Small sets of analyzers for TLC.                                        *)
(***************************************************************************)
EXTENDS Analyzers, TLC

MCTops == {"HandoffLoopAnalyzer", "MobilityMngt", "KPIManager"}
MCKpis == {"AttachSrAnalyzer"}

\* A KPI manager, and KPIs that share TrackCellInfoAnalyzer
MCManager == {"KPIManager"}
MCSharing == {"AttachSrAnalyzer", "TauSrAnalyzer"}

Symmetry == Permutations(Monitors)
=============================================================================
