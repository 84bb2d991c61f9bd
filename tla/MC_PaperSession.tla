-------------------------- MODULE MC_PaperSession --------------------------
(***************************************************************************)
(* Small instances of PaperSession.                                        *)
(***************************************************************************)
EXTENDS PaperSession

OneCall == {"api"}
TwoCalls == {"api1", "api2"}
=============================================================================
