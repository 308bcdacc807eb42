----------------------------- MODULE BackOffice -----------------------------
(***************************************************************************)
(* The back office of apps/api: documents, marketplace and reports over    *)
(* the same products, stock and finance entries, and the registers.        *)
(*                                                                         *)
(* `agenda` bounds a behaviour: it may be made of the operations it holds. *)
(***************************************************************************)
EXTENDS Marketplace, Reports, Registry

backVars == <<docVars, marketVars, reportVars, regVars>>

BackInit == DocInit /\ MarketInit /\ RepInit /\ RegInit

\* The steps of the documents, which wait for the rows a pull has locked.
DocumentStep == DocNext /\ WaitsForPulls /\ UNCHANGED <<marketVars, reportVars, regVars>>

MarketStep == MarketNext /\ UNCHANGED <<reportVars, regVars>>

ReportStep == "report" \in agenda /\ RepNext /\ UNCHANGED <<marketVars, regVars>>

RegistryStep == "register" \in agenda /\ RegNext /\ UNCHANGED <<docVars, marketVars, reportVars>>

BackNext == DocumentStep \/ MarketStep \/ ReportStep \/ RegistryStep

BackSpec == BackInit /\ [][BackNext]_backVars

\* The inductive invariant of the back office: that of each part.
BackInv == DocInv /\ MarketInv /\ RegInv /\ RepInv

=============================================================================
