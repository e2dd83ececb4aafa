--------------------------- MODULE MCMonitors_proofs ---------------------------
(***************************************************************************)
(* The monitors, sweeps and guards side by side, proved: each of them      *)
(* behaves, among the others, as its own module says.  So what             *)
(* Monitors_proofs, Sweeps_proofs and TripSegmentation_proofs prove of a   *)
(* part alone is also true of the specification TLC runs.                  *)
(***************************************************************************)
EXTENDS MCMonitors, Monitors_proofs, Sweeps_proofs, TripSegmentation_proofs

(* A part's step is its own, and the steps of the other parts leave it alone. *)

LEMMA PowerBehaves == Spec => PowerSpec
<1>1. Init => PowerInit
  BY DEF Init
<1>2. [Next]_monitorVars => [PowerNext]_powerVars
  BY DEF monitorVars, Next, Power, Trip, Visits, Idle, Watchdog, Report, Expiry, Budget, DraftMails, Segmented
<1> QED
  BY <1>1, <1>2, PTL DEF Spec, PowerSpec

LEMMA TripBehaves == Spec => TripSpec
<1>1. Init => TripInit
  BY DEF Init
<1>2. [Next]_monitorVars => [TripNext]_tripVars
  BY DEF monitorVars, Next, Power, Trip, Visits, Idle, Watchdog, Report, Expiry, Budget, DraftMails, Segmented
<1> QED
  BY <1>1, <1>2, PTL DEF Spec, TripSpec

LEMMA VisitBehaves == Spec => VisitSpec
<1>1. Init => VisitInit
  BY DEF Init
<1>2. [Next]_monitorVars => [VisitNext]_visitVars
  BY DEF monitorVars, Next, Power, Trip, Visits, Idle, Watchdog, Report, Expiry, Budget, DraftMails, Segmented
<1> QED
  BY <1>1, <1>2, PTL DEF Spec, VisitSpec

LEMMA IdleBehaves == Spec => IdleSpec
<1>1. Init => IdleInit
  BY DEF Init
<1>2. [Next]_monitorVars => [IdleNext]_idleVars
  BY DEF monitorVars, Next, Power, Trip, Visits, Idle, Watchdog, Report, Expiry, Budget, DraftMails, Segmented
<1> QED
  BY <1>1, <1>2, PTL DEF Spec, IdleSpec

LEMMA WatchdogBehaves == Spec => WatchdogSpec
<1>1. Init => WatchdogInit
  BY DEF Init
<1>2. [Next]_monitorVars => [WatchdogNext]_watchdogVars
  BY DEF monitorVars, Next, Power, Trip, Visits, Idle, Watchdog, Report, Expiry, Budget, DraftMails, Segmented
<1> QED
  BY <1>1, <1>2, PTL DEF Spec, WatchdogSpec

LEMMA ReportBehaves == Spec => ReportSpec
<1>1. Init => ReportInit
  BY DEF Init
<1>2. [Next]_monitorVars => [ReportNext]_reportVars
  BY DEF monitorVars, Next, Power, Trip, Visits, Idle, Watchdog, Report, Expiry, Budget, DraftMails, Segmented
<1> QED
  BY <1>1, <1>2, PTL DEF Spec, ReportSpec

LEMMA ExpiryBehaves == Spec => ExpirySpec
<1>1. Init => ExpiryInit
  BY DEF Init
<1>2. [Next]_monitorVars => [ExpiryNext]_expiryVars
  BY DEF monitorVars, Next, Power, Trip, Visits, Idle, Watchdog, Report, Expiry, Budget, DraftMails, Segmented
<1> QED
  BY <1>1, <1>2, PTL DEF Spec, ExpirySpec

LEMMA BudgetBehaves == Spec => BudgetSpec
<1>1. Init => BudgetInit
  BY DEF Init
<1>2. [Next]_monitorVars => [BudgetNext]_budgetVars
  BY DEF monitorVars, Next, Power, Trip, Visits, Idle, Watchdog, Report, Expiry, Budget, DraftMails, Segmented
<1> QED
  BY <1>1, <1>2, PTL DEF Spec, BudgetSpec

LEMMA DraftBehaves == Spec => DraftSpec
<1>1. Init => DraftInit
  BY DEF Init
<1>2. [Next]_monitorVars => [DraftNext]_draftVars
  BY DEF monitorVars, Next, Power, Trip, Visits, Idle, Watchdog, Report, Expiry, Budget, DraftMails, Segmented
<1> QED
  BY <1>1, <1>2, PTL DEF Spec, DraftSpec

LEMMA SegBehaves == Spec => SegSpec
<1>1. Init => SegInit
  BY DEF Init
<1>2. [Next]_monitorVars => [SegNext]_rows
  BY DEF monitorVars, Next, Power, Trip, Visits, Idle, Watchdog, Report, Expiry, Budget, DraftMails, Segmented
<1> QED
  BY <1>1, <1>2, PTL DEF Spec, SegSpec

\* The components share no state (each of the services has tables of its own for what it
\* decides on): run side by side, each behaves as it does alone.
THEOREM PartsBehave ==
  Spec => /\ PowerSpec /\ TripSpec /\ VisitSpec /\ IdleSpec /\ WatchdogSpec
          /\ ReportSpec /\ ExpirySpec /\ BudgetSpec /\ DraftSpec /\ SegSpec
  BY PowerBehaves, TripBehaves, VisitBehaves, IdleBehaves, WatchdogBehaves,
     ReportBehaves, ExpiryBehaves, BudgetBehaves, DraftBehaves, SegBehaves

-----------------------------------------------------------------------------
(* Types                                                                   *)

LEMMA PowerTypes == PowerSpec => []PowerTypeOK
<1>1. PowerInit => PowerInv
  BY PowerInvInit
<1>2. PowerInv /\ [PowerNext]_powerVars => PowerInv'
  BY PowerInvNext
<1>3. PowerInv => PowerTypeOK
  BY DEF PowerInv
<1> QED
  BY <1>1, <1>2, <1>3, PTL DEF PowerSpec

LEMMA TripTypes == TripSpec => []TripTypeOK
<1>1. TripInit => TripInv
  BY TripInvInit
<1>2. TripInv /\ [TripNext]_tripVars => TripInv'
  BY TripInvNext
<1>3. TripInv => TripTypeOK
  BY DEF TripInv
<1> QED
  BY <1>1, <1>2, <1>3, PTL DEF TripSpec

LEMMA WatchdogTypes == WatchdogSpec => []WatchdogTypeOK
<1>1. WatchdogInit => WatchdogInv
  BY WatchdogInvInit
<1>2. WatchdogInv /\ [WatchdogNext]_watchdogVars => WatchdogInv'
  BY WatchdogInvNext
<1>3. WatchdogInv => WatchdogTypeOK
  BY DEF WatchdogInv
<1> QED
  BY <1>1, <1>2, <1>3, PTL DEF WatchdogSpec

LEMMA ReportTypes == ReportSpec => []ReportTypeOK
<1>1. ReportInit => ReportInv
  BY ReportInvInit
<1>2. ReportInv /\ [ReportNext]_reportVars => ReportInv'
  BY ReportInvNext
<1>3. ReportInv => ReportTypeOK
  BY DEF ReportInv
<1> QED
  BY <1>1, <1>2, <1>3, PTL DEF ReportSpec

LEMMA ExpiryTypes == ExpirySpec => []ExpiryTypeOK
<1>1. ExpiryInit => ExpiryInv
  BY ExpiryInvInit
<1>2. ExpiryInv /\ [ExpiryNext]_expiryVars => ExpiryInv'
  BY ExpiryInvNext
<1>3. ExpiryInv => ExpiryTypeOK
  BY DEF ExpiryInv
<1> QED
  BY <1>1, <1>2, <1>3, PTL DEF ExpirySpec

LEMMA DraftTypes == DraftSpec => []DraftTypeOK
<1>1. DraftInit => DraftInv
  BY DraftInvInit
<1>2. DraftInv /\ [DraftNext]_draftVars => DraftInv'
  BY DraftInvNext
<1>3. DraftInv => DraftTypeOK
  BY DEF DraftInv
<1> QED
  BY <1>1, <1>2, <1>3, PTL DEF DraftSpec

LEMMA BudgetTypes == BudgetSpec => []BudgetTypeOK
<1>1. BudgetInit => BudgetInv
  BY BudgetInvInit
<1>2. BudgetInv /\ [BudgetNext]_budgetVars => BudgetInv'
  BY BudgetInvNext
<1>3. BudgetInv => BudgetTypeOK
  BY DEF BudgetInv
<1> QED
  BY <1>1, <1>2, <1>3, PTL DEF BudgetSpec

LEMMA IdleTypes == IdleSpec => []IdleTypeOK
<1>1. IdleInv => IdleTypeOK
  BY DEF IdleInv
<1> QED
  BY <1>1, IdleInvCorrect, PTL

LEMMA SegTypes == SegSpec => []SegTypeOK
<1>1. SegInv => SegTypeOK
  BY DEF SegInv
<1> QED
  BY <1>1, SegInvInit, SegInvStep, PTL DEF SegSpec

LEMMA OnePart == Spec => [](part \in Parts)
<1>1. Init => part \in Parts
  BY DEF Init
<1>2. part \in Parts /\ [Next]_monitorVars => (part \in Parts)'
  BY DEF monitorVars, Next, Power, Trip, Visits, Idle, Watchdog, Report, Expiry, Budget, DraftMails, Segmented
<1> QED
  BY <1>1, <1>2, PTL DEF Spec

\* The monitors' state stays within its types, for any number of calls and any thresholds.
THEOREM MonitorsTypesCorrect == Spec => []MonitorsTypeOK
<1>1. (/\ part \in Parts
       /\ PowerTypeOK /\ TripTypeOK /\ VisitTypeOK /\ IdleTypeOK /\ WatchdogTypeOK
       /\ ReportTypeOK /\ ExpiryTypeOK /\ BudgetTypeOK /\ DraftTypeOK /\ SegTypeOK) => MonitorsTypeOK
  BY DEF MonitorsTypeOK
<1> QED
  BY <1>1, OnePart, PartsBehave, PowerTypes, TripTypes, VisitTypesCorrect, IdleTypes, WatchdogTypes,
     ReportTypes, ExpiryTypes, BudgetTypes, DraftTypes, SegTypes, PTL

-----------------------------------------------------------------------------
(* What the run checks                                                     *)

\* Side by side, the parts keep what each promises alone: no alert or mail is doubled by two
\* handlers, none is lost, trips and stops are what was driven, and no cap is exceeded.
THEOREM MonitorsKeepTheirPromises ==
  Spec => /\ [](PowerAlertOnce /\ LossIsTold /\ OneTripAtATime)
          /\ [](ArrivalOnce /\ SilencedIsMarked /\ CrossingIsTold)
          /\ [](IdleAlertOnce /\ IdleWasObserved /\ TripsAsDriven)
          /\ [](ReportOnce /\ NoticeOnce /\ StampMeansTold)
          /\ [](BilledWithinCap /\ DraftSentOnce)
          /\ StartsSpaced /\ OutageOncePerDay
<1>1. Spec => [](PowerAlertOnce /\ LossIsTold /\ OneTripAtATime) /\ StartsSpaced
  BY PartsBehave, PowerAlertOnceAlways, LossIsToldAlways, OneTripAtATimeAlways, StartsSpacedAlways, PTL
<1>2. Spec => [](ArrivalOnce /\ SilencedIsMarked /\ CrossingIsTold)
  BY PartsBehave, ArrivalOnceAlways, SilencedIsMarkedAlways, CrossingIsToldAlways, PTL
<1>3. Spec => [](IdleAlertOnce /\ IdleWasObserved /\ TripsAsDriven)
  BY PartsBehave, IdleAlertOnceAlways, IdleWasObservedAlways, TripsAsDrivenAlways, PTL
<1>4. Spec => [](ReportOnce /\ NoticeOnce /\ StampMeansTold)
  BY PartsBehave, ReportOnceAlways, NoticeOnceAlways, StampMeansToldAlways, PTL
<1>5. Spec => [](BilledWithinCap /\ DraftSentOnce)
  BY PartsBehave, BilledWithinCapAlways, DraftSentOnceAlways, PTL
<1>6. Spec => OutageOncePerDay
  BY PartsBehave, OutageOncePerDayAlways, PTL
<1> QED
  BY <1>1, <1>2, <1>3, <1>4, <1>5, <1>6, PTL

=============================================================================
