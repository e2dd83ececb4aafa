------------------------------- MODULE GoogleBudget -------------------------------
(***************************************************************************)
(* The ceiling on billable calls of one kind: chargeGoogleCall, reserve    *)
(* and noteRefusal of google-usage.service.ts, and the request that        *)
(* fetchJson of place-lookup.service.ts makes once it is allowed.  A       *)
(* caller reserves a call of the month and then one of the day, each in    *)
(* one statement that counts only below the cap; Google bills the request  *)
(* when it is made.  The months and days that a caller writes to are read  *)
(* from the clock before each statement.                                   *)
(***************************************************************************)
EXTENDS CallsInFlight

CONSTANTS MonthCap, DayCap,   \* MONTHLY_CAP and DAILY_CAP of the kind
          LastDay,            \* bound: the last day that is followed
          DaysAMonth

\* A cap of zero is not one: reserve inserts the first call of a period without asking.
ASSUME BudgetConstants == {MonthCap, DayCap, LastDay, DaysAMonth} \subseteq Nat \ {0}

VARIABLES
  utcDay,       \* the clock, from which the month follows
  monthCalls, dayCalls,   \* calls in google_api_usage, per period
  lookup,       \* callers of chargeGoogleCall: [Calls -> [pc, month, day]]
  made,         \* requests made, per month: what is billed
  strays        \* history: requests made in another month than the one they were counted in

budgetVars == <<utcDay, monthCalls, dayCalls, lookup, made, strays>>

BudgetDays == 1..LastDay
MonthOf(d) == 1 + (d - 1) \div DaysAMonth
Months == {MonthOf(d) : d \in BudgetDays}
IdleLookup == [pc |-> "idle", month |-> 1, day |-> 1]

BudgetTypeOK ==
  /\ utcDay \in BudgetDays
  /\ monthCalls \in [Months -> Nat] /\ dayCalls \in [BudgetDays -> Nat]
  /\ lookup \in [Calls -> [pc : {"idle", "month", "clock", "day", "fetch"},
                           month : Months, day : BudgetDays]]
  /\ made \in [Months -> Nat] /\ strays \in [Months -> Nat]

BudgetInit ==
  /\ utcDay = 1
  /\ monthCalls = [m \in Months |-> 0] /\ dayCalls = [d \in BudgetDays |-> 0]
  /\ lookup = [c \in Calls |-> IdleLookup]
  /\ made = [m \in Months |-> 0] /\ strays = [m \in Months |-> 0]

BudgetDayPasses ==
  /\ utcDay < LastDay /\ utcDay' = utcDay + 1
  /\ UNCHANGED <<monthCalls, dayCalls, lookup, made, strays>>

LookupGoesTo(c, pc) == lookup' = [lookup EXCEPT ![c].pc = pc]
LookupEnds(c) == lookup' = [lookup EXCEPT ![c] = IdleLookup]

\* chargeGoogleCall reads the month and sends the first statement.
AskMonth(c) ==
  /\ lookup[c].pc = "idle"
  /\ lookup' = [lookup EXCEPT ![c] = [pc |-> "month", month |-> MonthOf(utcDay), day |-> utcDay]]
  /\ UNCHANGED <<utcDay, monthCalls, dayCalls, made, strays>>

\* Mutant: the cap is off by one.
ReserveMonth_OneMore(c) ==
  LET m == lookup[c].month IN
  /\ lookup[c].pc = "month"
  /\ IF monthCalls[m] <= MonthCap
     THEN monthCalls' = [monthCalls EXCEPT ![m] = @ + 1] /\ LookupGoesTo(c, "clock")
     ELSE LookupEnds(c) /\ UNCHANGED monthCalls
  /\ UNCHANGED <<utcDay, dayCalls, made, strays>>

\* reserve for the month: refused at the cap.
ReserveMonth(c) ==
  LET m == lookup[c].month IN
  /\ lookup[c].pc = "month"
  /\ IF monthCalls[m] < MonthCap
     THEN monthCalls' = [monthCalls EXCEPT ![m] = @ + 1] /\ LookupGoesTo(c, "clock")
     ELSE LookupEnds(c) /\ UNCHANGED monthCalls
  /\ UNCHANGED <<utcDay, dayCalls, made, strays>>

\* The day is read when the answer for the month is in.
AskDay(c) ==
  /\ lookup[c].pc = "clock"
  /\ lookup' = [lookup EXCEPT ![c].pc = "day", ![c].day = utcDay]
  /\ UNCHANGED <<utcDay, monthCalls, dayCalls, made, strays>>

\* reserve for the day: the month stays counted if the day refuses.
ReserveDay(c) ==
  LET d == lookup[c].day IN
  /\ lookup[c].pc = "day"
  /\ IF dayCalls[d] < DayCap
     THEN dayCalls' = [dayCalls EXCEPT ![d] = @ + 1] /\ LookupGoesTo(c, "fetch")
     ELSE LookupEnds(c) /\ UNCHANGED dayCalls
  /\ UNCHANGED <<utcDay, monthCalls, made, strays>>

\* Mutant: a database that cannot be reached is permission to spend.
ReserveFails_Open(c) ==
  /\ lookup[c].pc \in {"month", "day"}
  /\ LookupGoesTo(c, "fetch")
  /\ UNCHANGED <<utcDay, monthCalls, dayCalls, made, strays>>

\* A statement fails, before it has counted or after (its answer is lost): refused.
ReserveFails(c) ==
  /\ lookup[c].pc # "idle"
  /\ LookupEnds(c)
  /\ UNCHANGED <<utcDay, monthCalls, dayCalls, made, strays>>

\* fetchJson makes the request, whenever it gets there, or the server restarts before it.
MakeCall(c) ==
  LET m == MonthOf(utcDay) IN
  /\ lookup[c].pc = "fetch"
  /\ made' = [made EXCEPT ![m] = @ + 1]
  /\ strays' = IF m = lookup[c].month THEN strays ELSE [strays EXCEPT ![m] = @ + 1]
  /\ LookupEnds(c)
  /\ UNCHANGED <<utcDay, monthCalls, dayCalls>>

BudgetRestart ==
  /\ lookup' = [c \in Calls |-> IdleLookup]
  /\ UNCHANGED <<utcDay, monthCalls, dayCalls, made, strays>>

BudgetNext ==
  \/ BudgetDayPasses
  \/ \E c \in Calls : \/ AskMonth(c) \/ ReserveMonth(c) \/ AskDay(c) \/ ReserveDay(c)
                      \/ ReserveFails(c) \/ MakeCall(c)
  \/ BudgetRestart

BudgetSpec == BudgetInit /\ [][BudgetNext]_budgetVars

\* No bill: however callers race at the caps, a month is billed for no more calls than were
\* counted in it, which the cap bounds, but for calls that were counted just before the month
\* turned and made just after.
BilledWithinCap ==
  \A m \in Months : monthCalls[m] <= MonthCap /\ made[m] <= monthCalls[m] + strays[m]

=============================================================================
