------------------------------ MODULE RecordsProofs ------------------------------
(***************************************************************************)
(* What rows say, for components that read a row, wait, and write.         *)
(*                                                                         *)
(* Invoices: no day is billed twice by the check, for any calendar, usage, *)
(* number of operators, deletions and restarts; and every invoice on       *)
(* record has its file.                                                    *)
(*                                                                         *)
(* Connections to Slack, for any integrations, configurations, edits, and  *)
(* any number of refreshes that overlap: the map and the open sockets      *)
(* agree on every integration that no two refreshes dealt with at a time.  *)
(*                                                                         *)
(* Requests for tools: what a row says of its rationales, suggestions and  *)
(* issues is so.                                                           *)
(***************************************************************************)
EXTENDS Invoices, SlackConnections, ToolRequests, WellFoundedInduction, FiniteSetTheorems, TLAPS

(***************************************************************************)
(* Invoices: billing.  How far the client is billed is recorded nowhere:   *)
(* the check finds the end of the last invoice among the rows.  The proof  *)
(* is about why that, and what the check has in memory later, lies behind  *)
(* every automatic row.                                                    *)
(***************************************************************************)

Billed == {r \in invoices : r.auto}

MakerStates ==
    [pc : {"idle", "period", "number", "write", "create", "done"},
     from : Nat, to : Nat, number : Nat, attempt : Nat, made : Nat]

InvoiceRow == [number : Nat, from : Nat, to : Nat, auto : BOOLEAN]

Proper(period) == period.from < period.to /\ period.to <= Horizon

\* Who has a period of its own, and will make a row of it.
Making(m) == maker[m].pc \in {"number", "write", "create"}

InvoiceStateOK ==
    /\ today \in Nat /\ today <= Horizon
    /\ cursor \in {NoEnd} \cup [day : Nat]
    /\ maker \in [Makers -> MakerStates]
    /\ invoices \subseteq InvoiceRow
    /\ \E n \in Nat : \A r \in invoices : r.number <= n

\* The periods of rows, and of those who make one, begin before they end.
RowsProper == \A r \in invoices : Proper(r)
PeriodsProper == \A m \in Makers : Making(m) => Proper(maker[m])

\* While the check is at work, no automatic row ends after its cursor, nor after
\* the beginning of the period it is about to bill.
BehindCursor == maker[check].pc # "idle" => \A r \in Billed : cursor # NoEnd /\ r.to <= cursor.day
BehindPeriod == Making(check) => \A r \in Billed : r.to <= maker[check].from

BillingInv == InvoiceStateOK /\ RowsProper /\ PeriodsProper /\ BehindCursor /\ BehindPeriod /\ BilledOnce

-----------------------------------------------------------------------------

\* A set of naturals that is not empty and has a bound has a greatest element.
LEMMA MaxExists ==
    ASSUME NEW S, S \subseteq Nat, S # {}, NEW bound \in Nat, \A x \in S : x <= bound
    PROVE  /\ Max(S) \in S
           /\ \A x \in S : x <= Max(S)
PROOF
<1> DEFINE T == {bound - x : x \in S}
<1>1. T \subseteq Nat
  <2>1. \A x \in S : bound - x \in Nat
    OBVIOUS
  <2> QED BY <2>1
<1>2. T # {}
  OBVIOUS
<1>3. PICK t \in T : \A y \in T : ~ (<<y, t>> \in OpToRel(<, Nat))
  <2> HIDE DEF T
  <2> QED BY <1>1, <1>2, NatLessThanWellFounded, WFMin
<1>4. \A y \in T : t <= y
  <2> HIDE DEF T
  <2> TAKE y \in T
  <2>1. ~ (<<y, t>> \in OpToRel(<, Nat))
    BY <1>3
  <2>2. y \in Nat /\ t \in Nat
    BY <1>1, <1>3
  <2> QED BY <2>1, <2>2 DEF OpToRel
<1>5. PICK s \in S : t = bound - s
  BY <1>3
<1>6. \A x \in S : s >= x
  <2> TAKE x \in S
  <2>1. bound - x \in T
    OBVIOUS
  <2>2. t <= bound - x
    BY <1>4, <2>1
  <2> HIDE DEF T
  <2> QED BY <1>5, <2>2
<1> QED BY <1>6 DEF Max

\* The first day of the month that a day is in.
LEMMA MonthStartOf ==
    ASSUME NEW day \in Nat
    PROVE  MonthStart(day) \in Nat /\ MonthStart(day) <= day
PROOF
<1> DEFINE S == {d \in MonthStarts : d <= day}
<1>1. S \subseteq Nat /\ \A x \in S : x <= day
  BY InvoicesAssumption
<1>2. 0 \in S
  BY InvoicesAssumption
<1>3. S # {}
  BY <1>2
<1>4. Max(S) \in S
  <2> HIDE DEF S
  <2> QED BY <1>1, <1>3, MaxExists
<1> QED BY <1>1, <1>4 DEF MonthStart

\* A cursor is one thing or the other.
LEMMA EndOrNot == \A d : [day |-> d] # NoEnd
PROOF
<1> SUFFICES ASSUME NEW d, [day |-> d] = NoEnd PROVE FALSE
  OBVIOUS
<1>1. DOMAIN [day |-> d] = DOMAIN NoEnd
  OBVIOUS
<1> QED BY <1>1 DEF NoEnd

\* The check begins behind every row.
LEMMA SeedBehind ==
    ASSUME InvoiceStateOK, RowsProper
    PROVE  /\ Seed \in {NoEnd} \cup [day : Nat]
           /\ \A r \in invoices : Seed # NoEnd /\ r.to <= Seed.day
PROOF
<1> DEFINE S == {r.to : r \in invoices}
<1>1. CASE invoices = {}
  BY <1>1 DEF Seed
<1>2. CASE invoices # {}
  <2>1. \A r \in invoices : r.to \in Nat /\ r.to <= Horizon
    BY DEF InvoiceStateOK, InvoiceRow, RowsProper, Proper
  <2>2. S \subseteq Nat /\ S # {} /\ \A x \in S : x <= Horizon
    BY <1>2, <2>1
  <2>3. Max(S) \in S /\ \A x \in S : x <= Max(S)
    <3> HIDE DEF S
    <3> QED BY <2>2, MaxExists, InvoicesAssumption
  <2>4. Max(S) \in Nat /\ \A r \in invoices : r.to <= Max(S)
    BY <2>2, <2>3
  <2>5. Seed = [day |-> Max(S)]
    BY <1>2 DEF Seed
  <2> HIDE DEF S
  <2> QED BY <2>4, <2>5, EndOrNot
<1> QED BY <1>1, <1>2

\* The period that the check looks at: days, and none that is billed.
LEMMA NextPeriod ==
    ASSUME InvoiceStateOK
    PROVE  /\ NextPeriodEnd \in Nat /\ PeriodStart \in Nat
           /\ cursor # NoEnd => PeriodStart = cursor.day /\ cursor.day < NextPeriodEnd
PROOF
<1>1. CASE cursor = NoEnd
  <2>1. MonthStart(today) \in Nat
    BY MonthStartOf DEF InvoiceStateOK
  <2>2. NextPeriodEnd \in Nat
    BY <1>1, <2>1, InvoicesAssumption DEF NextPeriodEnd
  <2> QED BY <1>1, <2>2, MonthStartOf DEF PeriodStart
<1>2. CASE cursor # NoEnd
  <2>1. cursor.day \in Nat
    BY <1>2 DEF InvoiceStateOK
  <2> QED BY <1>2, <2>1, InvoicesAssumption DEF NextPeriodEnd, PeriodStart
<1> QED BY <1>1, <1>2

-----------------------------------------------------------------------------

LEMMA BillingInvInit == InvoicesInit => BillingInv
PROOF
<1> SUFFICES ASSUME InvoicesInit PROVE BillingInv
  OBVIOUS
<1> USE InvoicesAssumption DEF InvoicesInit
<1>1. InvoiceStateOK
  BY DEF InvoiceStateOK, MakerStates, Resting
<1>2. RowsProper /\ BehindCursor /\ BehindPeriod /\ BilledOnce
  BY DEF RowsProper, BehindCursor, BehindPeriod, BilledOnce, Billed
<1>3. PeriodsProper
  BY DEF PeriodsProper, Making, Resting
<1> QED BY <1>1, <1>2, <1>3 DEF BillingInv

\* InvoiceRow, the cursor and the makers stay as they are, and the day does not go
\* beyond the last.
LEMMA NothingBilled ==
    ASSUME BillingInv, UNCHANGED <<invoices, maker, cursor>>, today' \in Nat, today' <= Horizon
    PROVE  BillingInv'
PROOF
  BY DEF BillingInv, InvoiceStateOK, RowsProper, PeriodsProper, BehindCursor, BehindPeriod, BilledOnce, Making, Billed, Proper

LEMMA CheckBeginsStep ==
    ASSUME BillingInv, CheckBegins
    PROVE  BillingInv'
PROOF
<1> USE DEF BillingInv, CheckBegins
<1>1. check \in Makers
  BY DEF Makers
<1>2. maker' \in [Makers -> MakerStates]
  BY <1>1, InvoicesAssumption DEF InvoiceStateOK, MakerStates
<1>3. InvoiceStateOK'
  BY <1>2, SeedBehind DEF InvoiceStateOK
<1>4. RowsProper' /\ BilledOnce'
  BY DEF RowsProper, Proper, BilledOnce
<1>5. PeriodsProper'
  BY <1>1 DEF PeriodsProper, Making, Proper, InvoiceStateOK, MakerStates
<1>6. BehindCursor' /\ BehindPeriod'
  BY <1>1, SeedBehind DEF BehindCursor, BehindPeriod, Making, Billed, InvoiceStateOK, MakerStates
<1> QED BY <1>3, <1>4, <1>5, <1>6

LEMMA LooksAtPeriodStep ==
    ASSUME BillingInv, LooksAtPeriod
    PROVE  BillingInv'
PROOF
<1> USE DEF BillingInv
<1>1. check \in Makers /\ maker \in [Makers -> MakerStates] /\ maker[check].pc = "period"
  BY DEF Makers, InvoiceStateOK, LooksAtPeriod
<1>2. UNCHANGED <<today, invoices>> /\ RowsProper' /\ BilledOnce'
  BY DEF LooksAtPeriod, RowsProper, Proper, BilledOnce
<1>3. \A r \in Billed : cursor # NoEnd /\ r.to <= cursor.day
  BY <1>1 DEF BehindCursor, BehindPeriod
<1>4. CASE HasEnded /\ Used(PeriodStart, NextPeriodEnd)
  <2> DEFINE billing == [pc |-> "number", from |-> PeriodStart, to |-> NextPeriodEnd,
                         number |-> 0, attempt |-> 0, made |-> maker[check].made]
  <2>1. maker' = [maker EXCEPT ![check] = billing] /\ cursor' = cursor
    BY <1>4 DEF LooksAtPeriod
  <2>2. billing \in MakerStates
    BY <1>1, NextPeriod DEF MakerStates
  <2>3. Proper(billing)
    <3>1. PeriodStart < NextPeriodEnd /\ NextPeriodEnd <= today
      BY <1>4 DEF HasEnded
    <3>2. today \in Nat /\ today <= Horizon /\ Horizon \in Nat
      BY InvoicesAssumption DEF InvoiceStateOK
    <3> QED BY <3>1, <3>2, NextPeriod DEF Proper
  <2>4. \A r \in Billed : r.to <= billing.from
    BY <1>3, NextPeriod
  <2> HIDE DEF billing
  <2>5. InvoiceStateOK'
    BY <1>1, <1>2, <2>1, <2>2 DEF InvoiceStateOK
  <2>6. PeriodsProper'
    BY <1>1, <2>1, <2>3 DEF PeriodsProper, Making, Proper
  <2>7. BehindCursor' /\ BehindPeriod'
    BY <1>1, <1>2, <1>3, <2>1, <2>4 DEF BehindCursor, BehindPeriod, Billed
  <2> QED BY <1>2, <2>5, <2>6, <2>7
<1>5. CASE HasEnded /\ ~Used(PeriodStart, NextPeriodEnd)
  <2>1. maker' = maker /\ cursor' = [day |-> NextPeriodEnd]
    BY <1>5 DEF LooksAtPeriod
  <2>2. \A r \in Billed : r.to <= NextPeriodEnd
    BY <1>3, NextPeriod DEF InvoiceStateOK, InvoiceRow, Billed
  <2>3. InvoiceStateOK'
    BY <1>2, <2>1, NextPeriod DEF InvoiceStateOK
  <2>4. PeriodsProper'
    BY <2>1 DEF PeriodsProper, Making
  <2>5. BehindCursor' /\ BehindPeriod'
    BY <1>1, <1>2, <2>1, <2>2, EndOrNot DEF BehindCursor, BehindPeriod, Billed, Making
  <2> QED BY <1>2, <2>3, <2>4, <2>5
<1>6. CASE ~HasEnded
  <2>1. maker' = [maker EXCEPT ![check] = Resting] /\ cursor' = cursor
    BY <1>6 DEF LooksAtPeriod
  <2>2. InvoiceStateOK'
    BY <1>1, <1>2, <2>1 DEF InvoiceStateOK, MakerStates, Resting
  <2>3. PeriodsProper' /\ BehindCursor' /\ BehindPeriod'
    BY <1>1, <2>1 DEF PeriodsProper, BehindCursor, BehindPeriod, Making, Proper, Resting
  <2> QED BY <1>2, <2>2, <2>3
<1> QED BY <1>4, <1>5, <1>6

LEMMA RestartStep ==
    ASSUME BillingInv, RestartsScheduler
    PROVE  BillingInv'
PROOF
<1> USE DEF BillingInv, RestartsScheduler
<1>1. check \in Makers
  BY DEF Makers
<1>2. InvoiceStateOK'
  BY <1>1 DEF InvoiceStateOK, MakerStates, Resting
<1>3. RowsProper' /\ BilledOnce'
  BY DEF RowsProper, Proper, BilledOnce
<1>4. PeriodsProper' /\ BehindCursor' /\ BehindPeriod'
  BY <1>1 DEF InvoiceStateOK, PeriodsProper, BehindCursor, BehindPeriod, Making, Proper, Resting
<1> QED BY <1>2, <1>3, <1>4

\* Numbers that are drawn are natural numbers.
LEMMA NumberDrawn ==
    ASSUME InvoiceStateOK
    PROVE  NextInvoiceNumber \in Nat
PROOF
<1> DEFINE S == {r.number : r \in invoices} \cup {0}
<1>1. PICK n \in Nat : \A r \in invoices : r.number <= n
  BY DEF InvoiceStateOK
<1>2. \A r \in invoices : r.number \in Nat
  BY DEF InvoiceStateOK, InvoiceRow
<1>3. S \subseteq Nat /\ S # {} /\ \A x \in S : x <= n
  BY <1>1, <1>2
<1>4. Max(S) \in S
  <2> HIDE DEF S
  <2> QED BY <1>3, MaxExists
<1>5. Max(S) \in Nat
  BY <1>3, <1>4
<1> QED BY <1>5 DEF NextInvoiceNumber

\* What is counted up remains a natural number.
LEMMA Counted ==
    ASSUME NEW j \in MakerStates
    PROVE  /\ [j EXCEPT !.pc = "number", !.attempt = j.attempt + 1] \in MakerStates
           /\ [j EXCEPT !.pc = "number", !.attempt = j.attempt + 1].from = j.from
           /\ [j EXCEPT !.pc = "number", !.attempt = j.attempt + 1].to = j.to
           /\ [j EXCEPT !.pc = "period", !.made = j.made + 1] \in MakerStates
PROOF
<1>1. j.attempt + 1 \in Nat /\ j.made + 1 \in Nat
  BY DEF MakerStates
<1>2. \A k \in Nat : /\ [j EXCEPT !.pc = "number", !.attempt = k] \in MakerStates
                     /\ [j EXCEPT !.pc = "number", !.attempt = k].from = j.from
                     /\ [j EXCEPT !.pc = "number", !.attempt = k].to = j.to
                     /\ [j EXCEPT !.pc = "period", !.made = k] \in MakerStates
  BY DEF MakerStates
<1> QED BY <1>1, <1>2

\* A maker that goes on to another number, attempt or step of the same period,
\* or makes nothing any more.
LEMMA MakerGoesOn ==
    ASSUME BillingInv, NEW m \in Makers, NEW next \in MakerStates,
           maker' = [maker EXCEPT ![m] = next],
           UNCHANGED <<today, invoices, cursor>>,
           next.pc \in {"number", "write", "create"} =>
               \/ Making(m) /\ next.from = maker[m].from /\ next.to = maker[m].to
               \/ m # check /\ Proper(next),
           m = check => maker[check].pc # "idle"
    PROVE  BillingInv'
PROOF
<1> USE DEF BillingInv
<1>1. InvoiceStateOK'
  BY DEF InvoiceStateOK
<1>2. RowsProper' /\ BilledOnce'
  BY DEF RowsProper, Proper, BilledOnce
<1>3. PeriodsProper'
  BY DEF PeriodsProper, Making, Proper, InvoiceStateOK
<1>4. BehindCursor' /\ BehindPeriod'
  BY DEF BehindCursor, BehindPeriod, Making, Billed, InvoiceStateOK, Makers
<1> QED BY <1>1, <1>2, <1>3, <1>4

LEMMA GeneratesStep ==
    ASSUME BillingInv, NEW m \in Makers, Generates(m)
    PROVE  BillingInv'
PROOF
<1>1. PICK from \in Days, to \in Days :
          from < to /\ maker' = [maker EXCEPT ![m].pc = "number", ![m].from = from, ![m].to = to]
  BY DEF Generates
<1> DEFINE next == [maker[m] EXCEPT !.pc = "number", !.from = from, !.to = to]
<1>2. maker[m] \in MakerStates /\ m # check
  BY InvoicesAssumption DEF BillingInv, InvoiceStateOK, Generates
<1>3. next \in MakerStates /\ Proper(next)
  <2>1. from \in Nat /\ to \in Nat /\ from < to /\ to <= Horizon
    BY <1>1, InvoicesAssumption DEF Days
  <2>2. next \in MakerStates
    BY <1>2, <2>1 DEF MakerStates
  <2>3. next.from = from /\ next.to = to
    BY <1>2 DEF MakerStates
  <2> QED BY <2>1, <2>2, <2>3 DEF Proper
<1>4. maker' = [maker EXCEPT ![m] = next]
  BY <1>1
<1> HIDE DEF next
<1> QED BY <1>2, <1>3, <1>4, MakerGoesOn DEF Generates

LEMMA DrawsNumberStep ==
    ASSUME BillingInv, NEW m \in Makers, DrawsNumber(m)
    PROVE  BillingInv'
PROOF
<1> DEFINE next == [maker[m] EXCEPT !.pc = "write", !.number = NextInvoiceNumber]
<1>1. maker[m] \in MakerStates /\ maker[m].pc = "number"
  BY DEF BillingInv, InvoiceStateOK, DrawsNumber
<1>2. next \in MakerStates /\ next.from = maker[m].from /\ next.to = maker[m].to
  BY <1>1, NumberDrawn DEF MakerStates, BillingInv
<1>3. maker' = [maker EXCEPT ![m] = next]
  BY DEF DrawsNumber
<1> HIDE DEF next
<1> QED BY <1>1, <1>2, <1>3, MakerGoesOn DEF DrawsNumber, Making

LEMMA WritesFileStep ==
    ASSUME BillingInv, NEW m \in Makers, WritesFile(m)
    PROVE  BillingInv'
PROOF
<1> DEFINE next == [maker[m] EXCEPT !.pc = "create"]
<1>1. maker[m] \in MakerStates /\ maker[m].pc = "write"
  BY DEF BillingInv, InvoiceStateOK, WritesFile
<1>2. next \in MakerStates /\ next.from = maker[m].from /\ next.to = maker[m].to
  BY <1>1 DEF MakerStates
<1>3. maker' = [maker EXCEPT ![m] = next]
  BY DEF WritesFile
<1> HIDE DEF next
<1> QED BY <1>1, <1>2, <1>3, MakerGoesOn DEF WritesFile, Making

LEMMA CreationFailsStep ==
    ASSUME BillingInv, NEW m \in Makers, CreationFails(m)
    PROVE  BillingInv'
PROOF
<1>1. maker[m] \in MakerStates /\ maker[m].pc = "create"
  BY DEF BillingInv, InvoiceStateOK, CreationFails
<1>2. PICK next \in MakerStates :
          /\ maker' = [maker EXCEPT ![m] = next]
          /\ next.from = maker[m].from /\ next.to = maker[m].to
  <2>1. CASE maker' = [maker EXCEPT ![m].pc = "number", ![m].attempt = maker[m].attempt + 1]
    <3> DEFINE next == [maker[m] EXCEPT !.pc = "number", !.attempt = maker[m].attempt + 1]
    <3>1. next \in MakerStates /\ next.from = maker[m].from /\ next.to = maker[m].to
      BY <1>1, Counted
    <3>2. maker' = [maker EXCEPT ![m] = next]
      BY <2>1
    <3> HIDE DEF next
    <3> QED BY <3>1, <3>2
  <2>2. CASE maker' = [maker EXCEPT ![m].pc = IF m = check THEN "idle" ELSE "done"]
    <3> DEFINE next(p) == [maker[m] EXCEPT !.pc = p]
    <3>1. \A p \in {"idle", "done"} :
              next(p) \in MakerStates /\ next(p).from = maker[m].from /\ next(p).to = maker[m].to
      BY <1>1 DEF MakerStates
    <3>2. PICK p \in {"idle", "done"} : maker' = [maker EXCEPT ![m] = next(p)]
      BY <2>2
    <3> HIDE DEF next
    <3> QED BY <3>1, <3>2
  <2> QED BY <2>1, <2>2 DEF CreationFails
<1> QED BY <1>1, <1>2, MakerGoesOn DEF CreationFails, Making

LEMMA CreatesRowStep ==
    ASSUME BillingInv, NEW m \in Makers, CreatesRow(m)
    PROVE  BillingInv'
PROOF
<1> DEFINE row == [number |-> maker[m].number, from |-> maker[m].from, to |-> maker[m].to, auto |-> m = check]
<1>1. maker[m] \in MakerStates /\ maker[m].pc = "create" /\ Making(m) /\ Proper(maker[m])
  BY DEF BillingInv, InvoiceStateOK, CreatesRow, PeriodsProper, Making
<1>2. row \in InvoiceRow /\ Proper(row)
  BY <1>1 DEF MakerStates, InvoiceRow, Proper
<1>3. invoices' = invoices \cup {row}
  BY DEF CreatesRow
<1>4. maker' = [maker EXCEPT ![m] = AfterCreation(m)] /\ AfterCreation(m) \in MakerStates
  <2>1. maker' = [maker EXCEPT ![m] = AfterCreation(m)]
    BY DEF CreatesRow
  <2>2. AfterCreation(m) \in MakerStates
    <3>1. CASE m = check
      BY <1>1, <3>1, Counted DEF AfterCreation
    <3>2. CASE m # check
      BY <1>1, <3>2 DEF AfterCreation, MakerStates
    <3> QED BY <3>1, <3>2
  <2> QED BY <2>1, <2>2
<1>5. AfterCreation(m).pc \in {"period", "done"}
  BY <1>1 DEF AfterCreation, MakerStates
<1>6. InvoiceStateOK'
  <2>1. PICK n \in Nat : \A r \in invoices : r.number <= n
    BY DEF BillingInv, InvoiceStateOK
  <2>2. \A r \in invoices' : r.number <= n + row.number
    BY <1>2, <1>3, <2>1 DEF BillingInv, InvoiceStateOK, InvoiceRow
  <2>3. n + row.number \in Nat
    BY <1>2, <2>1 DEF InvoiceRow
  <2>4. \E k \in Nat : \A r \in invoices' : r.number <= k
    BY <2>2, <2>3
  <2>5. cursor' \in {NoEnd} \cup [day : Nat]
    BY <1>1 DEF BillingInv, InvoiceStateOK, CreatesRow, MakerStates
  <2>6. invoices' \subseteq InvoiceRow
    BY <1>2, <1>3 DEF BillingInv, InvoiceStateOK
  <2> HIDE DEF row
  <2> QED BY <1>4, <2>4, <2>5, <2>6 DEF BillingInv, InvoiceStateOK, CreatesRow
<1>7. RowsProper'
  BY <1>2, <1>3 DEF BillingInv, RowsProper, Proper
<1>8. PeriodsProper'
  BY <1>4, <1>5 DEF BillingInv, InvoiceStateOK, PeriodsProper, Making, Proper
<1>9. CASE m = check
  <2>1. \A r \in Billed : r.to <= row.from
    BY <1>1, <1>9 DEF BillingInv, BehindCursor, BehindPeriod
  <2>2. Billed' = Billed \cup {row}
    <3>1. row.auto
      BY <1>9
    <3> HIDE DEF row
    <3> QED BY <1>3, <3>1, Zenon DEF Billed
  <2>3. row.to \in Nat /\ row.from \in Nat /\ row.from < row.to
    BY <1>2 DEF InvoiceRow, Proper
  <2>4. \A r \in Billed : r.to \in Nat
    BY DEF BillingInv, InvoiceStateOK, InvoiceRow, Billed
  <2>5. \A r \in Billed' : r.to <= row.to
    <3> HIDE DEF row
    <3> QED BY <2>1, <2>2, <2>3, <2>4
  <2>6. cursor' = [day |-> row.to]
    BY <1>9 DEF CreatesRow
  <2>7. BehindCursor' /\ BehindPeriod'
    <3>1. ~Making(check)'
      BY <1>4, <1>5, <1>9 DEF BillingInv, InvoiceStateOK, Making
    <3> HIDE DEF row
    <3> QED BY <2>5, <2>6, <3>1, EndOrNot DEF BehindCursor, BehindPeriod
  <2>8. BilledOnce'
    <3>1. \A r, s \in Billed : r = s \/ r.to <= s.from \/ s.to <= r.from
      BY DEF BillingInv, BilledOnce, Billed
    <3>2. \A r, s \in Billed' : r = s \/ r.to <= s.from \/ s.to <= r.from
      <4> HIDE DEF row
      <4> QED BY <2>1, <2>2, <3>1
    <3> QED BY <3>2 DEF BilledOnce, Billed
  <2> QED BY <1>6, <1>7, <1>8, <2>7, <2>8 DEF BillingInv
<1>10. CASE m # check
  <2>1. Billed' = Billed
    <3>1. ~row.auto
      BY <1>10
    <3> HIDE DEF row
    <3> QED BY <1>3, <3>1, Zenon DEF Billed
  <2>2. cursor' = cursor /\ maker'[check] = maker[check]
    BY <1>4, <1>10 DEF BillingInv, InvoiceStateOK, CreatesRow, Makers
  <2>3. BehindCursor' /\ BehindPeriod'
    BY <2>1, <2>2 DEF BillingInv, BehindCursor, BehindPeriod, Making
  <2>4. BilledOnce'
    <3>1. \A r, s \in Billed' : r = s \/ r.to <= s.from \/ s.to <= r.from
      BY <2>1 DEF BillingInv, BilledOnce, Billed
    <3> QED BY <3>1 DEF BilledOnce, Billed
  <2> QED BY <1>6, <1>7, <1>8, <2>3, <2>4 DEF BillingInv
<1> QED BY <1>9, <1>10

LEMMA DeletesStep ==
    ASSUME BillingInv, NEW d \in Deletions, Deletes(d)
    PROVE  BillingInv'
PROOF
<1>1. invoices' \subseteq invoices /\ UNCHANGED <<today, maker, cursor>>
  BY DEF Deletes
<1>2. InvoiceStateOK'
  BY <1>1 DEF BillingInv, InvoiceStateOK
<1>3. RowsProper' /\ PeriodsProper'
  BY <1>1 DEF BillingInv, RowsProper, PeriodsProper, Proper, Making
<1>4. BehindCursor' /\ BehindPeriod' /\ BilledOnce'
  BY <1>1 DEF BillingInv, BehindCursor, BehindPeriod, BilledOnce, Billed, Making
<1> QED BY <1>2, <1>3, <1>4 DEF BillingInv

\* BillingInv holds in every reachable state.
THEOREM BillingInvHolds == InvoicesSpec => []BillingInv
PROOF
<1>1. BillingInv /\ [InvoicesNext]_invoiceVars => BillingInv'
  <2> SUFFICES ASSUME BillingInv, [InvoicesNext]_invoiceVars PROVE BillingInv'
    OBVIOUS
  <2>1. CASE DayPasses
    <3>1. UNCHANGED <<invoices, maker, cursor>> /\ today' \in Nat /\ today' <= Horizon
      BY <2>1, InvoicesAssumption DEF DayPasses, BillingInv, InvoiceStateOK
    <3> QED BY <3>1, NothingBilled
  <2>2. CASE CheckBegins
    BY <2>2, CheckBeginsStep
  <2>3. CASE LooksAtPeriod
    BY <2>3, LooksAtPeriodStep
  <2>4. CASE RestartsScheduler
    BY <2>4, RestartStep
  <2>5. ASSUME NEW m \in Makers, Generates(m) \/ DrawsNumber(m) \/ WritesFile(m) \/ CreatesRow(m) \/ CreationFails(m)
        PROVE  BillingInv'
    BY <2>5, GeneratesStep, DrawsNumberStep, WritesFileStep, CreatesRowStep, CreationFailsStep
  <2>6. ASSUME NEW d \in Deletions, FindsRow(d)
        PROVE  BillingInv'
    <3>1. UNCHANGED <<invoices, maker, cursor>> /\ today' \in Nat /\ today' <= Horizon
      BY <2>6 DEF FindsRow, BillingInv, InvoiceStateOK
    <3> QED BY <3>1, NothingBilled
  <2>7. ASSUME NEW d \in Deletions, Deletes(d)
        PROVE  BillingInv'
    BY <2>7, DeletesStep
  <2>8. CASE UNCHANGED invoiceVars
    <3>1. UNCHANGED <<invoices, maker, cursor>> /\ today' \in Nat /\ today' <= Horizon
      BY <2>8 DEF invoiceVars, BillingInv, InvoiceStateOK
    <3> QED BY <3>1, NothingBilled
  <2> QED BY <2>1, <2>2, <2>3, <2>4, <2>5, <2>6, <2>7, <2>8 DEF InvoicesNext
<1> QED BY <1>1, BillingInvInit, PTL DEF InvoicesSpec

\* No day is billed by two automatic invoices, for any calendar, period, usage,
\* number of operators' requests and deletions, and whenever the scheduler is
\* restarted: BilledOnce is an invariant (runAutoInvoiceCheck).
THEOREM BilledOnceHolds == InvoicesSpec => []BilledOnce
PROOF
<1>1. BillingInv => BilledOnce
  BY DEF BillingInv
<1> QED BY <1>1, BillingInvHolds, PTL
-----------------------------------------------------------------------------
(***************************************************************************)
(* Invoices: files.  A file has the number of its invoice as its name, so  *)
(* whoever removes one must have had the number alone.                     *)
(***************************************************************************)

HasNumber(m) == maker[m].pc \in {"write", "create"}

DeletionOK == deletion \in [Deletions -> [step : 0 .. 3, row : InvoiceRow]]

NumbersUnique == \A r, s \in invoices : r.number = s.number => r = s

\* Who has a number, and nobody else had it, is the only one who knows it: no row
\* has it yet, no other maker, and no deletion that is about to remove the file.
HeldAlone ==
    \A m \in Makers : HasNumber(m) /\ maker[m].number \notin contested =>
        /\ ~Taken(maker[m].number)
        /\ \A o \in Makers : HasNumber(o) /\ maker[o].number = maker[m].number => o = m
        /\ \A d \in Deletions : deletion[d].step = 1 => deletion[d].row.number # maker[m].number

\* A deletion that has found a row, which somebody else has deleted since, removes
\* the file of a contested number only, if it removes one.
ForgottenRows ==
    \A d \in Deletions : deletion[d].step = 1 /\ deletion[d].row \notin invoices =>
        \A r \in invoices : r.number = deletion[d].row.number => r.number \in contested

FilesWritten == \A m \in Makers : maker[m].pc = "create" => maker[m].number \in files \cup contested

FilingInv == DeletionOK /\ NumbersUnique /\ HeldAlone /\ ForgottenRows /\ FilesWritten /\ InvoicesFiled

LEMMA FilingInvInit == InvoicesInit => FilingInv
PROOF
<1> SUFFICES ASSUME InvoicesInit PROVE FilingInv
  OBVIOUS
<1>1. NoRow \in InvoiceRow
  BY DEF NoRow, InvoiceRow
<1>2. DeletionOK
  BY <1>1 DEF InvoicesInit, DeletionOK
<1>3. \A m \in Makers : maker[m].pc = "idle"
  BY DEF InvoicesInit, Resting
<1>4. HeldAlone /\ FilesWritten
  BY <1>3 DEF HeldAlone, FilesWritten, HasNumber
<1> QED BY <1>2, <1>4 DEF InvoicesInit, NumbersUnique, ForgottenRows, InvoicesFiled, FilingInv

\* The number that is drawn is on no row.
LEMMA NumberIsNew ==
    ASSUME InvoiceStateOK
    PROVE  ~Taken(NextInvoiceNumber)
PROOF
<1> DEFINE S == {r.number : r \in invoices} \cup {0}
<1>1. PICK n \in Nat : \A r \in invoices : r.number <= n
  BY DEF InvoiceStateOK
<1>2. \A r \in invoices : r.number \in Nat
  BY DEF InvoiceStateOK, InvoiceRow
<1>3. S \subseteq Nat /\ S # {} /\ \A x \in S : x <= n
  BY <1>1, <1>2
<1>4. Max(S) \in S /\ \A x \in S : x <= Max(S)
  <2> HIDE DEF S
  <2> QED BY <1>3, MaxExists
<1>5. NextInvoiceNumber = Max(S) + 1
  BY DEF NextInvoiceNumber
<1>6. \A r \in invoices : r.number \in S
  OBVIOUS
<1> HIDE DEF S
<1>7. \A r \in invoices : r.number \in Nat /\ r.number <= Max(S)
  BY <1>2, <1>4, <1>6
<1>8. \A r \in invoices : r.number # NextInvoiceNumber
  <2>1. Max(S) \in Nat
    BY <1>3, <1>4
  <2> QED BY <2>1, <1>5, <1>7
<1> QED BY <1>8 DEF Taken

\* Who has no number has a stake in no file.
LEMMA FilesAlone ==
    ASSUME FilingInv, UNCHANGED <<invoices, files, maker, deletion, contested>>
    PROVE  FilingInv'
PROOF
<1>1. DeletionOK' /\ NumbersUnique' /\ ForgottenRows' /\ FilesWritten'
  BY DEF FilingInv, DeletionOK, NumbersUnique, ForgottenRows, FilesWritten
<1>2. HeldAlone'
  BY DEF FilingInv, HeldAlone, HasNumber, Taken
<1>3. InvoicesFiled'
  BY DEF FilingInv, InvoicesFiled
<1> QED BY <1>1, <1>2, <1>3 DEF FilingInv

\* A maker goes on: with the number it has, with one that is new unless noted, or
\* with none.  Only with none does it remove a file, that of the number it had.
LEMMA MakerFiles ==
    ASSUME InvoiceStateOK, FilingInv, NEW m \in Makers, NEW next \in MakerStates,
           maker' = [maker EXCEPT ![m] = next], UNCHANGED <<invoices, deletion>>, contested \subseteq contested',
           next.pc \in {"write", "create"} =>
               \/ HasNumber(m) /\ next.number = maker[m].number
               \/ next.number \notin contested' =>
                      ~Taken(next.number) /\ ~HeldElsewhere(m, next.number),
           next.pc = "create" => next.number \in files' \cup contested',
           files \subseteq files' \/
               /\ HasNumber(m) /\ next.pc \notin {"write", "create"}
               /\ files' = files \ {maker[m].number}
    PROVE  FilingInv'
PROOF
<1>1. maker \in [Makers -> MakerStates] /\ maker'[m] = next
      /\ \A o \in Makers : o # m => maker'[o] = maker[o]
  BY DEF InvoiceStateOK
<1>2. DeletionOK' /\ NumbersUnique' /\ ForgottenRows'
  BY DEF FilingInv, DeletionOK, NumbersUnique, ForgottenRows
<1>3. HeldAlone'
  <2> SUFFICES ASSUME NEW k \in Makers, HasNumber(k)', maker'[k].number \notin contested'
               PROVE  /\ \A r \in invoices' : r.number # maker'[k].number
                      /\ \A o \in Makers : HasNumber(o)' /\ maker'[o].number = maker'[k].number => o = k
                      /\ \A d \in Deletions : deletion'[d].step = 1 => deletion'[d].row.number # maker'[k].number
    BY DEF HeldAlone, Taken
  <2>1. CASE k # m /\ ~(HasNumber(m)' /\ maker'[m].number = maker'[k].number)
    BY <2>1, <1>1 DEF FilingInv, HeldAlone, HasNumber, Taken
  <2>2. CASE k # m /\ HasNumber(m)' /\ maker'[m].number = maker'[k].number
    <3>1. HasNumber(k) /\ maker[k].number = next.number /\ next.number \notin contested
      BY <1>1, <2>2 DEF HasNumber
    <3>2. ~(HasNumber(m) /\ next.number = maker[m].number)
      BY <2>2, <3>1 DEF FilingInv, HeldAlone
    <3>3. ~HeldElsewhere(m, next.number)
      BY <1>1, <2>2, <3>2 DEF HasNumber
    <3> QED BY <2>2, <3>1, <3>3 DEF HeldElsewhere, HasNumber
  <2>3. CASE k = m
    <3>1. next.pc \in {"write", "create"} /\ next.number \notin contested'
      BY <1>1, <2>3 DEF HasNumber
    <3>2. CASE HasNumber(m) /\ next.number = maker[m].number
      BY <1>1, <2>3, <3>1, <3>2 DEF FilingInv, HeldAlone, HasNumber, Taken
    <3>3. CASE ~(HasNumber(m) /\ next.number = maker[m].number)
      <4>1. ~Taken(next.number) /\ ~HeldElsewhere(m, next.number)
        BY <3>1, <3>3
      <4>2. \A d \in Deletions : deletion[d].step = 1 => deletion[d].row.number # next.number
        BY <4>1 DEF HeldElsewhere, Taken
      <4>3. \A o \in Makers : o # m => ~(HasNumber(o) /\ maker[o].number = next.number)
        BY <4>1 DEF HeldElsewhere, HasNumber
      <4> QED BY <1>1, <2>3, <4>1, <4>2, <4>3 DEF HasNumber, Taken
    <3> QED BY <3>2, <3>3
  <2> QED BY <2>1, <2>2, <2>3
<1>4. FilesWritten'
  <2> SUFFICES ASSUME NEW k \in Makers, maker'[k].pc = "create"
               PROVE  maker'[k].number \in files' \cup contested'
    BY DEF FilesWritten
  <2>1. CASE k = m
    BY <1>1, <2>1
  <2>2. CASE k # m
    <3>1. maker[k].pc = "create" /\ maker'[k].number = maker[k].number /\ HasNumber(k)
      BY <1>1, <2>2 DEF HasNumber
    <3>2. maker[k].number \in files \cup contested
      BY <3>1 DEF FilingInv, FilesWritten
    <3>3. HasNumber(m) /\ maker[m].number = maker[k].number => maker[k].number \in contested
      BY <2>2, <3>1 DEF FilingInv, HeldAlone
    <3> QED BY <3>1, <3>2, <3>3
  <2> QED BY <2>1, <2>2
<1>5. InvoicesFiled'
  <2>1. HasNumber(m) => \A r \in invoices : r.number = maker[m].number => r.number \in contested
    BY DEF FilingInv, HeldAlone, Taken
  <2>2. \A r \in invoices : r.number \in files \cup contested => r.number \in files' \cup contested'
    BY <2>1
  <2> QED BY <2>2 DEF FilingInv, InvoicesFiled
<1> QED BY <1>2, <1>3, <1>4, <1>5 DEF FilingInv

\* The steps before and after a maker has a number.
LEMMA WithoutNumber ==
    ASSUME InvoiceStateOK, InvoiceStateOK', FilingInv, NEW m \in Makers,
           \A o \in Makers : o # m => maker'[o] = maker[o], maker'[m].pc \notin {"write", "create"},
           UNCHANGED <<invoices, deletion, contested>>,
           files' = files \/ (HasNumber(m) /\ files' = files \ {maker[m].number})
    PROVE  FilingInv'
PROOF
<1>1. PICK next \in MakerStates : next = maker'[m]
  BY DEF InvoiceStateOK
<1>2. maker' = [maker EXCEPT ![m] = next]
  BY <1>1 DEF InvoiceStateOK
<1> QED BY <1>1, <1>2, MakerFiles

LEMMA NumberAndFile ==
    ASSUME InvoiceStateOK, InvoiceStateOK', FilingInv, NEW m \in Makers, DrawsNumber(m) \/ WritesFile(m)
    PROVE  FilingInv'
PROOF
<1>1. maker[m] \in MakerStates
  BY DEF InvoiceStateOK
<1>2. CASE DrawsNumber(m)
  <2>1. PICK number : number = NextInvoiceNumber
    OBVIOUS
  <2> DEFINE next == [maker[m] EXCEPT !.pc = "write", !.number = number]
  <2>2. maker' = [maker EXCEPT ![m] = next]
    BY <1>2, <2>1 DEF DrawsNumber
  <2>3. next \in MakerStates /\ next.number = number /\ next.pc = "write"
    BY <1>1, <2>1, NumberDrawn DEF MakerStates
  <2>4. ~Taken(number)
    BY <2>1, NumberIsNew
  <2>5. contested' = contested \cup {n \in {number} : HeldElsewhere(m, n)}
        /\ UNCHANGED <<invoices, files, deletion>>
    BY <1>2, <2>1 DEF DrawsNumber
  <2>6. number \notin contested' => ~HeldElsewhere(m, number)
    BY <2>5
  <2>7. contested \subseteq contested' /\ files \subseteq files'
    BY <2>5
  <2> HIDE DEF next
  <2>8. next.pc \in {"write", "create"} =>
            \/ HasNumber(m) /\ next.number = maker[m].number
            \/ next.number \notin contested' => ~Taken(next.number) /\ ~HeldElsewhere(m, next.number)
    BY <2>3, <2>4, <2>6
  <2>9. next.pc # "create"
    BY <2>3
  <2> QED BY <2>2, <2>3, <2>5, <2>7, <2>8, <2>9, MakerFiles
<1>3. CASE WritesFile(m)
  <2> DEFINE next == [maker[m] EXCEPT !.pc = "create"]
  <2>1. maker' = [maker EXCEPT ![m] = next]
    BY <1>3 DEF WritesFile
  <2>2. next \in MakerStates /\ next.number = maker[m].number /\ next.pc = "create"
    BY <1>1 DEF MakerStates
  <2>3. HasNumber(m) /\ files' = files \cup {maker[m].number} /\ UNCHANGED <<invoices, deletion, contested>>
    BY <1>3 DEF WritesFile, HasNumber
  <2> HIDE DEF next
  <2> QED BY <2>1, <2>2, <2>3, MakerFiles
<1> QED BY <1>2, <1>3

LEMMA RowIsFiled ==
    ASSUME InvoiceStateOK, InvoiceStateOK', FilingInv, NEW m \in Makers, CreatesRow(m)
    PROVE  FilingInv'
PROOF
<1>1. PICK row : row = [number |-> maker[m].number, from |-> maker[m].from, to |-> maker[m].to, auto |-> m = check]
  OBVIOUS
<1>2. invoices' = invoices \cup {row} /\ UNCHANGED <<files, deletion, contested>>
  BY <1>1 DEF CreatesRow
<1>3. row.number = maker[m].number /\ HasNumber(m) /\ maker[m].pc = "create" /\ ~Taken(row.number)
  BY <1>1 DEF CreatesRow, HasNumber
<1>4. /\ \A o \in Makers : o # m => maker'[o] = maker[o]
      /\ maker'[m].pc \in {"period", "done"}
  BY DEF InvoiceStateOK, CreatesRow, AfterCreation, MakerStates
<1>5. DeletionOK' /\ NumbersUnique'
  BY <1>2, <1>3 DEF FilingInv, DeletionOK, NumbersUnique, Taken
<1>6. HeldAlone'
  <2> SUFFICES ASSUME NEW k \in Makers, HasNumber(k)', maker'[k].number \notin contested'
               PROVE  /\ \A r \in invoices' : r.number # maker'[k].number
                      /\ \A o \in Makers : HasNumber(o)' /\ maker'[o].number = maker'[k].number => o = k
                      /\ \A d \in Deletions : deletion'[d].step = 1 => deletion'[d].row.number # maker'[k].number
    BY DEF HeldAlone, Taken
  <2>1. k # m /\ maker'[k] = maker[k] /\ HasNumber(k) /\ maker[k].number \notin contested
    BY <1>2, <1>4 DEF HasNumber
  <2>2. row.number # maker[k].number
    BY <1>3, <2>1 DEF FilingInv, HeldAlone
  <2>3. \A o \in Makers : HasNumber(o)' => HasNumber(o) /\ maker'[o].number = maker[o].number
    BY <1>4 DEF HasNumber
  <2> QED BY <1>2, <2>1, <2>2, <2>3 DEF FilingInv, HeldAlone, Taken
<1>7. ForgottenRows'
  <2> SUFFICES ASSUME NEW d \in Deletions, deletion[d].step = 1, deletion[d].row \notin invoices',
                      NEW r \in invoices', r.number = deletion[d].row.number
               PROVE  r.number \in contested
    BY <1>2 DEF ForgottenRows
  <2>1. CASE r \in invoices
    BY <1>2, <2>1 DEF FilingInv, ForgottenRows
  <2>2. CASE r = row
    BY <1>3, <2>2 DEF FilingInv, HeldAlone
  <2> QED BY <1>2, <2>1, <2>2
<1>8. FilesWritten'
  BY <1>2, <1>4 DEF FilingInv, FilesWritten
<1>9. InvoicesFiled'
  <2>1. row.number \in files \cup contested
    BY <1>3 DEF FilingInv, FilesWritten
  <2> QED BY <1>2, <2>1 DEF FilingInv, InvoicesFiled
<1> QED BY <1>5, <1>6, <1>7, <1>8, <1>9 DEF FilingInv

LEMMA FindsRowStep ==
    ASSUME InvoiceStateOK, FilingInv, NEW d \in Deletions, FindsRow(d)
    PROVE  FilingInv'
PROOF
<1>1. PICK row \in invoices : deletion' = [deletion EXCEPT ![d] = [step |-> 1, row |-> row]]
  BY DEF FindsRow
<1>2. UNCHANGED <<invoices, files, maker, contested>> /\ deletion[d].step = 0
  BY DEF FindsRow
<1>3. row \in InvoiceRow
  BY DEF InvoiceStateOK
<1>4. DeletionOK' /\ deletion'[d].step = 1 /\ deletion'[d].row = row
      /\ \A e \in Deletions : e # d => deletion'[e] = deletion[e]
  BY <1>1, <1>3 DEF FilingInv, DeletionOK
<1>5. NumbersUnique' /\ FilesWritten'
  BY <1>2 DEF FilingInv, NumbersUnique, FilesWritten
<1>6. HeldAlone'
  <2> SUFFICES ASSUME NEW k \in Makers, HasNumber(k), maker[k].number \notin contested
               PROVE  /\ ~Taken(maker[k].number)
                      /\ \A o \in Makers : HasNumber(o) /\ maker[o].number = maker[k].number => o = k
                      /\ \A e \in Deletions : deletion'[e].step = 1 => deletion'[e].row.number # maker[k].number
    BY <1>2 DEF HeldAlone, HasNumber, Taken
  <2>1. row.number # maker[k].number
    BY DEF FilingInv, HeldAlone, Taken
  <2> QED BY <1>4, <2>1 DEF FilingInv, HeldAlone
<1>7. ForgottenRows'
  BY <1>2, <1>4 DEF FilingInv, ForgottenRows
<1>8. InvoicesFiled'
  <2>1. \A e \in Deletions : deletion[e].step = 2 => deletion'[e] = deletion[e]
    BY <1>2, <1>4
  <2> QED BY <1>2, <2>1 DEF FilingInv, InvoicesFiled
<1> QED BY <1>4, <1>5, <1>6, <1>7, <1>8 DEF FilingInv

\* The file goes.
LEMMA FileGoesStep ==
    ASSUME InvoiceStateOK, FilingInv, NEW d \in Deletions, deletion[d].step = 1,
           files' = files \ {deletion[d].row.number}, deletion' = [deletion EXCEPT ![d].step = 2],
           UNCHANGED <<invoices, maker, contested>>
    PROVE  FilingInv'
PROOF
<1>1. PICK row \in InvoiceRow : row = deletion[d].row
  BY DEF FilingInv, DeletionOK
<1>2. DeletionOK' /\ deletion'[d].step = 2 /\ deletion'[d].row = row
      /\ \A e \in Deletions : e # d => deletion'[e] = deletion[e]
  BY <1>1 DEF FilingInv, DeletionOK
<1>3. NumbersUnique' /\ ForgottenRows'
  BY <1>2 DEF FilingInv, NumbersUnique, ForgottenRows
<1>4. HeldAlone'
  BY <1>2 DEF FilingInv, HeldAlone, HasNumber, Taken
<1>5. FilesWritten'
  <2> SUFFICES ASSUME NEW k \in Makers, maker[k].pc = "create"
               PROVE  maker[k].number \in files' \cup contested
    BY DEF FilesWritten
  <2>1. maker[k].number = row.number => maker[k].number \in contested
    BY <1>1 DEF FilingInv, HeldAlone, HasNumber
  <2> QED BY <1>1, <2>1 DEF FilingInv, FilesWritten
<1>6. InvoicesFiled'
  <2> SUFFICES ASSUME NEW r \in invoices
               PROVE  \/ r.number \in files' \cup contested
                      \/ \E e \in Deletions : deletion'[e].step = 2 /\ deletion'[e].row = r
    BY DEF InvoicesFiled
  <2>1. CASE r.number # row.number
    <3>1. \A e \in Deletions : deletion[e].step = 2 => deletion'[e] = deletion[e]
      BY <1>2
    <3> QED BY <1>1, <2>1, <3>1 DEF FilingInv, InvoicesFiled
  <2>2. CASE r.number = row.number /\ row \in invoices
    BY <1>2, <2>2 DEF FilingInv, NumbersUnique
  <2>3. CASE r.number = row.number /\ row \notin invoices
    BY <1>1, <2>3 DEF FilingInv, ForgottenRows
  <2> QED BY <2>1, <2>2, <2>3
<1> QED BY <1>2, <1>3, <1>4, <1>5, <1>6 DEF FilingInv

\* The row goes.
LEMMA RowGoesStep ==
    ASSUME InvoiceStateOK, FilingInv, NEW d \in Deletions, deletion[d].step = 2,
           invoices' = invoices \ {deletion[d].row}, deletion' = [deletion EXCEPT ![d].step = 3],
           UNCHANGED <<files, maker, contested>>
    PROVE  FilingInv'
PROOF
<1>1. PICK row \in InvoiceRow : row = deletion[d].row
  BY DEF FilingInv, DeletionOK
<1>2. DeletionOK' /\ deletion'[d].step = 3
      /\ \A e \in Deletions : e # d => deletion'[e] = deletion[e]
  BY <1>1 DEF FilingInv, DeletionOK
<1>3. NumbersUnique' /\ FilesWritten'
  BY DEF FilingInv, NumbersUnique, FilesWritten
<1>4. HeldAlone'
  BY <1>2 DEF FilingInv, HeldAlone, HasNumber, Taken
<1>5. ForgottenRows'
  <2> SUFFICES ASSUME NEW e \in Deletions, deletion'[e].step = 1, deletion'[e].row \notin invoices',
                      NEW r \in invoices', r.number = deletion'[e].row.number
               PROVE  r.number \in contested
    BY DEF ForgottenRows
  <2>1. e # d /\ deletion'[e] = deletion[e] /\ r \in invoices /\ r # row
    BY <1>1, <1>2
  <2>2. CASE deletion[e].row \in invoices
    BY <1>1, <2>1, <2>2 DEF FilingInv, NumbersUnique
  <2>3. CASE deletion[e].row \notin invoices
    BY <2>1, <2>3 DEF FilingInv, ForgottenRows
  <2> QED BY <2>2, <2>3
<1>6. InvoicesFiled'
  <2> SUFFICES ASSUME NEW r \in invoices'
               PROVE  \/ r.number \in files \cup contested
                      \/ \E e \in Deletions : deletion'[e].step = 2 /\ deletion'[e].row = r
    BY DEF InvoicesFiled
  <2>1. r \in invoices /\ r # deletion[d].row
    OBVIOUS
  <2>2. \A e \in Deletions : deletion[e].step = 2 /\ deletion[e].row = r => deletion'[e] = deletion[e]
    BY <1>2, <2>1
  <2> QED BY <2>1, <2>2 DEF FilingInv, InvoicesFiled
<1> QED BY <1>2, <1>3, <1>4, <1>5, <1>6 DEF FilingInv

LEMMA FilingInvStep ==
    InvoiceStateOK /\ InvoiceStateOK' /\ FilingInv /\ [InvoicesNext]_invoiceVars => FilingInv'
PROOF
<1> SUFFICES ASSUME InvoiceStateOK, InvoiceStateOK', FilingInv, [InvoicesNext]_invoiceVars PROVE FilingInv'
  OBVIOUS
<1>1. CASE DayPasses
  BY <1>1, FilesAlone DEF DayPasses
<1>2. CASE CheckBegins \/ LooksAtPeriod \/ RestartsScheduler
  <2>1. check \in Makers /\ UNCHANGED <<invoices, files, deletion, contested>>
    BY <1>2 DEF Makers, CheckBegins, LooksAtPeriod, RestartsScheduler
  <2>2. /\ \A o \in Makers : o # check => maker'[o] = maker[o]
        /\ maker'[check].pc \notin {"write", "create"}
    BY <1>2, <2>1 DEF CheckBegins, LooksAtPeriod, RestartsScheduler, InvoiceStateOK, MakerStates, Resting
  <2> QED BY <2>1, <2>2, WithoutNumber
<1>3. ASSUME NEW m \in Makers, Generates(m)
      PROVE  FilingInv'
  <2>1. /\ \A o \in Makers : o # m => maker'[o] = maker[o]
        /\ maker'[m].pc \notin {"write", "create"}
        /\ UNCHANGED <<invoices, files, deletion, contested>>
    BY <1>3 DEF Generates, InvoiceStateOK, MakerStates
  <2> QED BY <2>1, WithoutNumber
<1>4. ASSUME NEW m \in Makers, CreationFails(m)
      PROVE  FilingInv'
  <2>1. /\ \A o \in Makers : o # m => maker'[o] = maker[o]
        /\ maker'[m].pc \notin {"write", "create"}
    BY <1>4 DEF CreationFails, InvoiceStateOK, MakerStates
  <2>2. HasNumber(m) /\ files' = files \ {maker[m].number} /\ UNCHANGED <<invoices, deletion, contested>>
    BY <1>4 DEF CreationFails, HasNumber
  <2> QED BY <2>1, <2>2, WithoutNumber
<1>5. ASSUME NEW m \in Makers, DrawsNumber(m) \/ WritesFile(m) \/ CreatesRow(m)
      PROVE  FilingInv'
  BY <1>5, NumberAndFile, RowIsFiled
<1>6. ASSUME NEW d \in Deletions, FindsRow(d)
      PROVE  FilingInv'
  BY <1>6, FindsRowStep
<1>7. ASSUME NEW d \in Deletions, Deletes(d)
      PROVE  FilingInv'
  <2>1. CASE deletion[d].step = 1
    <3>1. deletion' = [deletion EXCEPT ![d].step = 2]
      BY <1>7, <2>1 DEF Deletes
    <3>2. files' = files \ {deletion[d].row.number} /\ UNCHANGED <<invoices, maker, contested>>
      BY <1>7, <2>1 DEF Deletes, FileGoes
    <3> QED BY <2>1, <3>1, <3>2, FileGoesStep
  <2>2. CASE deletion[d].step = 2
    <3>1. deletion' = [deletion EXCEPT ![d].step = 3]
      BY <1>7, <2>2 DEF Deletes
    <3>2. invoices' = invoices \ {deletion[d].row} /\ UNCHANGED <<files, maker, contested>>
      BY <1>7, <2>2 DEF Deletes, FileGoes
    <3> QED BY <2>2, <3>1, <3>2, RowGoesStep
  <2> QED BY <1>7, <2>1, <2>2 DEF Deletes
<1>8. CASE UNCHANGED invoiceVars
  BY <1>8, FilesAlone DEF invoiceVars
<1> QED BY <1>1, <1>2, <1>3, <1>4, <1>5, <1>6, <1>7, <1>8 DEF InvoicesNext

\* An invoice on record has its file, whatever fails, is drawn again or is deleted
\* meanwhile, for any number of makers, attempts and deletions, unless two had
\* its number at one time or the row is about to go: InvoicesFiled is an
\* invariant (generateInvoice, and the routes that make and delete invoices).
THEOREM InvoicesAreFiled == InvoicesSpec => []InvoicesFiled
PROOF
<1>1. BillingInv => InvoiceStateOK
  BY DEF BillingInv
<1>2. FilingInv => InvoicesFiled
  BY DEF FilingInv
<1>3. BillingInv' => InvoiceStateOK'
  BY DEF BillingInv
<1> QED BY <1>1, <1>2, <1>3, BillingInvHolds, FilingInvInit, FilingInvStep, PTL DEF InvoicesSpec

-----------------------------------------------------------------------------
(***************************************************************************)
(* Invoices: types.                                                        *)
(***************************************************************************)

\* What a maker may have: no more attempts than allowed, a number once it is
\* drawn, and in the check a count that leaves room for the invoice it makes.
MakerBounded(m) ==
    /\ maker[m].attempt <= MaxRedraws /\ maker[m].made <= MaxPerRun
    /\ HasNumber(m) => maker[m].number # 0
    /\ m = check /\ Making(m) => maker[m].made < MaxPerRun

InvoiceBounds ==
    /\ usage \subseteq Days /\ checked \in BOOLEAN /\ files \subseteq Nat /\ contested \subseteq Nat
    /\ \A r \in invoices : r.number # 0
    /\ \A m \in Makers : MakerBounded(m)

\* A maker that goes on within its bounds.
LEMMA MakerStaysBounded ==
    ASSUME InvoiceStateOK, InvoiceBounds, NEW m \in Makers, NEW next \in MakerStates,
           maker' = [maker EXCEPT ![m] = next],
           next.attempt <= MaxRedraws, next.made <= MaxPerRun,
           next.pc \in {"write", "create"} => next.number # 0,
           m = check /\ next.pc \in {"number", "write", "create"} => next.made < MaxPerRun
    PROVE  \A o \in Makers : MakerBounded(o)'
<1> SUFFICES ASSUME NEW o \in Makers PROVE MakerBounded(o)'
  OBVIOUS
<1>1. maker'[m] = next /\ (o # m => maker'[o] = maker[o])
  BY DEF InvoiceStateOK
<1>2. MakerBounded(o)
  BY DEF InvoiceBounds
<1>3. CASE o = m
  BY <1>1, <1>3 DEF MakerBounded, HasNumber, Making
<1>4. CASE o # m
  BY <1>1, <1>2, <1>4 DEF MakerBounded, HasNumber, Making
<1> QED BY <1>3, <1>4

\* The number that is drawn is not 0.
LEMMA NumberPositive ==
    ASSUME InvoiceStateOK
    PROVE  NextInvoiceNumber \in Nat /\ NextInvoiceNumber # 0
<1> DEFINE S == {r.number : r \in invoices} \cup {0}
<1>1. PICK n \in Nat : \A r \in invoices : r.number <= n
  BY DEF InvoiceStateOK
<1>2. \A r \in invoices : r.number \in Nat
  BY DEF InvoiceStateOK, InvoiceRow
<1>3. S \subseteq Nat /\ S # {} /\ \A x \in S : x <= n
  BY <1>1, <1>2
<1>4. Max(S) \in Nat
  <2> HIDE DEF S
  <2> QED BY <1>3, MaxExists
<1>5. NextInvoiceNumber = Max(S) + 1
  BY DEF NextInvoiceNumber
<1> HIDE DEF S
<1> QED BY <1>4, <1>5

\* The makers stay in their bounds.
LEMMA MakersBounded ==
    ASSUME InvoiceStateOK, InvoiceBounds, [InvoicesNext]_invoiceVars
    PROVE  \A o \in Makers : MakerBounded(o)'
<1>1. CASE UNCHANGED maker
  BY <1>1 DEF InvoiceBounds, MakerBounded, HasNumber, Making
<1>2. \A m \in Makers : maker[m] \in MakerStates /\ MakerBounded(m)
  BY DEF InvoiceStateOK, InvoiceBounds
<1>3. check \in Makers /\ Resting \in MakerStates /\ Resting.pc = "idle" /\ Resting.attempt = 0 /\ Resting.made = 0
  BY DEF Makers, Resting, MakerStates
<1>4. ASSUME maker' = [maker EXCEPT ![check] = Resting]
      PROVE  \A o \in Makers : MakerBounded(o)'
  <2>1. /\ 0 <= MaxRedraws /\ 0 <= MaxPerRun
        /\ Resting.pc \notin {"number", "write", "create"}
    BY <1>3, InvoicesAssumption
  <2> QED BY <1>3, <1>4, <2>1, MakerStaysBounded
<1>5. CASE CheckBegins
  <2> DEFINE next == [maker[check] EXCEPT !.pc = "period", !.made = 0]
  <2>1. maker' = [maker EXCEPT ![check] = next]
    BY <1>5 DEF CheckBegins
  <2>2. next \in MakerStates /\ next.pc = "period" /\ next.made = 0 /\ next.attempt <= MaxRedraws
    BY <1>2, <1>3 DEF MakerStates, MakerBounded
  <2> HIDE DEF next
  <2>3. next.made <= MaxPerRun /\ next.pc \notin {"number", "write", "create"}
    BY <2>2, InvoicesAssumption
  <2> QED BY <1>3, <2>1, <2>2, <2>3, MakerStaysBounded
<1>6. CASE LooksAtPeriod
  <2>1. CASE HasEnded /\ Used(PeriodStart, NextPeriodEnd) /\
             maker' = [maker EXCEPT ![check] = [pc |-> "number", from |-> PeriodStart, to |-> NextPeriodEnd,
                                               number |-> 0, attempt |-> 0, made |-> @.made]]
    <3> DEFINE next == [pc |-> "number", from |-> PeriodStart, to |-> NextPeriodEnd,
                        number |-> 0, attempt |-> 0, made |-> maker[check].made]
    <3>1. maker' = [maker EXCEPT ![check] = next]
      BY <2>1
    <3>2. next.pc = "number" /\ next.attempt = 0 /\ next.made < MaxPerRun /\ next.made <= MaxPerRun
      BY <1>2, <1>3, <2>1 DEF HasEnded, MakerBounded
    <3>3. next.made = maker[check].made /\ next.number = 0 /\ DOMAIN next = DOMAIN maker[check]
      BY <1>2, <1>3 DEF MakerStates
    <3> HIDE DEF next
    <3>4. maker'[check] = next /\ \A o \in Makers : o # check => maker'[o] = maker[o]
      BY <1>3, <3>1 DEF InvoiceStateOK
    <3>5. ASSUME NEW o \in Makers PROVE MakerBounded(o)'
      <4>1. CASE o = check
        BY <3>2, <3>4, <4>1, InvoicesAssumption DEF MakerBounded, HasNumber
      <4>2. CASE o # check
        BY <1>2, <3>4, <4>2 DEF MakerBounded, HasNumber, Making
      <4> QED BY <4>1, <4>2
    <3> QED BY <3>5
  <2> QED BY <1>1, <1>4, <1>6, <2>1 DEF LooksAtPeriod
<1>7. ASSUME NEW m \in Makers, Generates(m)
      PROVE  \A o \in Makers : MakerBounded(o)'
  <2>1. PICK from \in Days, to \in Days : maker' = [maker EXCEPT ![m].pc = "number", ![m].from = from, ![m].to = to]
    BY <1>7, Zenon DEF Generates
  <2> DEFINE next == [maker[m] EXCEPT !.pc = "number", !.from = from, !.to = to]
  <2>2. maker' = [maker EXCEPT ![m] = next]
    BY <2>1
  <2>3. from \in Nat /\ to \in Nat
    BY InvoicesAssumption DEF Days
  <2>4. next \in MakerStates /\ next.pc = "number" /\ next.made = maker[m].made /\ next.attempt = maker[m].attempt
    BY <1>2, <2>3 DEF MakerStates
  <2>5. m # check
    BY <1>7, InvoicesAssumption DEF Generates
  <2> HIDE DEF next
  <2> QED BY <1>2, <2>2, <2>4, <2>5, MakerStaysBounded DEF MakerBounded
<1>8. ASSUME NEW m \in Makers, DrawsNumber(m)
      PROVE  \A o \in Makers : MakerBounded(o)'
  <2> DEFINE next == [maker[m] EXCEPT !.pc = "write", !.number = NextInvoiceNumber]
  <2>1. maker' = [maker EXCEPT ![m] = next] /\ maker[m].pc = "number"
    BY <1>8 DEF DrawsNumber
  <2>2. /\ next \in MakerStates /\ next.pc = "write" /\ next.number # 0
        /\ next.made = maker[m].made /\ next.attempt = maker[m].attempt
    BY <1>2, NumberPositive DEF MakerStates
  <2> HIDE DEF next
  <2> QED BY <1>2, <2>1, <2>2, MakerStaysBounded DEF MakerBounded, Making
<1>9. ASSUME NEW m \in Makers, WritesFile(m)
      PROVE  \A o \in Makers : MakerBounded(o)'
  <2> DEFINE next == [maker[m] EXCEPT !.pc = "create"]
  <2>1. maker' = [maker EXCEPT ![m] = next] /\ maker[m].pc = "write"
    BY <1>9 DEF WritesFile
  <2>2. /\ next \in MakerStates /\ next.pc = "create" /\ next.number = maker[m].number
        /\ next.made = maker[m].made /\ next.attempt = maker[m].attempt
    BY <1>2 DEF MakerStates
  <2> HIDE DEF next
  <2> QED BY <1>2, <2>1, <2>2, MakerStaysBounded DEF MakerBounded, Making, HasNumber
<1>10. ASSUME NEW m \in Makers, CreatesRow(m)
       PROVE  \A o \in Makers : MakerBounded(o)'
  <2>1. maker' = [maker EXCEPT ![m] = AfterCreation(m)] /\ maker[m].pc = "create"
    BY <1>10 DEF CreatesRow
  <2>2. CASE m = check
    <3> DEFINE next == [maker[m] EXCEPT !.pc = "period", !.made = maker[m].made + 1]
    <3>1. next = AfterCreation(m)
      BY <2>2 DEF AfterCreation
    <3>2. next \in MakerStates
      BY <1>2, Counted, Zenon
    <3>3. next.pc = "period" /\ next.made = maker[m].made + 1 /\ next.attempt = maker[m].attempt
      BY <1>2 DEF MakerStates
    <3>4. maker[m].made < MaxPerRun /\ maker[m].made \in Nat /\ maker[m].attempt <= MaxRedraws
      BY <1>2, <2>1, <2>2 DEF MakerBounded, Making, MakerStates
    <3> HIDE DEF next
    <3>5. next.made <= MaxPerRun
      BY <3>3, <3>4, InvoicesAssumption
    <3> QED BY <2>1, <3>1, <3>2, <3>3, <3>4, <3>5, MakerStaysBounded
  <2>3. CASE m # check
    <3> DEFINE next == [maker[m] EXCEPT !.pc = "done"]
    <3>1. next = AfterCreation(m)
      BY <2>3 DEF AfterCreation
    <3>2. next \in MakerStates /\ next.pc = "done" /\ next.made = maker[m].made /\ next.attempt = maker[m].attempt
      BY <1>2 DEF MakerStates
    <3> HIDE DEF next
    <3> QED BY <1>2, <2>1, <2>3, <3>1, <3>2, MakerStaysBounded DEF MakerBounded
  <2> QED BY <2>2, <2>3
<1>11. ASSUME NEW m \in Makers, CreationFails(m)
       PROVE  \A o \in Makers : MakerBounded(o)'
  <2>1. maker[m].pc = "create" /\ MakerBounded(m) /\ maker[m] \in MakerStates
    BY <1>2, <1>11 DEF CreationFails
  <2>2. CASE AttemptsLeft(maker[m].attempt) /\ maker' = [maker EXCEPT ![m].pc = "number", ![m].attempt = maker[m].attempt + 1]
    <3> DEFINE next == [maker[m] EXCEPT !.pc = "number", !.attempt = maker[m].attempt + 1]
    <3>1. maker' = [maker EXCEPT ![m] = next]
      BY <2>2
    <3>2. next \in MakerStates
      BY <2>1, Counted, Zenon
    <3>3. next.pc = "number" /\ next.attempt = maker[m].attempt + 1 /\ next.made = maker[m].made
      BY <2>1 DEF MakerStates
    <3>4. maker[m].attempt + 1 <= MaxRedraws
      BY <2>1, <2>2, InvoicesAssumption DEF AttemptsLeft, MakerStates
    <3> HIDE DEF next
    <3> QED BY <2>1, <3>1, <3>2, <3>3, <3>4, MakerStaysBounded DEF MakerBounded, Making
  <2>3. CASE maker' = [maker EXCEPT ![m].pc = IF m = check THEN "idle" ELSE "done"]
    <3>1. PICK p \in {"idle", "done"} : maker' = [maker EXCEPT ![m] = [maker[m] EXCEPT !.pc = p]]
      BY <2>3
    <3> DEFINE next == [maker[m] EXCEPT !.pc = p]
    <3>2. next \in MakerStates /\ next.pc = p /\ next.made = maker[m].made /\ next.attempt = maker[m].attempt
      BY <2>1 DEF MakerStates
    <3> HIDE DEF next
    <3>3. maker' = [maker EXCEPT ![m] = next]
      BY <3>1 DEF next
    <3> QED BY <2>1, <3>2, <3>3, MakerStaysBounded DEF MakerBounded
  <2> QED BY <1>11, <2>2, <2>3 DEF CreationFails
<1>12. CASE DayPasses \/ (\E d \in Deletions : FindsRow(d) \/ Deletes(d)) \/ UNCHANGED invoiceVars
  <2>1. UNCHANGED maker
    BY <1>12 DEF DayPasses, FindsRow, Deletes, invoiceVars
  <2> QED BY <1>1, <2>1
<1>13. CASE RestartsScheduler
  BY <1>4, <1>13 DEF RestartsScheduler
<1> QED BY <1>5, <1>6, <1>7, <1>8, <1>9, <1>10, <1>11, <1>12, <1>13 DEF InvoicesNext

\* The bounds are kept.
LEMMA BoundsStep ==
    ASSUME InvoiceStateOK, InvoiceBounds, [InvoicesNext]_invoiceVars
    PROVE  InvoiceBounds'
<1>1. usage' = usage
  BY Zenon DEF InvoicesNext, invoiceVars, DayPasses, CheckBegins, LooksAtPeriod, RestartsScheduler, Generates,
         DrawsNumber, WritesFile, CreatesRow, CreationFails, FindsRow, Deletes
<1>2. checked' \in {checked, TRUE, FALSE}
  BY Zenon DEF InvoicesNext, invoiceVars, DayPasses, CheckBegins, LooksAtPeriod, RestartsScheduler, Generates,
         DrawsNumber, WritesFile, CreatesRow, CreationFails, FindsRow, Deletes
<1>3. \/ files' \subseteq files
      \/ \E m \in Makers : files' = files \cup {maker[m].number}
  BY Zenon DEF InvoicesNext, invoiceVars, DayPasses, CheckBegins, LooksAtPeriod, RestartsScheduler, Generates,
         DrawsNumber, WritesFile, CreatesRow, CreationFails, FindsRow, Deletes
<1>4. contested' \subseteq contested \cup {NextInvoiceNumber}
  BY Zenon DEF InvoicesNext, invoiceVars, DayPasses, CheckBegins, LooksAtPeriod, RestartsScheduler, Generates,
         DrawsNumber, WritesFile, CreatesRow, CreationFails, FindsRow, Deletes
<1>5. \/ invoices' \subseteq invoices
      \/ \E m \in Makers : \E row : HasNumber(m) /\ row.number = maker[m].number /\ invoices' = invoices \cup {row}
  <2>1. ASSUME NEW m \in Makers, CreatesRow(m)
        PROVE  \E row : HasNumber(m) /\ row.number = maker[m].number /\ invoices' = invoices \cup {row}
    <3> DEFINE row == [number |-> maker[m].number, from |-> maker[m].from, to |-> maker[m].to, auto |-> m = check]
    <3>1. HasNumber(m) /\ row.number = maker[m].number /\ invoices' = invoices \cup {row}
      BY <2>1 DEF CreatesRow, HasNumber
    <3> QED BY <3>1
  <2>2. ASSUME NEW m \in Makers, CreatesRow(m)
        PROVE  \E o \in Makers : \E row : HasNumber(o) /\ row.number = maker[o].number /\ invoices' = invoices \cup {row}
    BY <2>1, <2>2
  <2> QED BY <2>2, Zenon DEF InvoicesNext, invoiceVars, DayPasses, CheckBegins, LooksAtPeriod, RestartsScheduler, Generates,
         DrawsNumber, WritesFile, CreationFails, FindsRow, Deletes
<1>6. checked' \in BOOLEAN
  BY <1>2, Zenon DEF InvoiceBounds
<1>7. files' \subseteq Nat /\ contested' \subseteq Nat
  <2>1. \A m \in Makers : maker[m].number \in Nat
    BY DEF InvoiceStateOK, MakerStates
  <2> QED BY <1>3, <1>4, <2>1, NumberPositive DEF InvoiceBounds
<1>8. \A r \in invoices' : r.number # 0
  <2>1. \A m \in Makers : HasNumber(m) => maker[m].number # 0
    BY DEF InvoiceBounds, MakerBounded
  <2> QED BY <1>5, <2>1 DEF InvoiceBounds
<1> QED BY <1>1, <1>6, <1>7, <1>8, MakersBounded, Zenon DEF InvoiceBounds

\* The variables of the invoices keep their types: no maker tries more often than
\* allowed, and the check makes no more invoices in one go than allowed.
THEOREM InvoiceTypes == InvoicesSpec => []InvoicesTypeOK
<1>1. InvoicesInit => InvoiceBounds
  <2> SUFFICES ASSUME InvoicesInit PROVE InvoiceBounds
    OBVIOUS
  <2>1. \A m \in Makers : MakerBounded(m)
    BY InvoicesAssumption DEF InvoicesInit, Resting, MakerBounded, HasNumber, Making
  <2> QED BY <2>1 DEF InvoicesInit, InvoiceBounds
<1>2. BillingInv => InvoiceStateOK
  BY DEF BillingInv
<1>3. BillingInv /\ FilingInv /\ InvoiceBounds => InvoicesTypeOK
  <2> SUFFICES ASSUME BillingInv, FilingInv, InvoiceBounds PROVE InvoicesTypeOK
    OBVIOUS
  <2>1. today \in Days /\ (cursor = NoEnd \/ cursor.day \in Nat)
    BY InvoicesAssumption DEF BillingInv, InvoiceStateOK, Days
  <2>2. \A r \in invoices : r.number \in Nat \ {0} /\ r.from \in Nat /\ r.to \in Nat /\ r.auto \in BOOLEAN
    <3>1. \A r \in invoices : r.number \in Nat /\ r.from \in Nat /\ r.to \in Nat /\ r.number # 0
      BY DEF BillingInv, InvoiceStateOK, InvoiceRow, InvoiceBounds
    <3>2. \A r \in invoices : r.auto \in BOOLEAN
      BY Zenon DEF BillingInv, InvoiceStateOK, InvoiceRow
    <3> QED BY <3>1, <3>2, Zenon
  <2>3. ASSUME NEW m \in Makers
        PROVE  /\ maker[m].pc \in {"idle", "period", "number", "write", "create", "done"}
               /\ maker[m].attempt \in 0 .. MaxRedraws /\ maker[m].made \in 0 .. MaxPerRun
    <3>1. maker[m] \in MakerStates /\ MakerBounded(m)
      BY DEF BillingInv, InvoiceStateOK, InvoiceBounds
    <3> QED BY <3>1, InvoicesAssumption DEF MakerStates, MakerBounded
  <2>4. \A d \in Deletions : deletion[d].step \in 0 .. 3
    BY DEF FilingInv, DeletionOK
  <2>5. usage \subseteq Days /\ checked \in BOOLEAN /\ files \subseteq Nat /\ contested \subseteq Nat
    BY Zenon DEF InvoiceBounds
  <2> QED BY <2>1, <2>2, <2>3, <2>4, <2>5, Zenon DEF InvoicesTypeOK
<1>4. BillingInv' => InvoiceStateOK'
  BY DEF BillingInv
<1>5. InvoiceStateOK /\ InvoiceBounds /\ [InvoicesNext]_invoiceVars => InvoiceBounds'
  BY BoundsStep
<1> QED BY <1>1, <1>2, <1>3, <1>4, <1>5, BillingInvHolds, FilingInvInit, FilingInvStep, PTL DEF InvoicesSpec

-----------------------------------------------------------------------------
(***************************************************************************)
(* Connections to Slack                                                    *)
(***************************************************************************)

\* Of an integration that is not noted, one refresh at most waits for Slack,
WaitsAt(r, i) == refresh[r].pc \in Waiting /\ refresh[r].at = i
OneWaits ==
    \A i \in Integrations \ overlapped : \A r, q \in Refreshes : WaitsAt(r, i) /\ WaitsAt(q, i) => r = q

\* so what it has seen in the map is still there when Slack has answered:
\* a client to close, which is the one in the map, or none, to connect the next.
SeenStands ==
    \A r \in Refreshes : refresh[r].pc \in Waiting =>
        /\ refresh[r].at \in Integrations /\ refresh[r].client # 0
        /\ refresh[r].at \notin overlapped =>
              IF refresh[r].pc = "connect" THEN ~Connected(refresh[r].at)
              ELSE Connected(refresh[r].at) /\ refresh[r].client = connections[refresh[r].at].client

SlackInv == SlackTypeOK /\ OneWaits /\ SeenStands /\ ConnectionsOnRecord

-----------------------------------------------------------------------------
LEMMA NoneConnected ==
    /\ Unconnected.client = 0
    /\ \A c \in Connection : c # Unconnected /\ c.client \in Nat \ {0}
    /\ \A c \in Connection \cup {Unconnected} : c.client \in Nat
PROOF
  BY DEF Unconnected, Connection

LEMMA SlackInvInit == SlackInit => SlackInv
PROOF
<1> SUFFICES ASSUME SlackInit PROVE SlackInv
  OBVIOUS
<1>1. \A i \in Integrations : ~Connected(i) /\ connections[i].client = 0
  BY NoneConnected DEF SlackInit, Connected
<1>2. NotRefreshing \in Refresh /\ NotRefreshing.pc = "idle" /\ NotRefreshing.client = 0
  BY DEF NotRefreshing, Refresh
<1>3. \A r \in Refreshes : refresh[r] = NotRefreshing
  BY DEF SlackInit
<1>4. SlackTypeOK
  BY <1>1, <1>2, <1>3 DEF SlackInit, SlackTypeOK
<1>5. OneWaits /\ SeenStands
  BY <1>2, <1>3 DEF OneWaits, WaitsAt, SeenStands, Waiting
<1>6. ConnectionsOnRecord
  BY <1>1 DEF ConnectionsOnRecord, Expected, SlackInit
<1> QED BY <1>4, <1>5, <1>6 DEF SlackInv

\* A step of refresh r leaves it at p, because of a, with client c, and the
\* other refreshes where they are.
Step(r, p, a, c) ==
    /\ refresh' \in [Refreshes -> Refresh]
    /\ \A q \in Refreshes : q # r => refresh'[q] = refresh[q]
    /\ refresh'[r].pc = p /\ refresh'[r].at = a /\ refresh'[r].client = c

LEMMA StepOf ==
    ASSUME SlackTypeOK, NEW r \in Refreshes, NEW new \in Refresh, refresh' = [refresh EXCEPT ![r] = new]
    PROVE  Step(r, new.pc, new.at, new.client)
PROOF
  BY DEF SlackTypeOK, Step

\* The steps that leave a refresh's integration and client as they are.
LEMMA StepsOn ==
    ASSUME SlackTypeOK, NEW r \in Refreshes, NEW p \in {"stale", "rows"}, NEW l \in SUBSET Integrations,
           \/ refresh' = [refresh EXCEPT ![r].pc = p]
           \/ refresh' = [refresh EXCEPT ![r].pc = p, ![r].left = l]
           \/ refresh' = [refresh EXCEPT ![r].pc = p, ![r].rows = integrationRows, ![r].left = l]
    PROVE  Step(r, p, refresh[r].at, refresh[r].client)
PROOF
<1>1. refresh[r] \in Refresh /\ refresh \in [Refreshes -> Refresh]
      /\ integrationRows \in [Integrations -> Configs \cup {Inactive}]
  BY DEF SlackTypeOK
<1>2. CASE refresh' = [refresh EXCEPT ![r].pc = p]
  <2> DEFINE new == [refresh[r] EXCEPT !.pc = p]
  <2>1. new \in Refresh /\ new.pc = p /\ new.at = refresh[r].at /\ new.client = refresh[r].client
    BY <1>1 DEF Refresh
  <2>2. refresh' = [refresh EXCEPT ![r] = new]
    BY <1>2
  <2> HIDE DEF new
  <2> QED BY <2>1, <2>2, StepOf
<1>3. CASE refresh' = [refresh EXCEPT ![r].pc = p, ![r].left = l]
  <2> DEFINE new == [refresh[r] EXCEPT !.pc = p, !.left = l]
  <2>1. new \in Refresh /\ new.pc = p /\ new.at = refresh[r].at /\ new.client = refresh[r].client
    BY <1>1 DEF Refresh
  <2>2. refresh' = [refresh EXCEPT ![r] = new]
    BY <1>3
  <2> HIDE DEF new
  <2> QED BY <2>1, <2>2, StepOf
<1>4. CASE refresh' = [refresh EXCEPT ![r].pc = p, ![r].rows = integrationRows, ![r].left = l]
  <2> DEFINE new == [refresh[r] EXCEPT !.pc = p, !.rows = integrationRows, !.left = l]
  <2>1. new \in Refresh /\ new.pc = p /\ new.at = refresh[r].at /\ new.client = refresh[r].client
    BY <1>1 DEF Refresh
  <2>2. refresh' = [refresh EXCEPT ![r] = new]
    BY <1>4
  <2> HIDE DEF new
  <2> QED BY <2>1, <2>2, StepOf
<1> QED BY <1>2, <1>3, <1>4

\* Those that turn to an integration, and the one that goes on to connect.
LEMMA StepsAt ==
    ASSUME SlackTypeOK, NEW r \in Refreshes, NEW p \in {"rows"} \cup Waiting, NEW i \in Integrations, NEW c \in Nat,
           \/ refresh' = [refresh EXCEPT ![r].pc = p, ![r].at = i, ![r].client = c, ![r].left = @ \ {i}]
           \/ refresh' = [refresh EXCEPT ![r].pc = p, ![r].at = i, ![r].left = @ \ {i}, ![r].client = c]
           \/ refresh[r].at = i /\ refresh' = [refresh EXCEPT ![r].pc = p, ![r].client = c]
    PROVE  Step(r, p, i, c)
PROOF
<1>1. refresh[r] \in Refresh /\ refresh \in [Refreshes -> Refresh] /\ refresh[r].left \ {i} \in SUBSET Integrations
  BY DEF SlackTypeOK, Refresh
<1> DEFINE new == [refresh[r] EXCEPT !.pc = p, !.at = i, !.client = c, !.left = refresh[r].left \ {i}]
           on == [refresh[r] EXCEPT !.pc = p, !.client = c]
<1>2. new \in Refresh /\ new.pc = p /\ new.at = i /\ new.client = c
  BY <1>1 DEF Refresh
<1>3. on \in Refresh /\ on.pc = p /\ on.at = refresh[r].at /\ on.client = c
  BY <1>1 DEF Refresh
<1>4. \/ refresh' = [refresh EXCEPT ![r] = new]
      \/ refresh[r].at = i /\ refresh' = [refresh EXCEPT ![r] = on]
  BY <1>1 DEF Refresh
<1> HIDE DEF new, on
<1> QED BY <1>2, <1>3, <1>4, StepOf

\* What a refresh waits for is an integration, and the client it has is one.
LEMMA WaitsForOne ==
    ASSUME SlackInv, NEW r \in Refreshes, refresh[r].pc \in Waiting
    PROVE  refresh[r].at \in Integrations /\ refresh[r].client \in 1 .. clients
PROOF
<1>1. refresh[r].client \in 0 .. clients /\ clients \in Nat
  BY DEF SlackInv, SlackTypeOK
<1> QED BY <1>1 DEF SlackInv, SeenStands

-----------------------------------------------------------------------------
(* What the steps do to refreshes *)

LEMMA ReadsStep ==
    ASSUME SlackTypeOK, NEW r \in Refreshes, ReadsIntegrations(r) \/ TurnsToRows(r) \/ ConnectionFails(r)
    PROVE  \E p \in {"stale", "rows"} : Step(r, p, refresh[r].at, refresh[r].client)
PROOF
<1>1. CASE ReadsIntegrations(r)
  <2>1. refresh' = [refresh EXCEPT ![r].pc = "stale", ![r].rows = integrationRows, ![r].left = Integrations]
    BY <1>1 DEF ReadsIntegrations
  <2>2. Integrations \in SUBSET Integrations
    OBVIOUS
  <2> QED BY <2>1, <2>2, StepsOn
<1>2. CASE TurnsToRows(r)
  <2>1. PICK l \in SUBSET Integrations : refresh' = [refresh EXCEPT ![r].pc = "rows", ![r].left = l]
    BY <1>2 DEF TurnsToRows
  <2> QED BY <2>1, StepsOn
<1>3. CASE ConnectionFails(r)
  BY <1>3, StepsOn DEF ConnectionFails
<1> QED BY <1>1, <1>2, <1>3

LEMMA EndStep ==
    ASSUME SlackTypeOK, NEW r \in Refreshes, EndsRefresh(r)
    PROVE  Step(r, "idle", Inactive, 0)
PROOF
<1>1. NotRefreshing \in Refresh /\ NotRefreshing.pc = "idle" /\ NotRefreshing.at = Inactive /\ NotRefreshing.client = 0
  BY DEF NotRefreshing, Refresh
<1> QED BY <1>1, StepOf DEF EndsRefresh

\* What a refresh begins to wait for.
BeginsWaiting(r, p, i, c) ==
    /\ Step(r, p, i, c) /\ Notes(r, i)
    /\ refresh[r].pc \notin Waiting /\ c \in 1 .. clients'
    /\ IF p = "connect" THEN ~Connected(i) ELSE Connected(i) /\ c = connections[i].client

LEMMA ClientOfConnected ==
    ASSUME SlackTypeOK, NEW i \in Integrations, Connected(i)
    PROVE  connections[i].client \in 1 .. clients
PROOF
<1>1. connections[i] \in Connection /\ connections[i].client \in 0 .. clients /\ clients \in Nat
  BY DEF SlackTypeOK, Connected
<1> QED BY <1>1, NoneConnected

LEMMA DropsBegins ==
    ASSUME SlackTypeOK, NEW r \in Refreshes, Drops(r)
    PROVE  \E i \in Integrations, c \in Nat : BeginsWaiting(r, "drop", i, c)
PROOF
<1>1. refresh[r] \in Refresh /\ clients \in Nat
  BY DEF SlackTypeOK
<1>2. PICK i \in refresh[r].left :
          /\ Connected(i)
          /\ refresh' = [refresh EXCEPT ![r].pc = "drop", ![r].at = i, ![r].client = connections[i].client,
                                       ![r].left = @ \ {i}]
          /\ Notes(r, i)
  BY DEF Drops
<1>3. i \in Integrations
  BY <1>1 DEF Refresh
<1>4. connections[i].client \in 1 .. clients
  BY <1>2, <1>3, ClientOfConnected
<1>5. Step(r, "drop", i, connections[i].client)
  <2>1. PICK c \in Nat : c = connections[i].client
    BY <1>1, <1>4
  <2>2. refresh' = [refresh EXCEPT ![r].pc = "drop", ![r].at = i, ![r].client = c, ![r].left = @ \ {i}]
    BY <1>2, <2>1
  <2>3. "drop" \in {"rows"} \cup Waiting
    BY DEF Waiting
  <2>4. Step(r, "drop", i, c)
    BY <1>3, <2>2, <2>3, StepsAt
  <2> QED BY <2>1, <2>4
<1>6. refresh[r].pc \notin Waiting /\ clients' = clients
  BY DEF Drops, Waiting
<1> QED BY <1>1, <1>2, <1>3, <1>4, <1>5, <1>6 DEF BeginsWaiting

LEMMA TurnsBegins ==
    ASSUME SlackTypeOK, NEW r \in Refreshes, Turns(r)
    PROVE  \E i \in Integrations, c \in Nat :
              \/ \E p \in Waiting : BeginsWaiting(r, p, i, c)
              \/ Step(r, "rows", i, c) /\ c \in 0 .. clients /\ UNCHANGED <<clients, overlapped>>
PROOF
<1>1. refresh[r] \in Refresh /\ clients \in Nat /\ clients + 1 \in Nat
  BY DEF SlackTypeOK
<1>2. PICK i \in refresh[r].left :
         LET due == Due(r, i)
         IN  /\ refresh' = [refresh EXCEPT ![r].pc = due, ![r].at = i, ![r].left = @ \ {i},
                    ![r].client = IF due = "connect" THEN clients + 1 ELSE connections[i].client]
             /\ clients' = IF due = "connect" THEN clients + 1 ELSE clients
             /\ IF due = "rows" THEN UNCHANGED overlapped ELSE Notes(r, i)
  BY DEF Turns
<1>3. i \in Integrations /\ connections[i].client \in 0 .. clients
  BY <1>1 DEF Refresh, SlackTypeOK
<1>4. /\ Due(r, i) \in {"rows", "disable", "change", "connect"}
      /\ Due(r, i) = "connect" => ~Connected(i)
      /\ Due(r, i) \in {"disable", "change"} => Connected(i)
  BY DEF Due
<1>5. refresh[r].pc \notin Waiting
  BY DEF Turns, Waiting
<1>6. CASE Due(r, i) = "connect"
  <2>1. Step(r, "connect", i, clients + 1)
    BY <1>1, <1>2, <1>3, <1>6, StepsAt DEF Waiting
  <2> QED BY <1>1, <1>2, <1>3, <1>4, <1>5, <1>6, <2>1 DEF BeginsWaiting, Waiting
<1>7. CASE Due(r, i) \in {"disable", "change"}
  <2>1. connections[i].client \in 1 .. clients
    BY <1>3, <1>4, <1>7, ClientOfConnected
  <2>2. Step(r, Due(r, i), i, connections[i].client)
    <3>1. PICK c \in Nat, p \in {"rows"} \cup Waiting : c = connections[i].client /\ p = Due(r, i)
      BY <1>1, <1>3, <1>7 DEF Waiting
    <3>2. refresh' = [refresh EXCEPT ![r].pc = p, ![r].at = i, ![r].left = @ \ {i}, ![r].client = c]
      BY <1>2, <1>7, <3>1
    <3>3. Step(r, p, i, c)
      BY <1>3, <3>2, StepsAt
    <3> QED BY <1>7, <3>1, <3>3
  <2> QED BY <1>1, <1>2, <1>3, <1>4, <1>5, <1>7, <2>1, <2>2 DEF BeginsWaiting, Waiting
<1>8. CASE Due(r, i) = "rows"
  <2>1. Step(r, "rows", i, connections[i].client)
    <3>1. PICK c \in Nat, p \in {"rows"} \cup Waiting : c = connections[i].client /\ p = Due(r, i)
      BY <1>1, <1>3, <1>8 DEF Waiting
    <3>2. refresh' = [refresh EXCEPT ![r].pc = p, ![r].at = i, ![r].left = @ \ {i}, ![r].client = c]
      BY <1>2, <1>8, <3>1
    <3>3. Step(r, p, i, c)
      BY <1>3, <3>2, StepsAt
    <3> QED BY <1>8, <3>1, <3>3
  <2> QED BY <1>1, <1>2, <1>3, <1>8, <2>1
<1> QED BY <1>4, <1>6, <1>7, <1>8

-----------------------------------------------------------------------------
(* Preservation *)

\* A refresh that does not wait disturbs nothing.
LEMMA QuietStep ==
    ASSUME SlackInv, NEW r \in Refreshes, NEW p \in {"idle", "stale", "rows"}, NEW a, NEW c \in 0 .. clients,
           Step(r, p, a, c), UNCHANGED <<connections, open, clients, overlapped>>,
           integrationRows' \in [Integrations -> Configs \cup {Inactive}],
           slackSpent' \in [refreshes : Nat, edits : Nat]
    PROVE  SlackInv'
PROOF
<1> USE DEF SlackInv
<1>1. p \notin Waiting
  BY DEF Waiting
<1>2. SlackTypeOK'
  BY DEF SlackTypeOK, Step
<1>3. OneWaits'
  BY <1>1 DEF OneWaits, WaitsAt, Step
<1>4. SeenStands'
  BY <1>1 DEF SeenStands, Connected, Step
<1>5. ConnectionsOnRecord'
  BY DEF ConnectionsOnRecord, Expected, Connected
<1> QED BY <1>2, <1>3, <1>4, <1>5

\* One that begins to wait notes whom it meets.
LEMMA WaitingBegins ==
    ASSUME SlackInv, NEW r \in Refreshes, NEW p \in Waiting, NEW i \in Integrations, NEW c \in Nat,
           BeginsWaiting(r, p, i, c), UNCHANGED <<integrationRows, connections, open, slackSpent>>,
           clients' \in {clients, clients + 1}
    PROVE  SlackInv'
PROOF
<1> USE DEF SlackInv, BeginsWaiting
<1>1. overlapped \subseteq overlapped' /\ overlapped' \subseteq Integrations
  BY DEF Notes, SlackTypeOK
<1>2. i \notin overlapped' => \A q \in Refreshes \ {r} : ~WaitsAt(q, i)
  BY DEF Notes, WaitsAt
<1>3. SlackTypeOK'
  <2>1. clients \in Nat /\ clients' \in Nat /\ \A n : n \in 0 .. clients => n \in 0 .. clients'
    BY DEF SlackTypeOK
  <2>2. \A n : n \in 1 .. clients => n \in 1 .. clients'
    BY DEF SlackTypeOK
  <2>3. open' \subseteq Integrations \X (1 .. clients')
    BY <2>2 DEF SlackTypeOK
  <2>4. \A q \in Refreshes : refresh'[q].client \in 0 .. clients'
    BY <2>1 DEF SlackTypeOK, Step
  <2> QED BY <1>1, <2>1, <2>3, <2>4 DEF SlackTypeOK, Step
<1>4. OneWaits'
  BY <1>1, <1>2 DEF OneWaits, WaitsAt, Step
<1>5. SeenStands'
  BY <1>1 DEF SeenStands, Connected, Step
<1>6. ConnectionsOnRecord'
  BY <1>1 DEF ConnectionsOnRecord, Expected, Connected
<1> QED BY <1>3, <1>4, <1>5, <1>6

\* Of an integration that is not noted, nobody else waits while a refresh does.
LEMMA AloneAt ==
    ASSUME SlackInv, NEW r \in Refreshes, refresh[r].pc \in Waiting, refresh[r].at \notin overlapped
    PROVE  \A q \in Refreshes \ {r} : ~WaitsAt(q, refresh[r].at)
PROOF
  BY WaitsForOne DEF SlackInv, OneWaits, WaitsAt

LEMMA DisconnectsStep ==
    ASSUME SlackInv, NEW r \in Refreshes, Disconnects(r)
    PROVE  SlackInv'
PROOF
<1> DEFINE i == refresh[r].at
           c == refresh[r].client
<1>1. refresh[r].pc \in {"drop", "disable", "change"} /\ refresh[r].pc \in Waiting
  BY DEF Disconnects, Waiting
<1>2. i \in Integrations /\ c \in 1 .. clients /\ clients \in Nat /\ clients + 1 \in Nat
  BY <1>1, WaitsForOne DEF SlackInv, SlackTypeOK
<1>3. /\ open' = open \ {<<i, c>>} /\ connections' = [connections EXCEPT ![i] = Unconnected]
      /\ Notes(r, i) /\ UNCHANGED <<integrationRows, slackSpent>>
  BY DEF Disconnects, Closed
<1>4. PICK p \in {"stale", "rows", "connect"}, d \in 1 .. clients' :
          /\ Step(r, p, i, d) /\ clients' \in {clients, clients + 1}
  <2>1. CASE refresh[r].pc # "change"
    <3>1. PICK p \in {"stale", "rows"} : refresh' = [refresh EXCEPT ![r].pc = p]
      <4>1. refresh' = [refresh EXCEPT ![r].pc = IF refresh[r].pc = "drop" THEN "stale" ELSE "rows"]
        BY <1>1, <2>1 DEF Disconnects
      <4> QED BY <4>1
    <3>2. Step(r, p, i, c)
      BY <3>1, StepsOn DEF SlackInv
    <3> QED BY <1>2, <2>1, <3>1, <3>2 DEF Disconnects
  <2>2. CASE refresh[r].pc = "change"
    <3>1. Step(r, "connect", i, clients + 1)
      BY <1>2, <2>2, StepsAt DEF SlackInv, Disconnects, Waiting
    <3> QED BY <1>2, <2>2, <3>1 DEF Disconnects
  <2> QED BY <2>1, <2>2
<1>5. overlapped \subseteq overlapped' /\ overlapped' \subseteq Integrations
  BY <1>2, <1>3 DEF Notes, SlackInv, SlackTypeOK
<1>6. /\ connections' \in [Integrations -> Connection \cup {Unconnected}]
      /\ connections'[i] = Unconnected
      /\ \A j \in Integrations \ {i} : connections'[j] = connections[j]
  BY <1>2, <1>3 DEF SlackInv, SlackTypeOK, Connected
<1>7. SlackTypeOK'
  <2>1. \A n : n \in 0 .. clients => n \in 0 .. clients'
    BY <1>2, <1>4
  <2>2. open' \subseteq Integrations \X (1 .. clients')
    BY <1>2, <1>3, <1>4 DEF SlackInv, SlackTypeOK
  <2>3. \A j \in Integrations : connections'[j].client \in 0 .. clients'
    BY <1>2, <1>4, <1>6, <2>1, NoneConnected DEF SlackInv, SlackTypeOK
  <2>4. \A q \in Refreshes : refresh'[q].client \in 0 .. clients'
    BY <1>4, <2>1 DEF SlackInv, SlackTypeOK, Step
  <2> QED BY <1>2, <1>3, <1>4, <1>5, <1>6, <2>2, <2>3, <2>4 DEF SlackInv, SlackTypeOK, Step
<1>8. OneWaits'
  BY <1>1, <1>4, <1>5 DEF SlackInv, OneWaits, WaitsAt, Step
<1>9. i \notin overlapped => \A q \in Refreshes \ {r} : ~WaitsAt(q, i)
  BY <1>1, AloneAt
<1>10. SeenStands'
  <2> SUFFICES ASSUME NEW q \in Refreshes, refresh'[q].pc \in Waiting
               PROVE  /\ refresh'[q].at \in Integrations /\ refresh'[q].client # 0
                      /\ refresh'[q].at \notin overlapped' =>
                            IF refresh'[q].pc = "connect" THEN connections'[refresh'[q].at] = Unconnected
                            ELSE connections'[refresh'[q].at] # Unconnected /\ refresh'[q].client = connections'[refresh'[q].at].client
    BY DEF SeenStands, Connected
  <2>1. CASE q = r
    BY <1>2, <1>4, <1>6, <2>1 DEF Step, Waiting, Connected
  <2>2. CASE q # r
    BY <1>4, <1>5, <1>6, <1>9, <2>2 DEF SlackInv, SeenStands, Step, Connected, WaitsAt
  <2> QED BY <2>1, <2>2
<1>11. ConnectionsOnRecord'
  <2> SUFFICES ASSUME NEW j \in Integrations \ overlapped' PROVE {o \in open' : o[1] = j} = Expected(j)'
    BY DEF ConnectionsOnRecord
  <2>1. {o \in open : o[1] = j} = Expected(j)
    BY <1>5 DEF SlackInv, ConnectionsOnRecord
  <2>2. CASE j = i
    <3>1. Expected(i) = {<<i, c>>}
      BY <1>1, <1>5, <2>2 DEF SlackInv, SeenStands, Expected
    <3>2. {o \in open' : o[1] = j} = {}
      BY <1>3, <2>1, <2>2, <3>1
    <3>3. Expected(j)' = {}
      BY <1>6, <2>2 DEF Expected, Connected
    <3> QED BY <3>2, <3>3
  <2>3. CASE j # i
    BY <1>3, <1>6, <2>1, <2>3 DEF Expected, Connected
  <2> QED BY <2>2, <2>3
<1> QED BY <1>7, <1>8, <1>10, <1>11 DEF SlackInv

LEMMA ConnectsStep ==
    ASSUME SlackInv, NEW r \in Refreshes, Connects(r)
    PROVE  SlackInv'
PROOF
<1> DEFINE i == refresh[r].at
           c == refresh[r].client
           new == [client |-> c, config |-> refresh[r].rows[i]]
<1>1. refresh[r].pc = "connect" /\ refresh[r].pc \in Waiting
  BY DEF Connects, Waiting
<1>2. i \in Integrations /\ c \in 1 .. clients /\ clients \in Nat /\ c \in Nat \ {0}
  BY <1>1, WaitsForOne DEF SlackInv, SlackTypeOK
<1>3. /\ open' = open \cup {<<i, c>>} /\ connections' = [connections EXCEPT ![i] = new]
      /\ UNCHANGED <<integrationRows, clients, slackSpent, overlapped>>
  BY DEF Connects
<1>4. Step(r, "rows", i, c)
  BY StepsOn DEF SlackInv, Connects
<1>5. new \in Connection /\ new.client = c
  BY <1>2 DEF SlackInv, SlackTypeOK, Refresh, Connection
<1> HIDE DEF new
<1>6. /\ connections' \in [Integrations -> Connection \cup {Unconnected}]
      /\ connections'[i] = new /\ new # Unconnected
      /\ \A j \in Integrations \ {i} : connections'[j] = connections[j]
  BY <1>2, <1>3, <1>5, NoneConnected DEF SlackInv, SlackTypeOK, Connected
<1>7. SlackTypeOK'
  <2>1. open' \subseteq Integrations \X (1 .. clients')
    BY <1>2, <1>3 DEF SlackInv, SlackTypeOK
  <2>2. \A j \in Integrations : connections'[j].client \in 0 .. clients'
    BY <1>2, <1>3, <1>5, <1>6 DEF SlackInv, SlackTypeOK
  <2>3. \A q \in Refreshes : refresh'[q].client \in 0 .. clients'
    BY <1>2, <1>3, <1>4 DEF SlackInv, SlackTypeOK, Step
  <2> QED BY <1>3, <1>4, <1>6, <2>1, <2>2, <2>3 DEF SlackInv, SlackTypeOK, Step
<1>8. OneWaits'
  BY <1>3, <1>4 DEF SlackInv, OneWaits, WaitsAt, Step, Waiting
<1>9. i \notin overlapped => \A q \in Refreshes \ {r} : ~WaitsAt(q, i)
  BY <1>1, AloneAt
<1>10. SeenStands'
  <2> SUFFICES ASSUME NEW q \in Refreshes, refresh'[q].pc \in Waiting
               PROVE  /\ refresh'[q].at \in Integrations /\ refresh'[q].client # 0
                      /\ refresh'[q].at \notin overlapped' =>
                            IF refresh'[q].pc = "connect" THEN connections'[refresh'[q].at] = Unconnected
                            ELSE connections'[refresh'[q].at] # Unconnected /\ refresh'[q].client = connections'[refresh'[q].at].client
    BY DEF SeenStands, Connected
  <2>1. q # r
    BY <1>4 DEF Step, Waiting
  <2> QED BY <1>3, <1>4, <1>6, <1>9, <2>1 DEF SlackInv, SeenStands, Step, Connected, WaitsAt
<1>11. ConnectionsOnRecord'
  <2> SUFFICES ASSUME NEW j \in Integrations \ overlapped' PROVE {o \in open' : o[1] = j} = Expected(j)'
    BY DEF ConnectionsOnRecord
  <2>1. {o \in open : o[1] = j} = Expected(j)
    BY <1>3 DEF SlackInv, ConnectionsOnRecord
  <2>2. CASE j = i
    <3>1. Expected(i) = {}
      BY <1>1, <1>3, <2>2 DEF SlackInv, SeenStands, Expected
    <3>2. Expected(j)' = {<<i, c>>}
      BY <1>5, <1>6, <2>2 DEF Expected, Connected
    <3> QED BY <1>3, <2>1, <2>2, <3>1, <3>2
  <2>3. CASE j # i
    BY <1>3, <1>6, <2>1, <2>3 DEF Expected, Connected
  <2> QED BY <2>2, <2>3
<1> QED BY <1>7, <1>8, <1>10, <1>11 DEF SlackInv

LEMMA SlackInvStep == SlackInv /\ [SlackNext]_slackVars => SlackInv'
PROOF
<1> SUFFICES ASSUME SlackInv, [SlackNext]_slackVars PROVE SlackInv'
  OBVIOUS
<1>0. SlackTypeOK
  BY DEF SlackInv
<1>1. ASSUME NEW r \in Refreshes, ReadsIntegrations(r) \/ TurnsToRows(r) \/ ConnectionFails(r) PROVE SlackInv'
  <2>1. PICK p \in {"stale", "rows"} : Step(r, p, refresh[r].at, refresh[r].client)
    BY <1>0, <1>1, ReadsStep
  <2>2. UNCHANGED <<integrationRows, connections, open, clients, overlapped>>
    BY <1>1 DEF ReadsIntegrations, TurnsToRows, ConnectionFails
  <2>3. slackSpent' \in [refreshes : Nat, edits : Nat]
    BY <1>0, <1>1 DEF SlackTypeOK, ReadsIntegrations, TurnsToRows, ConnectionFails
  <2>4. refresh[r].client \in 0 .. clients
    BY <1>0 DEF SlackTypeOK
  <2> QED BY <1>0, <2>1, <2>2, <2>3, <2>4, QuietStep DEF SlackTypeOK
<1>2. ASSUME NEW r \in Refreshes, Drops(r) PROVE SlackInv'
  <2>1. PICK i \in Integrations, c \in Nat : BeginsWaiting(r, "drop", i, c)
    BY <1>0, <1>2, DropsBegins
  <2>2. UNCHANGED <<integrationRows, connections, open, clients, slackSpent>>
    BY <1>2 DEF Drops
  <2> QED BY <2>1, <2>2, WaitingBegins DEF Waiting
<1>3. ASSUME NEW r \in Refreshes, Turns(r) PROVE SlackInv'
  <2>1. UNCHANGED <<integrationRows, connections, open, slackSpent>> /\ clients' \in {clients, clients + 1}
    BY <1>3 DEF Turns
  <2>2. PICK i \in Integrations, c \in Nat :
            \/ \E p \in Waiting : BeginsWaiting(r, p, i, c)
            \/ Step(r, "rows", i, c) /\ c \in 0 .. clients /\ UNCHANGED <<clients, overlapped>>
    BY <1>0, <1>3, TurnsBegins
  <2>3. CASE \E p \in Waiting : BeginsWaiting(r, p, i, c)
    BY <2>1, <2>3, WaitingBegins
  <2>4. CASE Step(r, "rows", i, c) /\ c \in 0 .. clients /\ UNCHANGED <<clients, overlapped>>
    BY <1>0, <2>1, <2>4, QuietStep DEF SlackTypeOK
  <2> QED BY <2>2, <2>3, <2>4
<1>4. ASSUME NEW r \in Refreshes, EndsRefresh(r) PROVE SlackInv'
  <2>1. Step(r, "idle", Inactive, 0) /\ 0 \in 0 .. clients
    BY <1>0, <1>4, EndStep DEF SlackTypeOK
  <2>2. UNCHANGED <<integrationRows, connections, open, clients, slackSpent, overlapped>>
    BY <1>4 DEF EndsRefresh
  <2> QED BY <1>0, <2>1, <2>2, QuietStep DEF SlackTypeOK
<1>5. ASSUME EditsIntegration PROVE SlackInv'
  <2>1. /\ UNCHANGED <<connections, open, clients, refresh, overlapped>>
        /\ integrationRows' \in [Integrations -> Configs \cup {Inactive}]
        /\ slackSpent' \in [refreshes : Nat, edits : Nat]
    BY <1>0, <1>5 DEF EditsIntegration, SlackTypeOK
  <2> QED BY <2>1 DEF SlackInv, SlackTypeOK, OneWaits, WaitsAt, SeenStands, ConnectionsOnRecord, Expected, Connected
<1>6. CASE UNCHANGED slackVars
  BY <1>6 DEF slackVars, SlackInv, SlackTypeOK, OneWaits, WaitsAt, SeenStands, ConnectionsOnRecord, Expected, Connected
<1> QED
  BY <1>1, <1>2, <1>3, <1>4, <1>5, <1>6, DisconnectsStep, ConnectsStep DEF SlackNext

-----------------------------------------------------------------------------
\* Messages of a workspace are handled once, whatever operators edit and however
\* many refreshes overlap, except for integrations that two refreshes have dealt
\* with at one time.
THEOREM ConnectionsAreOnRecord == SlackSpec => []ConnectionsOnRecord
PROOF
<1>1. SlackInv => ConnectionsOnRecord
  BY DEF SlackInv
<1> QED BY <1>1, SlackInvInit, SlackInvStep, PTL DEF SlackSpec

\* The variables of the connections keep their types.
THEOREM SlackTypes == SlackSpec => []SlackTypeOK
PROOF
<1>1. SlackInv => SlackTypeOK
  BY DEF SlackInv
<1> QED BY <1>1, SlackInvInit, SlackInvStep, PTL DEF SlackSpec

-----------------------------------------------------------------------------
(***************************************************************************)
(* Requests for tools                                                      *)
(***************************************************************************)

HandlerStates == {Idle} \cup Registering \cup Analysing \cup Accepting \cup Filing

\* Ids are given once, and calls know none that was not given.
IdsGiven ==
    /\ \A n \in Rows : toolRequests[n].id \in 1 .. ids
    /\ \A n, m \in Rows : toolRequests[n].id = toolRequests[m].id => n = m
    /\ \A x \in rationales : x.request \in 1 .. ids
    /\ \A x \in issues : x.request \in 1 .. ids
IdsKnown ==
    /\ \A h \in Handlers : handlers[h].pc \in {"post", "record"} => handlers[h].id \in 1 .. ids
    /\ \A h \in Handlers : handlers[h].pc = "dedupe" => 0 \notin handlers[h].ids

RequestsOK == RequestsTypeOK /\ IdsGiven /\ IdsKnown /\ IsFiniteSet(rationales) /\ IsFiniteSet(issues)

SuggestionsTold(row) == {row.suggestedDuplicate.by, row.suggestedImproves} \subseteq {0, row.analysed}

\* A row that was written again; its issue is not looked at.
Rewritten(row, new) ==
    /\ new \in ToolRequest /\ new.id = row.id /\ new.requestCount = row.requestCount
    /\ SuggestionsTold(row) => SuggestionsTold(new)

-----------------------------------------------------------------------------
LEMMA RowKinds ==
    ASSUME RequestsTypeOK, NEW n \in ToolNames
    PROVE  /\ n \in Rows => toolRequests[n] \in ToolRequest /\ toolRequests[n].id \in Nat \ {0}
           /\ n \notin Rows => toolRequests[n] = NoRequest /\ toolRequests[n].id = 0
PROOF
  BY DEF RequestsTypeOK, ToolRequest, NoRequest, Rows

LEMMA HandlerKinds ==
    ASSUME RequestsTypeOK, NEW h \in Handlers
    PROVE  /\ handlers[h] \in HandlerStates
           /\ handlers[h].pc \in {"find", "write"} => handlers[h] \in Registering
           /\ handlers[h].pc = "dedupe" => handlers[h] \in Analysing
           /\ handlers[h].pc \in {"duplicate", "improves"} => handlers[h] \in Accepting
           /\ handlers[h].pc \in {"post", "record"} => handlers[h] \in Filing
PROOF
<1>1. handlers[h] \in HandlerStates
  BY DEF RequestsTypeOK, HandlerStates
<1> QED BY <1>1 DEF HandlerStates, Idle, Registering, Analysing, Accepting, Filing

LEMMA CallCounted ==
    ASSUME RequestsTypeOK, NEW kind \in {"agents", "dedupes", "decisions", "patches", "filings"}, NEW bound,
           Called(kind, bound)
    PROVE  /\ callsSpent' \in [{"agents", "dedupes", "decisions", "patches", "filings"} -> Nat]
           /\ callsSpent'.agents = IF kind = "agents" THEN callsSpent.agents + 1 ELSE callsSpent.agents
PROOF
  BY DEF RequestsTypeOK, Called

\* What the rows, a name without one and a call are told apart by.
LEMMA Apart ==
    /\ NoRequest \notin ToolRequest
    /\ \A row \in ToolRequest : row # NoRequest
    /\ Idle \in HandlerStates /\ Idle.pc = "idle"
PROOF
  BY DEF NoRequest, ToolRequest, Idle, HandlerStates

-----------------------------------------------------------------------------
(* What operators, the AI and GitHub write on a row *)

\* A row that is marked as a duplicate of another.
LEMMA RowMarked ==
    ASSUME NEW row \in ToolRequest, NEW status \in Statuses, NEW original \in Nat
    PROVE  /\ Rewritten(row, [row EXCEPT !.duplicateOf = original])
           /\ Rewritten(row, [row EXCEPT !.status = status, !.duplicateOf = original])
           /\ [row EXCEPT !.duplicateOf = original].issue = row.issue
           /\ [row EXCEPT !.status = status, !.duplicateOf = original].issue = row.issue
PROOF
  BY DEF ToolRequest, Rewritten, SuggestionsTold

\* The fields that a decision, a suggestion or an issue changes, and no other.
LEMMA RowDecided ==
    ASSUME NEW row \in ToolRequest, NEW status \in Statuses, NEW original \in Nat, NEW issue \in SUBSET Nat
    PROVE  /\ Rewritten(row, [row EXCEPT !.status = status])
           /\ Rewritten(row, [row EXCEPT !.duplicateOf = original])
           /\ Rewritten(row, [row EXCEPT !.status = status, !.duplicateOf = original])
           /\ Rewritten(row, [row EXCEPT !.issue = issue])
           /\ [row EXCEPT !.status = status].issue = row.issue
           /\ [row EXCEPT !.duplicateOf = original].issue = row.issue
           /\ [row EXCEPT !.status = status, !.duplicateOf = original].issue = row.issue
           /\ [row EXCEPT !.issue = issue].issue = issue
PROOF
  BY DEF ToolRequest, Rewritten, SuggestionsTold

LEMMA RowDismissed ==
    ASSUME NEW row \in ToolRequest
    PROVE  /\ Rewritten(row, [row EXCEPT !.suggestedDuplicate = Unsuggested])
           /\ Rewritten(row, [row EXCEPT !.suggestedImproves = 0])
           /\ [row EXCEPT !.suggestedDuplicate = Unsuggested].issue = row.issue
           /\ [row EXCEPT !.suggestedImproves = 0].issue = row.issue
PROOF
<1>1. Unsuggested \in Suggestion /\ Unsuggested.by = 0
  BY DEF Unsuggested, Suggestion
<1> QED BY <1>1 DEF ToolRequest, Rewritten, SuggestionsTold

LEMMA RowCleared ==
    ASSUME NEW row \in ToolRequest, NEW status \in Statuses, NEW original \in Nat
    PROVE  /\ Rewritten(row, [Cleared(row) EXCEPT !.status = status])
           /\ Rewritten(row, [Cleared(row) EXCEPT !.status = status, !.duplicateOf = original])
           /\ [Cleared(row) EXCEPT !.status = status].issue = row.issue
           /\ [Cleared(row) EXCEPT !.status = status, !.duplicateOf = original].issue = row.issue
PROOF
<1>1. Unsuggested \in Suggestion /\ Unsuggested.by = 0
  BY DEF Unsuggested, Suggestion
<1>2. /\ Cleared(row) \in ToolRequest /\ SuggestionsTold(Cleared(row)) /\ Cleared(row).id = row.id
      /\ Cleared(row).requestCount = row.requestCount /\ Cleared(row).issue = row.issue
  BY <1>1 DEF ToolRequest, Cleared, SuggestionsTold
<1>3. \A new : Rewritten(Cleared(row), new) => Rewritten(row, new)
  BY <1>2 DEF Rewritten
<1>4. {} \in SUBSET Nat
  OBVIOUS
<1>5. PICK clear \in ToolRequest : clear = Cleared(row)
  BY <1>2
<1>6. /\ Rewritten(clear, [clear EXCEPT !.status = status])
      /\ Rewritten(clear, [clear EXCEPT !.status = status, !.duplicateOf = original])
      /\ [clear EXCEPT !.status = status].issue = clear.issue
      /\ [clear EXCEPT !.status = status, !.duplicateOf = original].issue = clear.issue
  BY <1>4, RowDecided
<1> QED BY <1>2, <1>3, <1>5, <1>6

\* All suggestions on an analysed row come from the analysis that writes.
LEMMA RowSuggested ==
    ASSUME NEW row \in ToolRequest, NEW set \in SUBSET Nat, row.id \in set,
           NEW duplicate \in [set -> set \cup {0}], NEW improving \in SUBSET set, dedupes \in Nat
    PROVE  Rewritten(row, Suggested(row, duplicate, improving)) /\ Suggested(row, duplicate, improving).issue = row.issue
PROOF
<1>1. PICK k \in Nat : k = dedupes + 1
  OBVIOUS
<1>2. PICK d : d = IF duplicate[row.id] = 0 THEN Unsuggested ELSE [of |-> duplicate[row.id], by |-> k]
  OBVIOUS
<1>3. PICK i \in {0, k} : i = IF row.id \in improving THEN k ELSE 0
  OBVIOUS
<1>4. d \in Suggestion /\ d.by \in {0, k}
  <2>1. PICK of \in set \cup {0} : of = duplicate[row.id]
    OBVIOUS
  <2>2. of \in Nat
    BY <2>1
  <2>3. CASE of = 0
    BY <1>2, <2>1, <2>3 DEF Suggestion, Unsuggested
  <2>4. CASE of # 0
    <3>1. d = [of |-> of, by |-> k]
      BY <1>2, <2>1, <2>4
    <3> QED BY <1>1, <2>2, <3>1 DEF Suggestion
  <2> QED BY <2>3, <2>4
<1>5. PICK new : new = [row EXCEPT !.analysed = k, !.suggestedDuplicate = d, !.suggestedImproves = i]
  OBVIOUS
<1>6. Suggested(row, duplicate, improving) = new
  BY <1>1, <1>2, <1>3, <1>5 DEF Suggested
<1>7. new \in ToolRequest /\ new.id = row.id /\ new.requestCount = row.requestCount /\ new.issue = row.issue
      /\ new.suggestedDuplicate = d /\ new.suggestedImproves = i /\ new.analysed = k
  BY <1>1, <1>3, <1>5, <1>4 DEF ToolRequest
<1>8. SuggestionsTold(new)
  BY <1>3, <1>7, <1>4 DEF SuggestionsTold
<1> QED BY <1>6, <1>7, <1>8 DEF Rewritten

\* The rows are written again, or deleted; the issue of each is kept or entered by
\* hand.
RowsEdited ==
    /\ toolRequests' \in [ToolNames -> ToolRequest \cup {NoRequest}]
    /\ \A n \in ToolNames : toolRequests'[n] # NoRequest =>
           n \in Rows /\ Rewritten(toolRequests[n], toolRequests'[n])
IssuesKept ==
    \A n \in ToolNames : toolRequests'[n] # NoRequest => toolRequests'[n].issue \in {toolRequests[n].issue, ByHand}

\* One row is written again.
LEMMA RowEdited ==
    ASSUME RequestsTypeOK, NEW n \in Rows, NEW new, Rewritten(toolRequests[n], new),
           toolRequests' = [toolRequests EXCEPT ![n] = new]
    PROVE  RowsEdited /\ (new.issue \in {toolRequests[n].issue, ByHand} => IssuesKept)
PROOF
<1>1. n \in ToolNames /\ new \in ToolRequest
  BY DEF Rows, Rewritten
<1>2. \A m \in ToolNames : toolRequests'[m] = IF m = n THEN new ELSE toolRequests[m]
  BY DEF RequestsTypeOK
<1>3. \A row : row \in ToolRequest => Rewritten(row, row)
  BY DEF Rewritten
<1>4. toolRequests' \in [ToolNames -> ToolRequest \cup {NoRequest}]
  BY <1>1 DEF RequestsTypeOK
<1>5. \A m \in ToolNames : toolRequests'[m] # NoRequest => m \in Rows /\ Rewritten(toolRequests[m], toolRequests'[m])
  BY <1>2, <1>3, RowKinds DEF Rows
<1> QED BY <1>2, <1>4, <1>5 DEF RowsEdited, IssuesKept

LEMMA SuggestionsEdit ==
    ASSUME RequestsOK, NEW h \in Handlers, WritesSuggestions(h)
    PROVE  RowsEdited /\ IssuesKept
PROOF
<1>1. handlers[h] \in Analysing /\ 0 \notin handlers[h].ids
  BY HandlerKinds DEF RequestsOK, IdsKnown, WritesSuggestions
<1>2. handlers[h].ids \in SUBSET Nat
  BY <1>1 DEF Analysing
<1>3. PICK duplicate \in [handlers[h].ids -> handlers[h].ids \cup {0}], improving \in SUBSET handlers[h].ids :
          toolRequests' = [n \in ToolNames |-> IF toolRequests[n].id \in handlers[h].ids
                           THEN Suggested(toolRequests[n], duplicate, improving) ELSE toolRequests[n]]
  BY DEF WritesSuggestions
<1>4. ASSUME NEW n \in ToolNames
      PROVE  /\ toolRequests'[n] \in ToolRequest \cup {NoRequest}
             /\ toolRequests'[n] # NoRequest =>
                    /\ n \in Rows /\ Rewritten(toolRequests[n], toolRequests'[n])
                    /\ toolRequests'[n].issue = toolRequests[n].issue
  <2>1. RequestsTypeOK /\ dedupes \in Nat
    BY DEF RequestsOK, RequestsTypeOK
  <2>2. CASE toolRequests[n].id \in handlers[h].ids
    <3>1. n \in Rows /\ toolRequests[n] \in ToolRequest
      BY <1>1, <1>2, <2>1, <2>2, RowKinds
    <3>2. toolRequests'[n] = Suggested(toolRequests[n], duplicate, improving)
      BY <1>3, <2>2
    <3>3. /\ Rewritten(toolRequests[n], Suggested(toolRequests[n], duplicate, improving))
          /\ Suggested(toolRequests[n], duplicate, improving).issue = toolRequests[n].issue
      BY <1>2, <2>1, <2>2, <3>1, RowSuggested
    <3> QED BY <3>1, <3>2, <3>3 DEF Rewritten
  <2>3. CASE toolRequests[n].id \notin handlers[h].ids
    <3>1. toolRequests'[n] = toolRequests[n]
      BY <1>3, <2>3
    <3> QED BY <2>1, <3>1, RowKinds DEF Rewritten, Rows
  <2> QED BY <2>2, <2>3
<1>5. toolRequests' \in [ToolNames -> ToolRequest \cup {NoRequest}]
  <2>1. toolRequests' = [n \in ToolNames |-> toolRequests'[n]]
    BY <1>3
  <2> QED BY <1>4, <2>1
<1> QED BY <1>4, <1>5 DEF RowsEdited, IssuesKept

LEMMA DecisionEdits ==
    ASSUME RequestsOK, NEW h \in Handlers, Decides(h)
    PROVE  RowsEdited /\ IssuesKept
PROOF
<1>1. RequestsTypeOK /\ handlers[h] \in Accepting
  BY HandlerKinds DEF RequestsOK, Decides
<1>2. PICK n \in Rows :
          \/ toolRequests' = [toolRequests EXCEPT ![n] =
                 [Cleared(toolRequests[n]) EXCEPT !.status = "DUPLICATE", !.duplicateOf = handlers[h].of]]
          \/ toolRequests' = [toolRequests EXCEPT ![n] = [Cleared(toolRequests[n]) EXCEPT !.status = "REJECTED"]]
  BY DEF Decides
<1>3. toolRequests[n] \in ToolRequest /\ handlers[h].of \in Nat /\ {"DUPLICATE", "REJECTED"} \subseteq Statuses
  BY <1>1, RowKinds DEF Rows, Accepting, Statuses
<1>4. PICK new : /\ Rewritten(toolRequests[n], new) /\ new.issue = toolRequests[n].issue
                 /\ toolRequests' = [toolRequests EXCEPT ![n] = new]
  <2>1. PICK row \in ToolRequest, original \in Nat : row = toolRequests[n] /\ original = handlers[h].of
    BY <1>3
  <2>2. "DUPLICATE" \in Statuses /\ "REJECTED" \in Statuses
    BY <1>3
  <2>3. /\ Rewritten(row, [Cleared(row) EXCEPT !.status = "DUPLICATE", !.duplicateOf = original])
        /\ [Cleared(row) EXCEPT !.status = "DUPLICATE", !.duplicateOf = original].issue = row.issue
    BY <2>2, RowCleared, Zenon
  <2>4. /\ Rewritten(row, [Cleared(row) EXCEPT !.status = "REJECTED"])
        /\ [Cleared(row) EXCEPT !.status = "REJECTED"].issue = row.issue
    BY <2>2, RowCleared, Zenon
  <2> QED BY <1>2, <2>1, <2>3, <2>4
<1> QED BY <1>1, <1>4, RowEdited

LEMMA OperatorEdits ==
    ASSUME RequestsOK, NEW n \in ToolNames, Dismisses(n) \/ Patches(n)
    PROVE  RowsEdited /\ IssuesKept
PROOF
<1>1. RequestsTypeOK /\ n \in Rows /\ toolRequests[n] \in ToolRequest
  BY RowKinds DEF RequestsOK, Dismisses, Patches
<1>2. IdsOf(Rows) \subseteq Nat /\ "DUPLICATE" \in Statuses /\ ByHand \in SUBSET Nat
  BY <1>1, RowKinds DEF IdsOf, Rows, Statuses, ByHand
<1>3. PICK new : /\ Rewritten(toolRequests[n], new) /\ new.issue \in {toolRequests[n].issue, ByHand}
                 /\ toolRequests' = [toolRequests EXCEPT ![n] = new]
  <2>1. CASE Dismisses(n)
    BY <1>1, <2>1, RowDismissed DEF Dismisses
  <2>2. ASSUME NEW status \in Statuses, toolRequests' = [toolRequests EXCEPT ![n].status = status]
        PROVE  \E new : /\ Rewritten(toolRequests[n], new) /\ new.issue \in {toolRequests[n].issue, ByHand}
                        /\ toolRequests' = [toolRequests EXCEPT ![n] = new]
    BY <1>1, <1>2, <2>2, RowDecided
  <2>3. ASSUME NEW original \in Nat,
               \/ toolRequests' = [toolRequests EXCEPT ![n].status = "DUPLICATE", ![n].duplicateOf = original]
               \/ toolRequests' = [toolRequests EXCEPT ![n].duplicateOf = original]
        PROVE  \E new : /\ Rewritten(toolRequests[n], new) /\ new.issue \in {toolRequests[n].issue, ByHand}
                        /\ toolRequests' = [toolRequests EXCEPT ![n] = new]
    <3>1. \/ toolRequests' = [toolRequests EXCEPT ![n] = [toolRequests[n] EXCEPT !.status = "DUPLICATE", !.duplicateOf = original]]
          \/ toolRequests' = [toolRequests EXCEPT ![n] = [toolRequests[n] EXCEPT !.duplicateOf = original]]
      BY <2>3
    <3>2. PICK row \in ToolRequest : row = toolRequests[n]
      BY <1>1
    <3>3. /\ Rewritten(row, [row EXCEPT !.status = "DUPLICATE", !.duplicateOf = original])
          /\ [row EXCEPT !.status = "DUPLICATE", !.duplicateOf = original].issue = row.issue
      BY <1>2, RowMarked, Zenon
    <3>4. /\ Rewritten(row, [row EXCEPT !.duplicateOf = original])
          /\ [row EXCEPT !.duplicateOf = original].issue = row.issue
      BY <1>2, RowMarked, Zenon
    <3> QED BY <3>1, <3>2, <3>3, <3>4
  <2>4. CASE toolRequests' = [toolRequests EXCEPT ![n].issue = ByHand]
    BY <1>1, <1>2, <2>4, RowDecided
  <2>5. CASE Patches(n)
    <3>1. 0 \in Nat
      OBVIOUS
    <3> QED BY <1>2, <2>2, <2>3, <2>4, <2>5, <3>1 DEF Patches
  <2> QED BY <2>1, <2>5
<1> QED BY <1>1, <1>3, RowEdited

LEMMA DeletionEdits ==
    ASSUME RequestsOK, NEW n \in ToolNames, DeletesRequest(n)
    PROVE  /\ RowsEdited /\ IssuesKept
           /\ \A m \in ToolNames : toolRequests'[m] # NoRequest => toolRequests[m].id # toolRequests[n].id
PROOF
<1>1. RequestsTypeOK /\ n \in Rows
  BY DEF RequestsOK, DeletesRequest
<1>2. PICK id : id = toolRequests[n].id
  OBVIOUS
<1>3. toolRequests' = Without(toolRequests, id)
  BY <1>2 DEF DeletesRequest
<1>4. ASSUME NEW m \in ToolNames
      PROVE  /\ toolRequests'[m] \in ToolRequest \cup {NoRequest}
             /\ toolRequests'[m] # NoRequest =>
                    /\ m \in Rows /\ Rewritten(toolRequests[m], toolRequests'[m])
                    /\ toolRequests'[m].issue = toolRequests[m].issue /\ toolRequests[m].id # id
  <2>1. CASE toolRequests[m].id = id
    BY <1>3, <2>1 DEF Without
  <2>2. CASE toolRequests[m].id # id /\ toolRequests[m] # NoRequest /\ toolRequests[m].duplicateOf = id
    <3>1. toolRequests'[m] = [toolRequests[m] EXCEPT !.duplicateOf = 0]
      BY <1>3, <2>2 DEF Without
    <3>2. m \in Rows /\ toolRequests[m] \in ToolRequest /\ "DUPLICATE" \in Statuses /\ 0 \in Nat /\ {} \in SUBSET Nat
      BY <1>1, <2>2, RowKinds DEF Rows, Statuses
    <3>3. /\ Rewritten(toolRequests[m], [toolRequests[m] EXCEPT !.duplicateOf = 0])
          /\ [toolRequests[m] EXCEPT !.duplicateOf = 0].issue = toolRequests[m].issue
      BY <3>2, RowDecided
    <3> QED BY <2>2, <3>1, <3>2, <3>3 DEF Rewritten
  <2>3. CASE toolRequests[m].id # id /\ ~(toolRequests[m] # NoRequest /\ toolRequests[m].duplicateOf = id)
    <3>1. toolRequests'[m] = toolRequests[m]
      BY <1>3, <2>3 DEF Without
    <3> QED BY <1>1, <2>3, <3>1, RowKinds DEF Rewritten, Rows
  <2> QED BY <2>1, <2>2, <2>3
<1>5. toolRequests' \in [ToolNames -> ToolRequest \cup {NoRequest}]
  <2>1. toolRequests' = [m \in ToolNames |-> toolRequests'[m]]
    BY <1>3 DEF Without
  <2> QED BY <1>4, <2>1
<1> QED BY <1>2, <1>4, <1>5 DEF RowsEdited, IssuesKept

LEMMA RecordEdits ==
    ASSUME RequestsOK, NEW h \in Handlers, RecordsIssue(h)
    PROVE  /\ RowsEdited
           /\ \A n \in ToolNames : toolRequests'[n] # NoRequest =>
                  toolRequests'[n].issue = IF toolRequests[n].id = handlers[h].id THEN handlers[h].issue ELSE toolRequests[n].issue
PROOF
<1>1. RequestsTypeOK /\ handlers[h] \in Filing /\ handlers[h].id # 0
  BY HandlerKinds DEF RequestsOK, RecordsIssue, IdsKnown
<1>2. PICK issue \in SUBSET Nat : issue = handlers[h].issue
  BY <1>1 DEF Filing
<1>3. toolRequests' = [n \in ToolNames |-> IF toolRequests[n].id = handlers[h].id
                       THEN [toolRequests[n] EXCEPT !.issue = issue] ELSE toolRequests[n]]
  BY <1>2 DEF RecordsIssue
<1>4. ASSUME NEW n \in ToolNames
      PROVE  /\ toolRequests'[n] \in ToolRequest \cup {NoRequest}
             /\ toolRequests'[n] # NoRequest =>
                    /\ n \in Rows /\ Rewritten(toolRequests[n], toolRequests'[n])
                    /\ toolRequests'[n].issue = IF toolRequests[n].id = handlers[h].id THEN issue ELSE toolRequests[n].issue
  <2>1. CASE toolRequests[n].id = handlers[h].id
    <3>1. n \in Rows /\ toolRequests[n] \in ToolRequest /\ "DUPLICATE" \in Statuses /\ 0 \in Nat
      BY <1>1, <2>1, RowKinds DEF Statuses
    <3>2. toolRequests'[n] = [toolRequests[n] EXCEPT !.issue = issue]
      BY <1>3, <2>1
    <3>3. Rewritten(toolRequests[n], [toolRequests[n] EXCEPT !.issue = issue]) /\ [toolRequests[n] EXCEPT !.issue = issue].issue = issue
      BY <3>1, RowDecided
    <3> QED BY <2>1, <3>1, <3>2, <3>3 DEF Rewritten
  <2>2. CASE toolRequests[n].id # handlers[h].id
    <3>1. toolRequests'[n] = toolRequests[n]
      BY <1>3, <2>2
    <3> QED BY <1>1, <2>2, <3>1, RowKinds DEF Rewritten, Rows
  <2> QED BY <2>1, <2>2
<1>5. toolRequests' \in [ToolNames -> ToolRequest \cup {NoRequest}]
  <2>1. toolRequests' = [n \in ToolNames |-> toolRequests'[n]]
    BY <1>3
  <2> QED BY <1>4, <2>1
<1> QED BY <1>2, <1>4, <1>5 DEF RowsEdited

-----------------------------------------------------------------------------
(* Types and ids *)

LEMMA RequestsOKInit == RequestsInit => RequestsOK
PROOF
<1> SUFFICES ASSUME RequestsInit PROVE RequestsOK
  OBVIOUS
<1>1. Rows = {} /\ (\A h \in Handlers : handlers[h].pc = "idle")
  BY DEF RequestsInit, Rows, Idle
<1>2. callsSpent \in [{"agents", "dedupes", "decisions", "patches", "filings"} -> Nat]
  BY DEF RequestsInit
<1>3. RequestsTypeOK
  BY <1>2 DEF RequestsInit, RequestsTypeOK
<1>4. IdsGiven /\ IdsKnown
  BY <1>1 DEF RequestsInit, IdsGiven, IdsKnown
<1>5. IsFiniteSet(rationales) /\ IsFiniteSet(issues)
  BY FS_EmptySet DEF RequestsInit
<1> QED BY <1>3, <1>4, <1>5 DEF RequestsOK

\* A call goes on.
LEMMA CallGoesOn ==
    ASSUME RequestsOK, NEW h \in Handlers, NEW new \in HandlerStates, handlers' = [handlers EXCEPT ![h] = new],
           ids' \in Nat, ids <= ids',
           new.pc \in {"post", "record"} => new.id \in 1 .. ids, new.pc = "dedupe" => 0 \notin new.ids
    PROVE  handlers' \in [Handlers -> HandlerStates] /\ IdsKnown'
PROOF
<1>1. handlers \in [Handlers -> HandlerStates] /\ ids \in Nat
  BY DEF RequestsOK, RequestsTypeOK, HandlerStates
<1>2. handlers' \in [Handlers -> HandlerStates]
  BY <1>1
<1>3. \A g \in Handlers : handlers'[g] = IF g = h THEN new ELSE handlers[g]
  BY <1>1
<1>4. \A id : id \in 1 .. ids => id \in 1 .. ids'
  BY <1>1
<1> QED BY <1>2, <1>3, <1>4 DEF RequestsOK, IdsKnown

\* A call goes on, and the rows are not written.
LEMMA OnlyCallGoesOn ==
    ASSUME RequestsOK, NEW h \in Handlers, NEW new \in HandlerStates, handlers' = [handlers EXCEPT ![h] = new],
           new.pc \in {"post", "record"} => new.id \in 1 .. ids, new.pc = "dedupe" => 0 \notin new.ids,
           UNCHANGED <<toolRequests, rationales, ids, dedupes>>,
           issues' \subseteq [request : Nat, number : Nat], \A x \in issues' : x.request \in 1 .. ids, IsFiniteSet(issues'),
           callsSpent' \in [{"agents", "dedupes", "decisions", "patches", "filings"} -> Nat],
           filedTwice' \subseteq Nat
    PROVE  RequestsOK'
PROOF
<1>1. handlers' \in [Handlers -> HandlerStates] /\ IdsKnown'
  <2>1. ids' \in Nat /\ ids <= ids'
    BY DEF RequestsOK, RequestsTypeOK
  <2> QED BY <2>1, CallGoesOn
<1>2. RequestsTypeOK'
  BY <1>1 DEF RequestsOK, RequestsTypeOK, HandlerStates
<1>3. IdsGiven'
  BY DEF RequestsOK, IdsGiven, Rows
<1> QED BY <1>1, <1>2, <1>3 DEF RequestsOK

\* The rows are edited, and a call ends, if one made the edit.
LEMMA RowsEditedOK ==
    ASSUME RequestsOK, RowsEdited, UNCHANGED <<issues, ids, filedTwice>>, rationales' \subseteq rationales, dedupes' \in Nat,
           UNCHANGED handlers \/ \E h \in Handlers : Ends(h),
           callsSpent' \in [{"agents", "dedupes", "decisions", "patches", "filings"} -> Nat]
    PROVE  RequestsOK'
PROOF
<1>1. handlers' \in [Handlers -> HandlerStates] /\ IdsKnown'
  <2>1. CASE UNCHANGED handlers
    BY <2>1 DEF RequestsOK, RequestsTypeOK, IdsKnown, HandlerStates
  <2>2. ASSUME NEW h \in Handlers, Ends(h)
        PROVE  handlers' \in [Handlers -> HandlerStates] /\ IdsKnown'
    <3>1. ids' \in Nat /\ ids <= ids'
      BY DEF RequestsOK, RequestsTypeOK
    <3> QED BY <2>2, <3>1, CallGoesOn, Apart DEF Ends
  <2> QED BY <2>1, <2>2
<1>2. RequestsTypeOK'
  BY <1>1 DEF RequestsOK, RequestsTypeOK, HandlerStates, RowsEdited
<1>3. \A n \in Rows' : n \in Rows /\ toolRequests'[n].id = toolRequests[n].id
  BY DEF RowsEdited, Rows, Rewritten
<1>4. IdsGiven'
  BY <1>3 DEF RequestsOK, IdsGiven
<1>5. IsFiniteSet(rationales') /\ IsFiniteSet(issues')
  BY FS_Subset DEF RequestsOK
<1> QED BY <1>1, <1>2, <1>4, <1>5 DEF RequestsOK

\* What Registers does, for a name without a row and for one with a row.
LEMMA Registered ==
    ASSUME RequestsOK, NEW h \in Handlers, Registers(h)
    PROVE  \E n \in ToolNames, row \in ToolRequest :
               /\ toolRequests' = [toolRequests EXCEPT ![n] = row]
               /\ rationales' = rationales \cup {[request |-> row.id, run |-> handlers[h].run,
                                                  inline |-> handlers[h].inline, number |-> handlers[h].number]}
               /\ handlers[h] \in Registering
               /\ \/ /\ n \notin Rows /\ ids' = ids + 1 /\ row.id = ids + 1
                     /\ row.requestCount = 1 /\ SuggestionsTold(row) /\ row.issue = Unlinked
                  \/ /\ n \in Rows /\ ids' = ids /\ row.id = toolRequests[n].id
                     /\ row.requestCount = toolRequests[n].requestCount + 1
                     /\ row.issue = toolRequests[n].issue
                     /\ SuggestionsTold(toolRequests[n]) => SuggestionsTold(row)
PROOF
<1>1. RequestsTypeOK /\ handlers[h] \in Registering /\ handlers[h].pc = "write"
  BY HandlerKinds DEF RequestsOK, Registers
<1>2. PICK n \in ToolNames : n = handlers[h].name
  BY <1>1 DEF Registering
<1>3. PICK row : row = IF handlers[h].id = 0 THEN NewRequestRow ELSE [toolRequests[n] EXCEPT !.requestCount = @ + 1]
  OBVIOUS
<1>4. /\ toolRequests' = [toolRequests EXCEPT ![n] = row]
      /\ rationales' = rationales \cup {[request |-> row.id, run |-> handlers[h].run,
                                         inline |-> handlers[h].inline, number |-> handlers[h].number]}
      /\ handlers[h].id = toolRequests[n].id
      /\ ids' = IF handlers[h].id = 0 THEN ids + 1 ELSE ids
  BY <1>2, <1>3 DEF Registers
<1>5. CASE handlers[h].id = 0
  <2>1. n \notin Rows
    BY <1>1, <1>4, <1>5, RowKinds
  <2>2. row = NewRequestRow /\ ids + 1 \in Nat \ {0}
    BY <1>1, <1>3, <1>5 DEF RequestsTypeOK
  <2>3. PICK id \in Nat \ {0} : id = ids + 1
    BY <2>2
  <2>4. Unsuggested \in Suggestion /\ Unsuggested.by = 0
    BY DEF Unsuggested, Suggestion
  <2>5. NewRequestRow = [id |-> id, status |-> "PROPOSED", requestCount |-> 1, duplicateOf |-> 0,
                         suggestedDuplicate |-> Unsuggested, suggestedImproves |-> 0, analysed |-> 0, issue |-> {}]
    BY <2>3 DEF NewRequestRow, Unlinked
  <2>6. row \in ToolRequest /\ row.id = id /\ row.requestCount = 1 /\ SuggestionsTold(row) /\ row.issue = Unlinked
    BY <2>2, <2>4, <2>5 DEF ToolRequest, Statuses, SuggestionsTold, Unlinked
  <2> QED BY <1>1, <1>4, <1>5, <2>1, <2>3, <2>6
<1>6. CASE handlers[h].id # 0
  <2>1. n \in Rows /\ toolRequests[n] \in ToolRequest
    BY <1>1, <1>4, <1>6, RowKinds
  <2>2. PICK count \in Nat : count = toolRequests[n].requestCount + 1
    BY <2>1 DEF ToolRequest
  <2>3. row = [toolRequests[n] EXCEPT !.requestCount = count]
    BY <1>3, <1>6, <2>2
  <2>4. /\ row \in ToolRequest /\ row.id = toolRequests[n].id /\ row.requestCount = count
        /\ row.issue = toolRequests[n].issue /\ (SuggestionsTold(toolRequests[n]) => SuggestionsTold(row))
    BY <2>1, <2>3 DEF ToolRequest, SuggestionsTold
  <2> QED BY <1>1, <1>4, <1>6, <2>1, <2>2, <2>4
<1> QED BY <1>5, <1>6

LEMMA RegistersOK ==
    ASSUME RequestsOK, NEW h \in Handlers, Registers(h)
    PROVE  RequestsOK'
PROOF
<1>1. PICK n \in ToolNames, row \in ToolRequest :
          /\ toolRequests' = [toolRequests EXCEPT ![n] = row]
          /\ rationales' = rationales \cup {[request |-> row.id, run |-> handlers[h].run,
                                             inline |-> handlers[h].inline, number |-> handlers[h].number]}
          /\ handlers[h] \in Registering
          /\ \/ n \notin Rows /\ ids' = ids + 1 /\ row.id = ids + 1
             \/ n \in Rows /\ ids' = ids /\ row.id = toolRequests[n].id
  BY Registered
<1>2. ids \in Nat /\ ids' \in Nat /\ ids <= ids'
  BY <1>1 DEF RequestsOK, RequestsTypeOK
<1>3. handlers' \in [Handlers -> HandlerStates] /\ IdsKnown'
  BY <1>2, CallGoesOn, Apart DEF Registers, Ends
<1>4. PICK x : x = [request |-> row.id, run |-> handlers[h].run, inline |-> handlers[h].inline, number |-> handlers[h].number]
  OBVIOUS
<1>5. x \in [request : Nat, run : AnalysisRuns, inline : BOOLEAN, number : Nat] /\ x.request = row.id
  BY <1>1, <1>4 DEF ToolRequest, Registering
<1>6. rationales' = rationales \cup {x}
  BY <1>1, <1>4
<1>7. RequestsTypeOK'
  <2>1. toolRequests' \in [ToolNames -> ToolRequest \cup {NoRequest}]
    BY <1>1 DEF RequestsOK, RequestsTypeOK
  <2> QED BY <1>2, <1>3, <1>5, <1>6, <2>1 DEF RequestsOK, RequestsTypeOK, Registers, HandlerStates
<1>8. \A m \in ToolNames : toolRequests'[m] = IF m = n THEN row ELSE toolRequests[m]
  BY <1>1 DEF RequestsOK, RequestsTypeOK
<1>9. Rows' = Rows \cup {n}
  BY <1>8, Apart DEF Rows
<1>10. row.id \in 1 .. ids' /\ \A id \in 1 .. ids : id \in 1 .. ids'
  BY <1>1, <1>2 DEF RequestsOK, IdsGiven
<1>11. \A m \in Rows : m # n => toolRequests[m].id # row.id
  <2>1. CASE n \in Rows
    BY <1>1, <2>1 DEF RequestsOK, IdsGiven
  <2>2. CASE n \notin Rows
    BY <1>1, <1>2, <2>2 DEF RequestsOK, IdsGiven
  <2> QED BY <2>1, <2>2
<1>12. IdsGiven'
  <2>1. \A m \in Rows' : toolRequests'[m].id \in 1 .. ids'
    BY <1>8, <1>9, <1>10 DEF RequestsOK, IdsGiven, Rows
  <2>2. \A m, k \in Rows' : toolRequests'[m].id = toolRequests'[k].id => m = k
    BY <1>8, <1>9, <1>11 DEF RequestsOK, IdsGiven, Rows
  <2>3. \A y \in rationales' : y.request \in 1 .. ids'
    BY <1>5, <1>6, <1>10 DEF RequestsOK, IdsGiven
  <2>4. \A y \in issues' : y.request \in 1 .. ids'
    BY <1>10 DEF RequestsOK, IdsGiven, Registers
  <2> QED BY <2>1, <2>2, <2>3, <2>4 DEF IdsGiven
<1>13. IsFiniteSet(rationales') /\ IsFiniteSet(issues')
  BY <1>6, FS_AddElement DEF RequestsOK, Registers
<1> QED BY <1>3, <1>7, <1>12, <1>13 DEF RequestsOK

-----------------------------------------------------------------------------
(* Calls that go on and write no row *)

LEMMA CallRegisters ==
    ASSUME RequestsOK, NEW h \in Handlers, NEW n \in ToolNames, NEW analysis \in AnalysisRuns,
           AsksForTool(h, n, analysis) \/ DetectsGap(h, n, analysis)
    PROVE  /\ \E new \in Registering : /\ handlers' = [handlers EXCEPT ![h] = new]
                                       /\ new.pc = "find" /\ new.number = callsSpent.agents
           /\ callsSpent' \in [{"agents", "dedupes", "decisions", "patches", "filings"} -> Nat]
           /\ callsSpent'.agents = callsSpent.agents + 1
           /\ UNCHANGED <<toolRequests, rationales, issues, ids, dedupes, filedTwice>>
PROOF
<1>1. RequestsTypeOK /\ callsSpent.agents \in Nat
  BY DEF RequestsOK, RequestsTypeOK
<1>2. PICK number \in Nat : number = callsSpent.agents
  BY <1>1
<1>3. PICK inline \in BOOLEAN : handlers' = [handlers EXCEPT ![h] = Registration(n, analysis, inline)]
  BY DEF AsksForTool, DetectsGap, Begins
<1>4. PICK new : new = [pc |-> "find", name |-> n, run |-> analysis, inline |-> inline, number |-> number, id |-> 0]
  OBVIOUS
<1>5. Registration(n, analysis, inline) = new
  BY <1>2, <1>4 DEF Registration
<1>6. new \in Registering /\ new.pc = "find" /\ new.number = number
  BY <1>4 DEF Registering
<1>7. Called("agents", MaxAgentCalls) /\ UNCHANGED <<toolRequests, rationales, issues, ids, dedupes, filedTwice>>
  BY DEF AsksForTool, DetectsGap
<1> QED BY <1>1, <1>2, <1>3, <1>5, <1>6, <1>7, CallCounted

LEMMA CallFinds ==
    ASSUME RequestsOK, NEW h \in Handlers, FindsRequest(h)
    PROVE  /\ \E new \in Registering : /\ handlers' = [handlers EXCEPT ![h] = new]
                                       /\ new.pc = "write" /\ new.number = handlers[h].number
           /\ handlers[h].pc = "find"
           /\ UNCHANGED <<toolRequests, rationales, issues, ids, dedupes, callsSpent, filedTwice>>
PROOF
<1>1. handlers[h] \in Registering /\ RequestsTypeOK
  BY HandlerKinds DEF RequestsOK, FindsRequest
<1>2. PICK id \in Nat : id = toolRequests[handlers[h].name].id
  BY <1>1, RowKinds DEF Registering
<1>3. PICK new : new = [handlers[h] EXCEPT !.pc = "write", !.id = id]
  OBVIOUS
<1>4. new \in Registering /\ new.pc = "write" /\ new.number = handlers[h].number
  BY <1>1, <1>3 DEF Registering
<1>5. handlers' = [handlers EXCEPT ![h] = new]
  BY <1>2, <1>3 DEF FindsRequest
<1> QED BY <1>4, <1>5 DEF FindsRequest

LEMMA CallReads ==
    ASSUME RequestsOK, NEW h \in Handlers, ReadsForDedupe(h) \/ Accepts(h)
    PROVE  /\ \E new \in Analysing \cup Accepting :
                  handlers' = [handlers EXCEPT ![h] = new] /\ (new.pc = "dedupe" => 0 \notin new.ids)
           /\ handlers[h].pc = "idle"
           /\ callsSpent' \in [{"agents", "dedupes", "decisions", "patches", "filings"} -> Nat]
           /\ callsSpent'.agents = callsSpent.agents
           /\ UNCHANGED <<toolRequests, rationales, issues, ids, dedupes, filedTwice>>
PROOF
<1>1. RequestsTypeOK /\ (handlers[h] = Idle => handlers[h].pc = "idle")
  BY DEF RequestsOK, Idle
<1>2. CASE ReadsForDedupe(h)
  <2>1. PICK set : /\ handlers' = [handlers EXCEPT ![h] = [pc |-> "dedupe", ids |-> set]] /\ handlers[h] = Idle
                   /\ set = IdsOf({n \in Rows : toolRequests[n].status \in {"PROPOSED", "APPROVED"}})
    BY <1>2 DEF ReadsForDedupe, Begins
  <2>2. set \in SUBSET Nat /\ 0 \notin set
    BY <1>1, <2>1, RowKinds DEF IdsOf, Rows
  <2>3. PICK new : new = [pc |-> "dedupe", ids |-> set]
    OBVIOUS
  <2>4. new \in Analysing /\ 0 \notin new.ids
    BY <2>2, <2>3 DEF Analysing
  <2>5. Called("dedupes", MaxDedupes) /\ UNCHANGED <<toolRequests, rationales, issues, ids, dedupes, filedTwice>>
    BY <1>2 DEF ReadsForDedupe
  <2> QED BY <1>1, <2>1, <2>3, <2>4, <2>5, CallCounted
<1>3. CASE Accepts(h)
  <2>1. PICK n \in Rows :
            \/ handlers' = [handlers EXCEPT ![h] = [pc |-> "duplicate", id |-> toolRequests[n].id,
                                                    of |-> toolRequests[n].suggestedDuplicate.of]]
            \/ handlers' = [handlers EXCEPT ![h] = [pc |-> "improves", id |-> toolRequests[n].id, of |-> 0]]
    BY <1>3 DEF Accepts, Begins
  <2>2. PICK id \in Nat : id = toolRequests[n].id
    BY <1>1, RowKinds DEF Rows
  <2>3. PICK original \in Nat : original = toolRequests[n].suggestedDuplicate.of
    BY <1>1, RowKinds DEF Rows, ToolRequest, Suggestion
  <2>4. PICK new : /\ new \in {[pc |-> "duplicate", id |-> id, of |-> original], [pc |-> "improves", id |-> id, of |-> 0]}
                   /\ handlers' = [handlers EXCEPT ![h] = new]
    BY <2>1, <2>2, <2>3
  <2>5. new \in Accepting /\ new.pc # "dedupe"
    BY <2>4 DEF Accepting
  <2>6. Called("decisions", MaxDecisions) /\ UNCHANGED <<toolRequests, rationales, issues, ids, dedupes, filedTwice>>
    BY <1>3 DEF Accepts
  <2>7. handlers[h] = Idle
    BY <1>3 DEF Accepts, Begins
  <2> QED BY <1>1, <2>4, <2>5, <2>6, <2>7, CallCounted
<1> QED BY <1>2, <1>3

LEMMA CallLooks ==
    ASSUME RequestsOK, NEW h \in Handlers, LooksBeforeFiling(h)
    PROVE  /\ \E n \in Rows, new \in Filing :
                  /\ handlers' = [handlers EXCEPT ![h] = new]
                  /\ new.pc = "post" /\ new.id = toolRequests[n].id /\ toolRequests[n].issue = Unlinked
                  /\ filedTwice' = IF FilesOf(toolRequests[n].id) = {} THEN filedTwice
                                   ELSE filedTwice \cup {toolRequests[n].id}
           /\ handlers[h].pc = "idle"
           /\ callsSpent' \in [{"agents", "dedupes", "decisions", "patches", "filings"} -> Nat]
           /\ callsSpent'.agents = callsSpent.agents
           /\ UNCHANGED <<toolRequests, rationales, issues, ids, dedupes>>
PROOF
<1>1. RequestsTypeOK /\ (handlers[h] = Idle => handlers[h].pc = "idle")
  BY DEF RequestsOK, Idle
<1>2. PICK n \in Rows :
          /\ Eligible(toolRequests[n])
          /\ Begins(h, [pc |-> "post", id |-> toolRequests[n].id, issue |-> Unlinked])
          /\ filedTwice' = IF FilesOf(toolRequests[n].id) = {} THEN filedTwice
                           ELSE filedTwice \cup {toolRequests[n].id}
  BY DEF LooksBeforeFiling
<1>3. PICK id \in Nat : id = toolRequests[n].id
  BY <1>1, RowKinds DEF Rows
<1>4. PICK new : new = [pc |-> "post", id |-> id, issue |-> {}]
  OBVIOUS
<1>5. new \in Filing /\ new.pc = "post" /\ new.id = id
  BY <1>4 DEF Filing
<1>6. handlers[h] = Idle /\ handlers' = [handlers EXCEPT ![h] = new]
  BY <1>2, <1>3, <1>4 DEF Begins, Unlinked
<1>7. Called("filings", MaxFilings) /\ UNCHANGED <<toolRequests, rationales, issues, ids, dedupes>>
  BY DEF LooksBeforeFiling
<1>8. /\ callsSpent' \in [{"agents", "dedupes", "decisions", "patches", "filings"} -> Nat]
      /\ callsSpent'.agents = callsSpent.agents
  BY <1>1, <1>7, CallCounted
<1>9. toolRequests[n].issue = Unlinked
  BY <1>2 DEF Eligible
<1> QED BY <1>1, <1>2, <1>3, <1>5, <1>6, <1>7, <1>8, <1>9

LEMMA CallPosts ==
    ASSUME RequestsOK, NEW h \in Handlers, PostsIssue(h)
    PROVE  /\ handlers[h] \in Filing /\ handlers[h].pc = "post" /\ handlers[h].id \in 1 .. ids
           /\ \E number \in Nat, new \in Filing :
                  /\ handlers' = [handlers EXCEPT ![h] = new]
                  /\ new.pc = "record" /\ new.id = handlers[h].id /\ new.issue = {number}
                  /\ issues' = issues \cup {[request |-> handlers[h].id, number |-> number]}
           /\ UNCHANGED <<toolRequests, rationales, ids, dedupes, callsSpent, filedTwice>>
PROOF
<1>1. handlers[h] \in Filing /\ handlers[h].pc = "post" /\ handlers[h].id \in 1 .. ids
  BY HandlerKinds DEF RequestsOK, PostsIssue, IdsKnown
<1>2. PICK number \in Nat : number = Cardinality(issues) + 1
  BY FS_CardinalityType DEF RequestsOK
<1>3. PICK new : new = [handlers[h] EXCEPT !.pc = "record", !.issue = {number}]
  OBVIOUS
<1>4. new \in Filing /\ new.pc = "record" /\ new.id = handlers[h].id /\ new.issue = {number}
  BY <1>1, <1>3 DEF Filing
<1>5. handlers' = [handlers EXCEPT ![h] = new]
      /\ issues' = issues \cup {[request |-> handlers[h].id, number |-> number]}
  BY <1>2, <1>3 DEF PostsIssue
<1> QED BY <1>1, <1>4, <1>5 DEF PostsIssue

LEMMA CallsOK ==
    ASSUME RequestsOK, NEW h \in Handlers,
           \/ \E n \in ToolNames, analysis \in AnalysisRuns : AsksForTool(h, n, analysis) \/ DetectsGap(h, n, analysis)
           \/ FindsRequest(h) \/ ReadsForDedupe(h) \/ Accepts(h) \/ LooksBeforeFiling(h) \/ PostsIssue(h) \/ CallFails(h)
    PROVE  RequestsOK'
PROOF
<1>1. /\ issues \subseteq [request : Nat, number : Nat] /\ (\A x \in issues : x.request \in 1 .. ids) /\ IsFiniteSet(issues)
      /\ callsSpent \in [{"agents", "dedupes", "decisions", "patches", "filings"} -> Nat] /\ filedTwice \subseteq Nat
  BY DEF RequestsOK, RequestsTypeOK, IdsGiven
<1>2. /\ \A new \in Registering : new \in HandlerStates /\ new.pc \in {"find", "write"}
      /\ \A new \in Analysing \cup Accepting : new \in HandlerStates /\ new.pc \notin {"post", "record"}
      /\ \A new \in Filing : new \in HandlerStates /\ new.pc # "dedupe"
  BY DEF HandlerStates, Registering, Analysing, Accepting, Filing
<1>3. CASE \E n \in ToolNames, analysis \in AnalysisRuns : AsksForTool(h, n, analysis) \/ DetectsGap(h, n, analysis)
  <2>1. PICK n \in ToolNames, analysis \in AnalysisRuns : AsksForTool(h, n, analysis) \/ DetectsGap(h, n, analysis)
    BY <1>3
  <2>2. PICK new \in Registering : handlers' = [handlers EXCEPT ![h] = new]
    BY <2>1, CallRegisters
  <2>3. /\ callsSpent' \in [{"agents", "dedupes", "decisions", "patches", "filings"} -> Nat]
        /\ UNCHANGED <<toolRequests, rationales, issues, ids, dedupes, filedTwice>>
    BY <2>1, CallRegisters
  <2> QED BY <1>1, <1>2, <2>2, <2>3, OnlyCallGoesOn
<1>4. CASE FindsRequest(h)
  <2>1. PICK new \in Registering : handlers' = [handlers EXCEPT ![h] = new]
    BY <1>4, CallFinds
  <2>2. UNCHANGED <<toolRequests, rationales, issues, ids, dedupes, callsSpent, filedTwice>>
    BY <1>4, CallFinds
  <2> QED BY <1>1, <1>2, <2>1, <2>2, OnlyCallGoesOn
<1>5. CASE ReadsForDedupe(h) \/ Accepts(h)
  <2>1. PICK new \in Analysing \cup Accepting :
            handlers' = [handlers EXCEPT ![h] = new] /\ (new.pc = "dedupe" => 0 \notin new.ids)
    BY <1>5, CallReads
  <2>2. /\ callsSpent' \in [{"agents", "dedupes", "decisions", "patches", "filings"} -> Nat]
        /\ UNCHANGED <<toolRequests, rationales, issues, ids, dedupes, filedTwice>>
    BY <1>5, CallReads
  <2> QED BY <1>1, <1>2, <2>1, <2>2, OnlyCallGoesOn
<1>6. CASE LooksBeforeFiling(h)
  <2>1. PICK n \in Rows, new \in Filing :
            /\ handlers' = [handlers EXCEPT ![h] = new] /\ new.id = toolRequests[n].id
            /\ filedTwice' \subseteq filedTwice \cup {toolRequests[n].id}
    BY <1>6, CallLooks
  <2>2. /\ callsSpent' \in [{"agents", "dedupes", "decisions", "patches", "filings"} -> Nat]
        /\ UNCHANGED <<toolRequests, rationales, issues, ids, dedupes>>
    BY <1>6, CallLooks
  <2>3. toolRequests[n].id \in 1 .. ids /\ toolRequests[n].id \in Nat
    BY RowKinds DEF RequestsOK, IdsGiven, Rows
  <2>4. filedTwice' \subseteq Nat
    BY <1>1, <2>1, <2>3
  <2> QED BY <1>1, <1>2, <2>1, <2>2, <2>3, <2>4, OnlyCallGoesOn
<1>7. CASE PostsIssue(h)
  <2>1. PICK number \in Nat, new \in Filing :
            /\ handlers' = [handlers EXCEPT ![h] = new] /\ new.id = handlers[h].id
            /\ issues' = issues \cup {[request |-> handlers[h].id, number |-> number]}
    BY <1>7, CallPosts
  <2>2. handlers[h].id \in 1 .. ids /\ UNCHANGED <<toolRequests, rationales, ids, dedupes, callsSpent, filedTwice>>
    BY <1>7, CallPosts
  <2>3. PICK x \in [request : Nat, number : Nat] : x.request = handlers[h].id /\ issues' = issues \cup {x}
    <3>1. handlers[h].id \in Nat
      BY <1>7, CallPosts DEF Filing
    <3> QED BY <2>1, <3>1
  <2>4. issues' \subseteq [request : Nat, number : Nat] /\ \A y \in issues' : y.request \in 1 .. ids
    BY <1>1, <2>2, <2>3
  <2>5. IsFiniteSet(issues')
    BY <1>1, <2>3, FS_AddElement
  <2> QED BY <1>1, <1>2, <2>1, <2>2, <2>4, <2>5, OnlyCallGoesOn
<1>8. CASE CallFails(h)
  <2>1. /\ handlers' = [handlers EXCEPT ![h] = Idle]
        /\ UNCHANGED <<toolRequests, rationales, issues, ids, dedupes, callsSpent>>
        /\ filedTwice' = IF handlers[h].pc = "record" THEN filedTwice \cup {handlers[h].id} ELSE filedTwice
    BY <1>8 DEF CallFails, Ends
  <2>2. handlers[h].pc = "record" => handlers[h].id \in Nat
    BY HandlerKinds DEF RequestsOK, Filing
  <2>3. filedTwice' \subseteq Nat
    BY <1>1, <2>1, <2>2
  <2> QED BY <1>1, <2>1, <2>3, Apart, OnlyCallGoesOn
<1> QED BY <1>3, <1>4, <1>5, <1>6, <1>7, <1>8

LEMMA RequestsOKStep == RequestsOK /\ [RequestsNext]_requestVars => RequestsOK'
PROOF
<1> SUFFICES ASSUME RequestsOK, [RequestsNext]_requestVars PROVE RequestsOK'
  OBVIOUS
<1>1. /\ callsSpent \in [{"agents", "dedupes", "decisions", "patches", "filings"} -> Nat]
      /\ dedupes \in Nat /\ dedupes + 1 \in Nat /\ RequestsTypeOK
  BY DEF RequestsOK, RequestsTypeOK
<1>2. ASSUME NEW h \in Handlers,
             \/ \E n \in ToolNames, analysis \in AnalysisRuns : AsksForTool(h, n, analysis) \/ DetectsGap(h, n, analysis)
             \/ FindsRequest(h) \/ ReadsForDedupe(h) \/ Accepts(h) \/ LooksBeforeFiling(h) \/ PostsIssue(h) \/ CallFails(h)
      PROVE  RequestsOK'
  BY <1>2, CallsOK
<1>3. ASSUME NEW h \in Handlers, Registers(h)
      PROVE  RequestsOK'
  BY <1>3, RegistersOK
<1>4. ASSUME NEW h \in Handlers, WritesSuggestions(h) \/ Decides(h) \/ RecordsIssue(h)
      PROVE  RequestsOK'
  <2>1. RowsEdited
    BY <1>4, SuggestionsEdit, DecisionEdits, RecordEdits
  <2>2. /\ Ends(h) /\ dedupes' \in {dedupes, dedupes + 1}
        /\ UNCHANGED <<issues, ids, filedTwice, rationales, callsSpent>>
    BY <1>4 DEF WritesSuggestions, Decides, RecordsIssue
  <2> QED BY <1>1, <2>1, <2>2, RowsEditedOK
<1>5. ASSUME NEW n \in ToolNames, Dismisses(n) \/ Patches(n) \/ DeletesRequest(n)
      PROVE  RequestsOK'
  <2>1. RowsEdited
    BY <1>5, OperatorEdits, DeletionEdits
  <2>2. UNCHANGED <<issues, ids, dedupes, handlers, filedTwice>> /\ rationales' \subseteq rationales
    BY <1>5 DEF Dismisses, Patches, DeletesRequest
  <2>3. Called("decisions", MaxDecisions) \/ Called("patches", MaxPatches)
    BY <1>5 DEF Dismisses, Patches, DeletesRequest
  <2>4. callsSpent' \in [{"agents", "dedupes", "decisions", "patches", "filings"} -> Nat]
    BY <1>1, <2>3, CallCounted
  <2> QED BY <1>1, <2>1, <2>2, <2>4, RowsEditedOK
<1>6. CASE UNCHANGED requestVars
  <2>1. UNCHANGED <<toolRequests, rationales, issues, ids>> /\ UNCHANGED <<dedupes, handlers, callsSpent, filedTwice>>
    BY <1>6 DEF requestVars
  <2>2. RequestsTypeOK'
    BY <1>1, <2>1 DEF RequestsTypeOK
  <2>3. IdsGiven' /\ IdsKnown'
    BY <2>1 DEF RequestsOK, IdsGiven, IdsKnown, Rows
  <2> QED BY <2>1, <2>2, <2>3 DEF RequestsOK
<1> QED BY <1>2, <1>3, <1>4, <1>5, <1>6 DEF RequestsNext

-----------------------------------------------------------------------------
(* The count of a request is the number of its rationales: every call that *)
(* registers has a number of its own, so no rationale is taken for another. *)

IsRegistering(h) == handlers[h].pc \in {"find", "write"}

CallsNumbered ==
    /\ \A x \in rationales : x.number < callsSpent.agents
    /\ \A h \in Handlers : IsRegistering(h) =>
           handlers[h].number < callsSpent.agents /\ \A x \in rationales : x.number # handlers[h].number
    /\ \A h, g \in Handlers : IsRegistering(h) /\ IsRegistering(g) /\ handlers[h].number = handlers[g].number => h = g

RationalesOf(id) == {x \in rationales : x.request = id}
CountsKept == \A n \in Rows : toolRequests[n].requestCount = Cardinality(RationalesOf(toolRequests[n].id))

SuggestionsKept == \A n \in Rows : SuggestionsTold(toolRequests[n])

CountsInv == CallsNumbered /\ CountsKept /\ SuggestionsKept

LEMMA HandlersOtherwise ==
    ASSUME RequestsTypeOK, NEW h \in Handlers, NEW new, handlers' = [handlers EXCEPT ![h] = new]
    PROVE  \A g \in Handlers : handlers'[g] = IF g = h THEN new ELSE handlers[g]
PROOF
  BY DEF RequestsTypeOK

\* A call goes on: with a number that is new, with the one it has, or without one.
LEMMA CountsOfCall ==
    ASSUME RequestsOK, CountsInv, NEW h \in Handlers, NEW new \in HandlerStates, handlers' = [handlers EXCEPT ![h] = new],
           UNCHANGED <<toolRequests, rationales>>,
           callsSpent'.agents \in {callsSpent.agents, callsSpent.agents + 1},
           new.pc \in {"find", "write"} =>
               \/ new.number = callsSpent.agents /\ callsSpent'.agents = callsSpent.agents + 1
               \/ IsRegistering(h) /\ new.number = handlers[h].number
    PROVE  CountsInv'
PROOF
<1>1. callsSpent.agents \in Nat /\ RequestsTypeOK
  BY DEF RequestsOK, RequestsTypeOK
<1>2. \A g \in Handlers : handlers'[g] = IF g = h THEN new ELSE handlers[g]
  BY <1>1, HandlersOtherwise
<1>3. /\ \A x \in rationales : x.number \in Nat
      /\ \A g \in Handlers : IsRegistering(g) => handlers[g].number \in Nat
  BY <1>1, HandlerKinds DEF RequestsTypeOK, IsRegistering, Registering
<1>4. CallsNumbered'
  <2>1. \A x \in rationales' : x.number < callsSpent'.agents
    BY <1>1, <1>3 DEF CountsInv, CallsNumbered
  <2>2. \A g \in Handlers : IsRegistering(g)' =>
            handlers'[g].number < callsSpent'.agents /\ \A x \in rationales' : x.number # handlers'[g].number
    BY <1>1, <1>2, <1>3 DEF CountsInv, CallsNumbered, IsRegistering
  <2>3. \A g, k \in Handlers : IsRegistering(g)' /\ IsRegistering(k)' /\ handlers'[g].number = handlers'[k].number => g = k
    BY <1>1, <1>2, <1>3 DEF CountsInv, CallsNumbered, IsRegistering
  <2> QED BY <2>1, <2>2, <2>3 DEF CallsNumbered
<1>5. CountsKept' /\ SuggestionsKept'
  BY DEF CountsInv, CountsKept, SuggestionsKept, Rows, RationalesOf
<1> QED BY <1>4, <1>5 DEF CountsInv

\* The rows are edited, or one is deleted with its rationales.
LEMMA CountsOfEdit ==
    ASSUME RequestsOK, CountsInv, RowsEdited, UNCHANGED handlers \/ \E h \in Handlers : Ends(h),
           callsSpent'.agents = callsSpent.agents, rationales' \subseteq rationales,
           \A n \in ToolNames : toolRequests'[n] # NoRequest =>
               \A x \in rationales \ rationales' : x.request # toolRequests[n].id
    PROVE  CountsInv'
PROOF
<1>1. \A g \in Handlers : IsRegistering(g)' => handlers'[g] = handlers[g]
  <2>1. CASE UNCHANGED handlers
    BY <2>1
  <2>2. ASSUME NEW h \in Handlers, Ends(h)
        PROVE  \A g \in Handlers : IsRegistering(g)' => handlers'[g] = handlers[g]
    BY <2>2, HandlersOtherwise, Apart DEF RequestsOK, Ends, IsRegistering
  <2> QED BY <2>1, <2>2
<1>2. CallsNumbered'
  BY <1>1 DEF CountsInv, CallsNumbered, IsRegistering
<1>3. ASSUME NEW n \in Rows'
      PROVE  /\ toolRequests'[n].requestCount = Cardinality({x \in rationales' : x.request = toolRequests'[n].id})
             /\ SuggestionsTold(toolRequests'[n])
  <2>1. n \in Rows /\ Rewritten(toolRequests[n], toolRequests'[n])
    BY DEF Rows, RowsEdited
  <2>2. PICK id : id = toolRequests[n].id
    OBVIOUS
  <2>3. {x \in rationales' : x.request = id} = RationalesOf(id)
    BY <2>2 DEF RationalesOf, Rows
  <2> QED BY <2>1, <2>2, <2>3 DEF Rewritten, CountsInv, CountsKept, SuggestionsKept
<1>4. CountsKept' /\ SuggestionsKept'
  BY <1>3 DEF CountsKept, SuggestionsKept, RationalesOf
<1> QED BY <1>2, <1>4 DEF CountsInv

\* A registration has a rationale that was not there.
LEMMA CountsOfRegistration ==
    ASSUME RequestsOK, CountsInv, NEW h \in Handlers, Registers(h)
    PROVE  CountsInv'
PROOF
<1>1. PICK n \in ToolNames, row \in ToolRequest :
          /\ toolRequests' = [toolRequests EXCEPT ![n] = row]
          /\ rationales' = rationales \cup {[request |-> row.id, run |-> handlers[h].run,
                                             inline |-> handlers[h].inline, number |-> handlers[h].number]}
          /\ \/ n \notin Rows /\ row.id = ids + 1 /\ row.requestCount = 1 /\ SuggestionsTold(row)
             \/ /\ n \in Rows /\ row.id = toolRequests[n].id
                /\ row.requestCount = toolRequests[n].requestCount + 1
                /\ SuggestionsTold(toolRequests[n]) => SuggestionsTold(row)
  BY Registered
<1>2. PICK x : x = [request |-> row.id, run |-> handlers[h].run, inline |-> handlers[h].inline, number |-> handlers[h].number]
  OBVIOUS
<1>3. x.request = row.id /\ x.number = handlers[h].number /\ rationales' = rationales \cup {x}
  BY <1>1, <1>2
<1>4. IsRegistering(h) /\ x \notin rationales
  BY <1>3 DEF CountsInv, CallsNumbered, IsRegistering, Registers
<1>5. \A g \in Handlers : IsRegistering(g)' => g # h /\ IsRegistering(g) /\ handlers'[g] = handlers[g]
  <2>1. RequestsTypeOK /\ handlers' = [handlers EXCEPT ![h] = Idle]
    BY DEF RequestsOK, Registers, Ends
  <2>2. \A g \in Handlers : handlers'[g] = IF g = h THEN Idle ELSE handlers[g]
    BY <2>1, HandlersOtherwise
  <2> QED BY <2>2, Apart DEF IsRegistering
<1>6. CallsNumbered'
  <2>1. callsSpent' = callsSpent
    BY DEF Registers
  <2>2. \A y \in rationales' : y.number < callsSpent'.agents
    BY <1>3, <1>4, <2>1 DEF CountsInv, CallsNumbered
  <2>3. \A g \in Handlers : IsRegistering(g)' => handlers'[g].number # x.number
    BY <1>3, <1>4, <1>5 DEF CountsInv, CallsNumbered
  <2>4. \A g \in Handlers : IsRegistering(g)' =>
            handlers'[g].number < callsSpent'.agents /\ \A y \in rationales' : y.number # handlers'[g].number
    BY <1>3, <1>5, <2>1, <2>3 DEF CountsInv, CallsNumbered
  <2>5. \A g, k \in Handlers : IsRegistering(g)' /\ IsRegistering(k)' /\ handlers'[g].number = handlers'[k].number => g = k
    BY <1>5 DEF CountsInv, CallsNumbered
  <2> QED BY <2>2, <2>4, <2>5 DEF CallsNumbered
<1>7. \A m \in ToolNames : toolRequests'[m] = IF m = n THEN row ELSE toolRequests[m]
  BY <1>1 DEF RequestsOK, RequestsTypeOK
<1>8. \A m \in Rows : m # n => toolRequests[m].id # row.id
  <2>1. CASE n \in Rows
    BY <1>1, <2>1 DEF RequestsOK, IdsGiven
  <2>2. CASE n \notin Rows
    <3>1. row.id = ids + 1 /\ ids \in Nat
      BY <1>1, <2>2 DEF RequestsOK, RequestsTypeOK
    <3> QED BY <3>1 DEF RequestsOK, IdsGiven
  <2> QED BY <2>1, <2>2
<1>9. row.requestCount = Cardinality({y \in rationales' : y.request = row.id}) /\ SuggestionsTold(row)
  <2>1. PICK id : id = row.id
    OBVIOUS
  <2>2. {y \in rationales' : y.request = id} = RationalesOf(id) \cup {x} /\ x \notin RationalesOf(id)
    BY <1>3, <1>4, <2>1 DEF RationalesOf
  <2>3. IsFiniteSet(RationalesOf(id))
    BY FS_Subset DEF RequestsOK, RationalesOf
  <2>4. Cardinality({y \in rationales' : y.request = id}) = Cardinality(RationalesOf(id)) + 1
    BY <2>2, <2>3, FS_AddElement
  <2>5. CASE n \in Rows
    BY <1>1, <2>1, <2>4, <2>5 DEF CountsInv, CountsKept, SuggestionsKept
  <2>6. CASE n \notin Rows
    <3>1. row.id = ids + 1 /\ ids \in Nat /\ row.requestCount = 1 /\ SuggestionsTold(row)
      BY <1>1, <2>6 DEF RequestsOK, RequestsTypeOK
    <3>2. RationalesOf(id) = {}
      BY <2>1, <3>1 DEF RequestsOK, IdsGiven, RationalesOf
    <3>3. Cardinality(RationalesOf(id)) = 0
      BY <3>2, FS_EmptySet
    <3> QED BY <2>1, <2>4, <3>1, <3>3
  <2> QED BY <2>5, <2>6
<1>10. ASSUME NEW m \in Rows'
       PROVE  /\ toolRequests'[m].requestCount = Cardinality({y \in rationales' : y.request = toolRequests'[m].id})
              /\ SuggestionsTold(toolRequests'[m])
  <2>1. CASE m = n
    BY <1>7, <1>9, <2>1
  <2>2. CASE m # n
    <3>1. m \in Rows /\ toolRequests'[m] = toolRequests[m]
      BY <1>7, <2>2 DEF Rows
    <3>2. PICK id : id = toolRequests[m].id
      OBVIOUS
    <3>3. {y \in rationales' : y.request = id} = RationalesOf(id)
      BY <1>3, <1>8, <2>2, <3>1, <3>2 DEF RationalesOf
    <3> QED BY <3>1, <3>2, <3>3 DEF CountsInv, CountsKept, SuggestionsKept
  <2> QED BY <2>1, <2>2
<1>11. CountsKept' /\ SuggestionsKept'
  BY <1>10 DEF CountsKept, SuggestionsKept, RationalesOf
<1> QED BY <1>6, <1>11 DEF CountsInv

LEMMA CountsInvStep == RequestsOK /\ CountsInv /\ [RequestsNext]_requestVars => CountsInv'
PROOF
<1> SUFFICES ASSUME RequestsOK, CountsInv, [RequestsNext]_requestVars PROVE CountsInv'
  OBVIOUS
<1>1. RequestsTypeOK
  BY DEF RequestsOK
<1>2. /\ \A new \in Registering : new \in HandlerStates
      /\ \A new \in Analysing \cup Accepting \cup Filing : new \in HandlerStates /\ new.pc \notin {"find", "write"}
  BY DEF HandlerStates, Analysing, Accepting, Filing
<1>3. ASSUME NEW h \in Handlers, NEW n \in ToolNames, NEW analysis \in AnalysisRuns, AsksForTool(h, n, analysis) \/ DetectsGap(h, n, analysis)
      PROVE  CountsInv'
  <2>1. PICK new \in Registering : handlers' = [handlers EXCEPT ![h] = new] /\ new.number = callsSpent.agents
    BY <1>3, CallRegisters
  <2>2. callsSpent'.agents = callsSpent.agents + 1 /\ UNCHANGED <<toolRequests, rationales>>
    BY <1>3, CallRegisters
  <2> QED BY <1>2, <2>1, <2>2, CountsOfCall
<1>4. ASSUME NEW h \in Handlers, FindsRequest(h)
      PROVE  CountsInv'
  <2>1. PICK new \in Registering : handlers' = [handlers EXCEPT ![h] = new] /\ new.number = handlers[h].number
    BY <1>4, CallFinds
  <2>2. IsRegistering(h) /\ UNCHANGED <<toolRequests, rationales, callsSpent>>
    BY <1>4, CallFinds DEF IsRegistering
  <2> QED BY <1>2, <2>1, <2>2, CountsOfCall
<1>5. ASSUME NEW h \in Handlers, ReadsForDedupe(h) \/ Accepts(h) \/ LooksBeforeFiling(h) \/ PostsIssue(h) \/ CallFails(h)
      PROVE  CountsInv'
  <2>1. PICK new \in HandlerStates : handlers' = [handlers EXCEPT ![h] = new] /\ new.pc \notin {"find", "write"}
    <3>1. CASE ReadsForDedupe(h) \/ Accepts(h)
      BY <1>2, <3>1, CallReads
    <3>2. CASE LooksBeforeFiling(h)
      BY <1>2, <3>2, CallLooks
    <3>3. CASE PostsIssue(h)
      BY <1>2, <3>3, CallPosts
    <3>4. CASE CallFails(h)
      BY <3>4, Apart DEF CallFails, Ends
    <3> QED BY <1>5, <3>1, <3>2, <3>3, <3>4
  <2>2. callsSpent'.agents = callsSpent.agents /\ UNCHANGED <<toolRequests, rationales>>
    BY <1>5, CallReads, CallLooks DEF PostsIssue, CallFails
  <2> QED BY <2>1, <2>2, CountsOfCall
<1>6. ASSUME NEW h \in Handlers, Registers(h)
      PROVE  CountsInv'
  BY <1>6, CountsOfRegistration
<1>7. ASSUME NEW h \in Handlers, WritesSuggestions(h) \/ Decides(h) \/ RecordsIssue(h)
      PROVE  CountsInv'
  <2>1. RowsEdited
    BY <1>7, SuggestionsEdit, DecisionEdits, RecordEdits
  <2>2. Ends(h) /\ UNCHANGED <<rationales, callsSpent>>
    BY <1>7 DEF WritesSuggestions, Decides, RecordsIssue
  <2> QED BY <2>1, <2>2, CountsOfEdit
<1>8. ASSUME NEW n \in ToolNames, Dismisses(n) \/ Patches(n)
      PROVE  CountsInv'
  <2>1. RowsEdited
    BY <1>8, OperatorEdits
  <2>2. UNCHANGED <<rationales, handlers>> /\ (Called("decisions", MaxDecisions) \/ Called("patches", MaxPatches))
    BY <1>8 DEF Dismisses, Patches
  <2>3. callsSpent'.agents = callsSpent.agents
    BY <1>1, <2>2, CallCounted
  <2> QED BY <2>1, <2>2, <2>3, CountsOfEdit
<1>9. ASSUME NEW n \in ToolNames, DeletesRequest(n)
      PROVE  CountsInv'
  <2>1. RowsEdited /\ \A m \in ToolNames : toolRequests'[m] # NoRequest => toolRequests[m].id # toolRequests[n].id
    BY <1>9, DeletionEdits
  <2>2. UNCHANGED handlers /\ Called("patches", MaxPatches)
        /\ rationales' = {x \in rationales : x.request # toolRequests[n].id}
    BY <1>9 DEF DeletesRequest
  <2>3. callsSpent'.agents = callsSpent.agents
    BY <1>1, <2>2, CallCounted
  <2>4. \A m \in ToolNames : toolRequests'[m] # NoRequest =>
            \A x \in rationales \ rationales' : x.request # toolRequests[m].id
    BY <2>1, <2>2
  <2> QED BY <2>1, <2>2, <2>3, <2>4, CountsOfEdit
<1>10. CASE UNCHANGED requestVars
  <2>1. UNCHANGED <<toolRequests, rationales>> /\ UNCHANGED <<handlers, callsSpent>>
    BY <1>10 DEF requestVars
  <2> QED BY <2>1 DEF CountsInv, CallsNumbered, CountsKept, SuggestionsKept, Rows, RationalesOf, IsRegistering
<1> QED BY <1>3, <1>4, <1>5, <1>6, <1>7, <1>8, <1>9, <1>10 DEF RequestsNext

-----------------------------------------------------------------------------
(* The issue of a request, while no two calls file it at one time and no   *)
(* answer is lost: the call that files it is alone, and it knows the issue *)
(* from when it is posted until the row has it.                            *)

IsFiling(h) == handlers[h].pc \in {"post", "record"}

FiledOnce ==
    \A id \in (1 .. ids) \ filedTwice :
        /\ \A h, g \in FilesOf(id) : h = g
        /\ \A h \in FilesOf(id) : IF handlers[h].pc = "post" THEN IssuesOf(id) = {} ELSE handlers[h].issue = IssuesOf(id)
        /\ IssuesOf(id) = {} \/ \E k : IssuesOf(id) = {k}

IssueNamed ==
    \A n \in Rows : toolRequests[n].id \notin filedTwice =>
        \/ toolRequests[n].issue \in {IssuesOf(toolRequests[n].id), ByHand}
        \/ Unrecorded(toolRequests[n].id)

IssuesInv == FiledOnce /\ IssueNamed

\* What one id is about: the conjuncts of IssuesInv for it.
OnceFiled(id) ==
    /\ \A h, g \in FilesOf(id) : h = g
    /\ \A h \in FilesOf(id) : IF handlers[h].pc = "post" THEN IssuesOf(id) = {} ELSE handlers[h].issue = IssuesOf(id)
    /\ IssuesOf(id) = {} \/ \E k : IssuesOf(id) = {k}
Named(id, issue) == issue \in {IssuesOf(id), ByHand} \/ Unrecorded(id)

LEMMA IssuesById ==
    /\ IssuesInv <=> /\ \A id \in (1 .. ids) \ filedTwice : OnceFiled(id)
                     /\ \A n \in Rows : toolRequests[n].id \notin filedTwice => Named(toolRequests[n].id, toolRequests[n].issue)
    /\ IssuesInv' <=> /\ \A id \in (1 .. ids') \ filedTwice' : OnceFiled(id)'
                      /\ \A n \in Rows' : toolRequests'[n].id \notin filedTwice' =>
                             \/ toolRequests'[n].issue \in {{x.number : x \in {y \in issues' : y.request = toolRequests'[n].id}}, ByHand}
                             \/ \E h \in Handlers : handlers'[h].pc = "record" /\ handlers'[h].id = toolRequests'[n].id
PROOF
  BY DEF IssuesInv, FiledOnce, IssueNamed, OnceFiled, Named, IssuesOf, Unrecorded

\* A step at which no call begins to file or records.
LEMMA FilesStay ==
    ASSUME RequestsTypeOK, NEW h \in Handlers, NEW new, handlers' = [handlers EXCEPT ![h] = new],
           ~IsFiling(h), new.pc \notin {"post", "record"}, UNCHANGED issues, NEW id
    PROVE  /\ OnceFiled(id) => OnceFiled(id)'
           /\ IssuesOf(id)' = IssuesOf(id)
           /\ Unrecorded(id) => Unrecorded(id)'
PROOF
<1>1. \A g \in Handlers : handlers'[g] = IF g = h THEN new ELSE handlers[g]
  BY HandlersOtherwise
<1>2. FilesOf(id)' = FilesOf(id) /\ \A g \in FilesOf(id) : handlers'[g] = handlers[g]
  BY <1>1 DEF FilesOf, IsFiling
<1>3. IssuesOf(id)' = IssuesOf(id)
  BY DEF IssuesOf
<1>4. Unrecorded(id) => Unrecorded(id)'
  BY <1>1 DEF Unrecorded, IsFiling
<1> QED BY <1>2, <1>3, <1>4 DEF OnceFiled

\* Rows are edited or made, and no call goes on that files.
LEMMA IssuesAside ==
    ASSUME RequestsOK, IssuesInv, UNCHANGED <<issues, filedTwice>>, ids' \in {ids, ids + 1},
           \/ UNCHANGED handlers
           \/ \E h \in Handlers, new \in HandlerStates :
                  handlers' = [handlers EXCEPT ![h] = new] /\ ~IsFiling(h) /\ new.pc \notin {"post", "record"},
           \A n \in Rows' :
               \/ /\ n \in Rows /\ toolRequests'[n].id = toolRequests[n].id
                  /\ toolRequests'[n].issue \in {toolRequests[n].issue, ByHand}
               \/ toolRequests'[n].id = ids + 1 /\ toolRequests'[n].issue = Unlinked
    PROVE  IssuesInv'
PROOF
<1>1. ASSUME NEW id
      PROVE  /\ OnceFiled(id) => OnceFiled(id)'
             /\ IssuesOf(id)' = IssuesOf(id)
             /\ Unrecorded(id) => Unrecorded(id)'
  <2>1. CASE UNCHANGED handlers
    BY <2>1 DEF OnceFiled, FilesOf, IssuesOf, Unrecorded
  <2>2. ASSUME NEW h \in Handlers, NEW new \in HandlerStates,
               handlers' = [handlers EXCEPT ![h] = new], ~IsFiling(h), new.pc \notin {"post", "record"}
        PROVE  /\ OnceFiled(id) => OnceFiled(id)'
               /\ IssuesOf(id)' = IssuesOf(id)
               /\ Unrecorded(id) => Unrecorded(id)'
    BY <2>2, FilesStay DEF RequestsOK
  <2> QED BY <2>1, <2>2
<1>2. ids \in Nat
  BY DEF RequestsOK, RequestsTypeOK
<1>3. IssuesOf(ids + 1) = {} /\ FilesOf(ids + 1) = {}
  <2>1. \A x \in issues : x.request # ids + 1
    BY <1>2 DEF RequestsOK, IdsGiven
  <2>2. \A h \in Handlers : IsFiling(h) => handlers[h].id # ids + 1
    BY <1>2 DEF RequestsOK, IdsKnown, IsFiling
  <2> QED BY <2>1, <2>2 DEF IssuesOf, FilesOf, IsFiling
<1>4. OnceFiled(ids + 1)
  BY <1>3 DEF OnceFiled
<1>5. ASSUME NEW id \in (1 .. ids') \ filedTwice'
      PROVE  OnceFiled(id)'
  <2>1. OnceFiled(id)
    <3>1. id \in 1 .. ids \/ id = ids + 1
      BY <1>2
    <3> QED BY <1>4, <3>1, IssuesById
  <2> QED BY <1>1, <2>1
<1>6. ASSUME NEW n \in Rows', toolRequests'[n].id \notin filedTwice'
      PROVE  \/ toolRequests'[n].issue \in {{x.number : x \in {y \in issues' : y.request = toolRequests'[n].id}}, ByHand}
             \/ \E h \in Handlers : handlers'[h].pc = "record" /\ handlers'[h].id = toolRequests'[n].id
  <2>1. PICK id : id = toolRequests'[n].id
    OBVIOUS
  <2>2. PICK issue : issue = toolRequests'[n].issue
    OBVIOUS
  <2>3. issue \in {IssuesOf(id)', ByHand} \/ Unrecorded(id)'
    <3>1. CASE n \in Rows /\ id = toolRequests[n].id /\ issue \in {toolRequests[n].issue, ByHand}
      <4>1. Named(id, toolRequests[n].issue)
        BY <1>6, <2>1, <3>1, IssuesById
      <4> QED BY <1>1, <3>1, <4>1 DEF Named
    <3>2. CASE id = ids + 1 /\ issue = Unlinked
      BY <1>1, <1>3, <3>2 DEF Unlinked
    <3> QED BY <2>1, <2>2, <3>1, <3>2
  <2> QED BY <2>1, <2>2, <2>3 DEF IssuesOf, Unrecorded
<1> QED BY <1>5, <1>6, IssuesById

\* Filing: a row that is there, at a step of the call that files it.
LEMMA LookIssues ==
    ASSUME RequestsOK, IssuesInv, NEW h \in Handlers, LooksBeforeFiling(h)
    PROVE  IssuesInv'
PROOF
<1>1. PICK n \in Rows, new \in Filing :
          /\ handlers' = [handlers EXCEPT ![h] = new]
          /\ new.pc = "post" /\ new.id = toolRequests[n].id /\ toolRequests[n].issue = Unlinked
          /\ filedTwice' = IF FilesOf(toolRequests[n].id) = {} THEN filedTwice ELSE filedTwice \cup {toolRequests[n].id}
  BY CallLooks
<1>2. UNCHANGED <<toolRequests, issues, ids>> /\ handlers[h].pc = "idle" /\ RequestsTypeOK
  BY CallLooks DEF RequestsOK
<1>3. PICK i : i = toolRequests[n].id
  OBVIOUS
<1>4. \A g \in Handlers : handlers'[g] = IF g = h THEN new ELSE handlers[g]
  BY <1>1, <1>2, HandlersOtherwise
<1>5. \A id : IssuesOf(id)' = IssuesOf(id) /\ (Unrecorded(id) => Unrecorded(id)')
  BY <1>2, <1>4 DEF IssuesOf, Unrecorded
<1>6. \A id : id \notin filedTwice' => id \notin filedTwice /\ (id = i => FilesOf(id) = {})
  BY <1>1, <1>3
<1>7. ASSUME NEW id \in (1 .. ids') \ filedTwice'
      PROVE  OnceFiled(id)'
  <2>1. OnceFiled(id) /\ id \notin filedTwice
    BY <1>2, <1>6, IssuesById
  <2>2. CASE id # i
    <3>1. FilesOf(id)' = FilesOf(id) /\ \A g \in FilesOf(id) : handlers'[g] = handlers[g]
      BY <1>1, <1>2, <1>3, <1>4, <2>2 DEF FilesOf
    <3> QED BY <1>5, <2>1, <3>1 DEF OnceFiled
  <2>3. CASE id = i
    <3>1. FilesOf(id) = {}
      BY <1>6, <2>3
    <3>2. FilesOf(id)' = {h} /\ handlers'[h].pc = "post"
      BY <1>1, <1>3, <1>4, <2>3, <3>1 DEF FilesOf
    <3>3. IssuesOf(id) = {}
      <4>1. Named(id, Unlinked)
        BY <1>1, <1>3, <2>1, <2>3, IssuesById
      <4>2. ~Unrecorded(id)
        BY <3>1 DEF FilesOf, Unrecorded
      <4> QED BY <4>1, <4>2 DEF Named, ByHand, Unlinked
    <3> QED BY <1>5, <3>2, <3>3 DEF OnceFiled
  <2> QED BY <2>2, <2>3
<1>8. ASSUME NEW m \in Rows', toolRequests'[m].id \notin filedTwice'
      PROVE  \/ toolRequests'[m].issue \in {{x.number : x \in {y \in issues' : y.request = toolRequests'[m].id}}, ByHand}
             \/ \E g \in Handlers : handlers'[g].pc = "record" /\ handlers'[g].id = toolRequests'[m].id
  <2>1. PICK id : id = toolRequests[m].id
    OBVIOUS
  <2>2. m \in Rows /\ toolRequests'[m] = toolRequests[m] /\ id \notin filedTwice
    BY <1>2, <1>6, <1>8, <2>1 DEF Rows
  <2>3. Named(id, toolRequests[m].issue)
    BY <2>1, <2>2, IssuesById
  <2>4. toolRequests[m].issue \in {IssuesOf(id)', ByHand} \/ Unrecorded(id)'
    BY <1>5, <2>3 DEF Named
  <2> QED BY <2>1, <2>2, <2>4 DEF IssuesOf, Unrecorded
<1> QED BY <1>7, <1>8, IssuesById

LEMMA PostIssues ==
    ASSUME RequestsOK, IssuesInv, NEW h \in Handlers, PostsIssue(h)
    PROVE  IssuesInv'
PROOF
<1>1. PICK number \in Nat, new \in Filing :
          /\ handlers' = [handlers EXCEPT ![h] = new]
          /\ new.pc = "record" /\ new.id = handlers[h].id /\ new.issue = {number}
          /\ issues' = issues \cup {[request |-> handlers[h].id, number |-> number]}
  BY CallPosts
<1>2. UNCHANGED <<toolRequests, ids, filedTwice>> /\ handlers[h].pc = "post" /\ RequestsTypeOK
  BY CallPosts DEF RequestsOK
<1>3. PICK i : i = handlers[h].id
  OBVIOUS
<1>4. \A g \in Handlers : handlers'[g] = IF g = h THEN new ELSE handlers[g]
  BY <1>1, <1>2, HandlersOtherwise
<1>5. PICK x : x = [request |-> i, number |-> number]
  OBVIOUS
<1>6. x.request = i /\ x.number = number /\ issues' = issues \cup {x}
  BY <1>1, <1>3, <1>5
<1>7. \A id : /\ id # i => IssuesOf(id)' = IssuesOf(id)
              /\ id = i => IssuesOf(id)' = IssuesOf(id) \cup {number}
              /\ Unrecorded(id) => Unrecorded(id)'
              /\ FilesOf(id)' = FilesOf(id)
  BY <1>1, <1>2, <1>3, <1>4, <1>6 DEF IssuesOf, Unrecorded, FilesOf
<1>8. ASSUME NEW id \in (1 .. ids') \ filedTwice'
      PROVE  OnceFiled(id)'
  <2>1. OnceFiled(id)
    BY <1>2, IssuesById
  <2>2. CASE id # i
    <3>1. \A g \in FilesOf(id) : handlers'[g] = handlers[g]
      BY <1>3, <1>4, <2>2 DEF FilesOf
    <3> QED BY <1>7, <2>1, <2>2, <3>1 DEF OnceFiled
  <2>3. CASE id = i
    <3>1. h \in FilesOf(id)
      BY <1>2, <1>3, <2>3 DEF FilesOf
    <3>2. IssuesOf(id) = {} /\ \A g \in FilesOf(id) : g = h
      BY <1>2, <2>1, <3>1 DEF OnceFiled
    <3>3. IssuesOf(id)' = {number}
      BY <1>7, <2>3, <3>2
    <3>4. handlers'[h].pc = "record" /\ handlers'[h].issue = {number}
      BY <1>1, <1>4
    <3> QED BY <1>7, <3>2, <3>3, <3>4 DEF OnceFiled
  <2> QED BY <2>2, <2>3
<1>9. ASSUME NEW m \in Rows', toolRequests'[m].id \notin filedTwice'
      PROVE  \/ toolRequests'[m].issue \in {{y.number : y \in {z \in issues' : z.request = toolRequests'[m].id}}, ByHand}
             \/ \E g \in Handlers : handlers'[g].pc = "record" /\ handlers'[g].id = toolRequests'[m].id
  <2>1. PICK id : id = toolRequests[m].id
    OBVIOUS
  <2>2. m \in Rows /\ toolRequests'[m] = toolRequests[m] /\ id \notin filedTwice
    BY <1>2, <1>9, <2>1 DEF Rows
  <2>3. Named(id, toolRequests[m].issue)
    BY <2>1, <2>2, IssuesById
  <2>4. toolRequests[m].issue \in {IssuesOf(id)', ByHand} \/ Unrecorded(id)'
    <3>1. CASE id = i
      BY <1>1, <1>3, <1>4, <3>1 DEF Unrecorded
    <3>2. CASE id # i
      BY <1>7, <2>3, <3>2 DEF Named
    <3> QED BY <3>1, <3>2
  <2> QED BY <2>1, <2>2, <2>4 DEF IssuesOf, Unrecorded
<1> QED BY <1>8, <1>9, IssuesById

\* The call that has posted an issue records it, or fails; one that has posted
\* none fails.
LEMMA FilingEnds ==
    ASSUME RequestsOK, IssuesInv, NEW h \in Handlers, IsFiling(h), RecordsIssue(h) \/ CallFails(h)
    PROVE  IssuesInv'
PROOF
<1>1. RequestsTypeOK /\ handlers' = [handlers EXCEPT ![h] = Idle] /\ UNCHANGED <<issues, ids>>
  BY DEF RequestsOK, RecordsIssue, CallFails, Ends
<1>2. PICK i : i = handlers[h].id
  OBVIOUS
<1>3. filedTwice \subseteq filedTwice' /\ (CallFails(h) /\ handlers[h].pc = "record" => i \in filedTwice')
  BY <1>2 DEF RecordsIssue, CallFails
<1>4. \A g \in Handlers : handlers'[g] = IF g = h THEN Idle ELSE handlers[g]
  BY <1>1, HandlersOtherwise
<1>5. ASSUME NEW id
      PROVE  /\ IssuesOf(id)' = IssuesOf(id)
             /\ FilesOf(id)' = FilesOf(id) \ {h} /\ \A g \in FilesOf(id)' : handlers'[g] = handlers[g]
             /\ id # i \/ handlers[h].pc # "record" => (Unrecorded(id) => Unrecorded(id)')
  BY <1>1, <1>2, <1>4, Apart DEF IssuesOf, FilesOf, Unrecorded
<1>6. ASSUME NEW id \in (1 .. ids') \ filedTwice'
      PROVE  OnceFiled(id)'
  <2>1. OnceFiled(id)
    BY <1>1, <1>3, IssuesById
  <2> QED BY <1>5, <2>1 DEF OnceFiled
<1>7. ASSUME NEW m \in Rows', toolRequests'[m].id \notin filedTwice'
      PROVE  \/ toolRequests'[m].issue \in {{y.number : y \in {z \in issues' : z.request = toolRequests'[m].id}}, ByHand}
             \/ \E g \in Handlers : handlers'[g].pc = "record" /\ handlers'[g].id = toolRequests'[m].id
  <2>1. PICK id : id = toolRequests[m].id
    OBVIOUS
  <2>2. PICK issue : issue = toolRequests'[m].issue
    OBVIOUS
  <2>3. m \in Rows /\ toolRequests'[m].id = id
        /\ issue = IF RecordsIssue(h) /\ id = i THEN handlers[h].issue ELSE toolRequests[m].issue
    <3>1. CASE RecordsIssue(h)
      <4>1. RowsEdited /\ \A n \in ToolNames : toolRequests'[n] # NoRequest =>
                toolRequests'[n].issue = IF toolRequests[n].id = handlers[h].id THEN handlers[h].issue ELSE toolRequests[n].issue
        BY <3>1, RecordEdits
      <4>2. m \in ToolNames /\ toolRequests'[m] # NoRequest
        BY DEF Rows
      <4>3. m \in Rows /\ toolRequests'[m].id = id
        BY <2>1, <4>1, <4>2 DEF RowsEdited, Rewritten
      <4> QED BY <1>2, <2>1, <2>2, <3>1, <4>1, <4>2, <4>3
    <3>2. CASE CallFails(h)
      <4>1. UNCHANGED toolRequests
        BY <3>2 DEF CallFails
      <4>2. ~RecordsIssue(h) \/ handlers[h].pc = "record"
        BY DEF RecordsIssue
      <4>3. RecordsIssue(h) /\ id = i => FALSE
        BY <1>3, <1>7, <2>1, <3>2, <4>1, <4>2
      <4> QED BY <2>1, <2>2, <4>1, <4>3 DEF Rows
    <3> QED BY <3>1, <3>2
  <2>4. id \notin filedTwice /\ id \in 1 .. ids
    BY <1>3, <1>7, <2>1, <2>3 DEF RequestsOK, IdsGiven
  <2>5. Named(id, toolRequests[m].issue) /\ OnceFiled(id)
    BY <2>1, <2>3, <2>4, IssuesById
  <2>6. issue \in {IssuesOf(id)', ByHand} \/ Unrecorded(id)'
    <3>1. CASE RecordsIssue(h) /\ id = i
      <4>1. h \in FilesOf(id) /\ handlers[h].pc = "record"
        BY <1>2, <3>1 DEF FilesOf, RecordsIssue
      <4>2. issue = IssuesOf(id)
        BY <2>3, <2>5, <3>1, <4>1 DEF OnceFiled
      <4> QED BY <1>5, <4>2
    <3>2. CASE ~(RecordsIssue(h) /\ id = i)
      <4>1. issue = toolRequests[m].issue
        BY <2>3, <3>2
      <4>2. id # i \/ handlers[h].pc # "record"
        BY <1>3, <1>7, <2>3, <3>2
      <4> QED BY <1>5, <2>5, <4>1, <4>2 DEF Named
    <3> QED BY <3>1, <3>2
  <2> QED BY <2>2, <2>3, <2>6 DEF IssuesOf, Unrecorded
<1> QED BY <1>6, <1>7, IssuesById

LEMMA IssuesInvStep == RequestsOK /\ IssuesInv /\ [RequestsNext]_requestVars => IssuesInv'
PROOF
<1> SUFFICES ASSUME RequestsOK, IssuesInv, [RequestsNext]_requestVars PROVE IssuesInv'
  OBVIOUS
<1>1. RequestsTypeOK
  BY DEF RequestsOK
<1>2. /\ \A new \in Registering \cup Analysing \cup Accepting : new \in HandlerStates /\ new.pc \notin {"post", "record"}
      /\ Idle \in HandlerStates /\ Idle.pc \notin {"post", "record"}
  BY DEF HandlerStates, Registering, Analysing, Accepting, Idle
<1>3. ASSUME NEW h \in Handlers, NEW new \in HandlerStates, handlers' = [handlers EXCEPT ![h] = new],
             ~IsFiling(h), new.pc \notin {"post", "record"}, UNCHANGED <<toolRequests, issues, ids, filedTwice>>
      PROVE  IssuesInv'
  BY <1>3, IssuesAside DEF Rows
<1>4. ASSUME NEW h \in Handlers, NEW n \in ToolNames, NEW analysis \in AnalysisRuns, AsksForTool(h, n, analysis) \/ DetectsGap(h, n, analysis)
      PROVE  IssuesInv'
  <2>1. PICK new \in Registering : handlers' = [handlers EXCEPT ![h] = new]
    BY <1>4, CallRegisters
  <2>2. ~IsFiling(h)
    <3>1. handlers[h] = Idle
      BY <1>4 DEF AsksForTool, DetectsGap, Begins
    <3> QED BY <3>1, Apart DEF IsFiling
  <2>3. UNCHANGED <<toolRequests, issues, ids, filedTwice>>
    BY <1>4, CallRegisters
  <2> QED BY <1>2, <1>3, <2>1, <2>2, <2>3
<1>5. ASSUME NEW h \in Handlers, FindsRequest(h)
      PROVE  IssuesInv'
  <2>1. PICK new \in Registering : handlers' = [handlers EXCEPT ![h] = new]
    BY <1>5, CallFinds
  <2>2. ~IsFiling(h) /\ UNCHANGED <<toolRequests, issues, ids, filedTwice>>
    BY <1>5, CallFinds DEF IsFiling
  <2> QED BY <1>2, <1>3, <2>1, <2>2
<1>6. ASSUME NEW h \in Handlers, ReadsForDedupe(h) \/ Accepts(h)
      PROVE  IssuesInv'
  <2>1. PICK new \in Analysing \cup Accepting : handlers' = [handlers EXCEPT ![h] = new]
    BY <1>6, CallReads
  <2>2. ~IsFiling(h) /\ UNCHANGED <<toolRequests, issues, ids, filedTwice>>
    BY <1>6, CallReads DEF IsFiling
  <2> QED BY <1>2, <1>3, <2>1, <2>2
<1>7. ASSUME NEW h \in Handlers, LooksBeforeFiling(h) \/ PostsIssue(h) \/ RecordsIssue(h) \/ CallFails(h)
      PROVE  IssuesInv'
  <2>1. CASE IsFiling(h) /\ (RecordsIssue(h) \/ CallFails(h))
    BY <2>1, FilingEnds
  <2>2. CASE ~IsFiling(h) /\ CallFails(h)
    <3>1. handlers' = [handlers EXCEPT ![h] = Idle] /\ UNCHANGED <<toolRequests, issues, ids, filedTwice>>
      BY <2>2 DEF CallFails, Ends, IsFiling
    <3> QED BY <1>2, <1>3, <2>2, <3>1
  <2>3. RecordsIssue(h) => IsFiling(h)
    BY DEF RecordsIssue, IsFiling
  <2> QED BY <1>7, <2>1, <2>2, <2>3, LookIssues, PostIssues
<1>8. ASSUME NEW h \in Handlers, Registers(h)
      PROVE  IssuesInv'
  <2>1. PICK n \in ToolNames, row \in ToolRequest :
            /\ toolRequests' = [toolRequests EXCEPT ![n] = row]
            /\ \/ n \notin Rows /\ ids' = ids + 1 /\ row.id = ids + 1 /\ row.issue = Unlinked
               \/ n \in Rows /\ ids' = ids /\ row.id = toolRequests[n].id /\ row.issue = toolRequests[n].issue
    BY <1>8, Registered
  <2>2. \A m \in ToolNames : toolRequests'[m] = IF m = n THEN row ELSE toolRequests[m]
    BY <1>1, <2>1 DEF RequestsTypeOK
  <2>3. \A m \in Rows' :
            \/ /\ m \in Rows /\ toolRequests'[m].id = toolRequests[m].id
               /\ toolRequests'[m].issue \in {toolRequests[m].issue, ByHand}
            \/ toolRequests'[m].id = ids + 1 /\ toolRequests'[m].issue = Unlinked
    BY <2>1, <2>2 DEF Rows
  <2>4. ~IsFiling(h) /\ handlers' = [handlers EXCEPT ![h] = Idle] /\ UNCHANGED <<issues, filedTwice>>
    BY <1>8 DEF Registers, Ends, IsFiling
  <2>5. ids' \in {ids, ids + 1}
    BY <2>1
  <2> QED BY <1>2, <2>3, <2>4, <2>5, IssuesAside
<1>9. ASSUME NEW h \in Handlers, WritesSuggestions(h) \/ Decides(h)
      PROVE  IssuesInv'
  <2>1. RowsEdited /\ IssuesKept
    BY <1>9, SuggestionsEdit, DecisionEdits
  <2>2. ~IsFiling(h) /\ handlers' = [handlers EXCEPT ![h] = Idle] /\ UNCHANGED <<issues, ids, filedTwice>>
    BY <1>9 DEF WritesSuggestions, Decides, Ends, IsFiling
  <2>3. \A m \in Rows' : /\ m \in Rows /\ toolRequests'[m].id = toolRequests[m].id
                         /\ toolRequests'[m].issue \in {toolRequests[m].issue, ByHand}
    BY <2>1 DEF RowsEdited, IssuesKept, Rewritten, Rows
  <2> QED BY <1>2, <2>2, <2>3, IssuesAside
<1>10. ASSUME NEW n \in ToolNames, Dismisses(n) \/ Patches(n) \/ DeletesRequest(n)
       PROVE  IssuesInv'
  <2>1. RowsEdited /\ IssuesKept
    BY <1>10, OperatorEdits, DeletionEdits
  <2>2. UNCHANGED <<issues, ids, filedTwice, handlers>>
    BY <1>10 DEF Dismisses, Patches, DeletesRequest
  <2>3. \A m \in Rows' : /\ m \in Rows /\ toolRequests'[m].id = toolRequests[m].id
                         /\ toolRequests'[m].issue \in {toolRequests[m].issue, ByHand}
    BY <2>1 DEF RowsEdited, IssuesKept, Rewritten, Rows
  <2> QED BY <2>2, <2>3, IssuesAside
<1>11. CASE UNCHANGED requestVars
  <2>1. UNCHANGED <<toolRequests, issues, ids>> /\ UNCHANGED <<handlers, filedTwice>>
    BY <1>11 DEF requestVars
  <2> QED BY <2>1, IssuesAside DEF Rows
<1> QED BY <1>4, <1>5, <1>6, <1>7, <1>8, <1>9, <1>10, <1>11 DEF RequestsNext

\* What the row of a request says of its rationales, its suggestions and its issue
\* is so, for any tools, runs and calls that overlap, any decisions, deletions and
\* failures, with the exceptions about GitHub that RowsTellTheTruth names
\* (registerToolRequest, runToolRequestDedupe, the routes of tool requests).
THEOREM RowsAreTrue == RequestsSpec => []RowsTellTheTruth
PROOF
<1>1. RequestsInit => RequestsOK /\ CountsInv /\ IssuesInv
  <2> SUFFICES ASSUME RequestsInit PROVE CountsInv /\ IssuesInv
    BY RequestsOKInit
  <2>1. Rows = {} /\ (\A h \in Handlers : handlers[h].pc = "idle") /\ ids = 0 /\ rationales = {}
    BY DEF RequestsInit, Rows, Idle
  <2>2. CountsInv
    BY <2>1 DEF CountsInv, CallsNumbered, CountsKept, SuggestionsKept, IsRegistering
  <2>3. IssuesInv
    BY <2>1 DEF IssuesInv, FiledOnce, IssueNamed
  <2> QED BY <2>2, <2>3
<1>2. RequestsOK /\ CountsInv /\ IssuesInv => RowsTellTheTruth
  <2> SUFFICES ASSUME RequestsOK, CountsInv, IssuesInv, NEW n \in Rows, NEW row, row = toolRequests[n]
               PROVE  /\ row.requestCount = Cardinality({x \in rationales : x.request = row.id})
                      /\ {row.suggestedDuplicate.by, row.suggestedImproves} \subseteq {0, row.analysed}
                      /\ row.id \notin filedTwice =>
                             /\ Cardinality(IssuesOf(row.id)) <= 1
                             /\ row.issue \in {IssuesOf(row.id), ByHand} \/ Unrecorded(row.id)
    BY DEF RowsTellTheTruth
  <2>1. row.requestCount = Cardinality({x \in rationales : x.request = row.id})
    BY DEF CountsInv, CountsKept, RationalesOf
  <2>2. {row.suggestedDuplicate.by, row.suggestedImproves} \subseteq {0, row.analysed}
    BY DEF CountsInv, SuggestionsKept, SuggestionsTold
  <2>3. row.id \notin filedTwice => IssuesOf(row.id) = {} \/ \E k : IssuesOf(row.id) = {k}
    BY DEF RequestsOK, IdsGiven, IssuesInv, FiledOnce
  <2>4. row.id \notin filedTwice => Cardinality(IssuesOf(row.id)) <= 1
    <3>1. ASSUME NEW S, S = {} \/ \E k : S = {k}
          PROVE  Cardinality(S) <= 1
      <4>1. CASE S = {}
        <5>1. Cardinality(S) = 0
          BY <4>1, FS_EmptySet
        <5> QED BY <5>1
      <4>2. CASE \E k : S = {k}
        <5>1. Cardinality(S) = 1
          BY <4>2, FS_Singleton
        <5> QED BY <5>1
      <4> QED BY <3>1, <4>1, <4>2
    <3> QED BY <2>3, <3>1
  <2>5. row.id \notin filedTwice => row.issue \in {IssuesOf(row.id), ByHand} \/ Unrecorded(row.id)
    BY DEF IssuesInv, IssueNamed
  <2> QED BY <2>1, <2>2, <2>4, <2>5
<1> QED BY <1>1, <1>2, RequestsOKStep, CountsInvStep, IssuesInvStep, PTL DEF RequestsSpec

\* Rows, rationales, issues and calls keep their types.
THEOREM RequestTypes == RequestsSpec => []RequestsTypeOK
PROOF
<1>1. RequestsOK => RequestsTypeOK
  BY DEF RequestsOK
<1> QED BY <1>1, RequestsOKInit, RequestsOKStep, PTL DEF RequestsSpec

=============================================================================
