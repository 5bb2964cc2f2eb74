-------------------------------- MODULE Invoices --------------------------------
(***************************************************************************)
(* Invoices of one client.  A daily check of the scheduler makes those of  *)
(* the periods that have ended; operators make others and delete some.     *)
(* Every invoice has a number of its own and a file whose name is the      *)
(* number.  The check and the routes draw numbers, write files and create  *)
(* rows in separate steps, in one directory.                               *)
(*                                                                         *)
(* Days are counted from 0; [from, to) are the days of a period.  Monthly  *)
(* billing, amounts and the status of an invoice are left out.             *)
(***************************************************************************)
EXTENDS Naturals, FiniteSetsExt

CONSTANTS
    Horizon,       \* bound on the days
    PeriodDays,    \* of weekly and biweekly billing
    MonthStarts,   \* the days on which a month begins
    Generations,   \* requests of operators for an invoice
    Deletions,     \* requests of operators to delete one
    check,         \* the check of the scheduler
    MaxPerRun,     \* invoices the check makes in one go (12)
    MaxRedraws     \* attempts after the first (3)

ASSUME InvoicesAssumption ==
    /\ Horizon \in Nat /\ PeriodDays \in Nat \ {0} /\ MaxPerRun \in Nat /\ MaxRedraws \in Nat
    /\ MonthStarts \subseteq Nat /\ 0 \in MonthStarts
    /\ check \notin Generations

Makers == Generations \cup {check}
Days == 0 .. Horizon

VARIABLES
    today, usage,   \* the days on which the client used the AI
    invoices, files,
    maker,          \* of each maker: where it is, the period and the number it has
    cursor,         \* of the check: the end of the last period it has dealt with
    checked,        \* the check has begun today
    deletion,       \* of each: the steps done, and the row it has found
    contested       \* history: numbers that two had at the same time

invoiceVars == <<today, usage, invoices, files, maker, cursor, checked, deletion, contested>>

NoRow == [number |-> 0, from |-> 0, to |-> 0, auto |-> FALSE]
Resting == [pc |-> "idle", from |-> 0, to |-> 0, number |-> 0, attempt |-> 0, made |-> 0]
NoEnd == [none |-> TRUE]

InvoicesInit ==
    /\ today = 0 /\ usage \in SUBSET Days
    /\ invoices = {} /\ files = {}
    /\ maker = [m \in Makers |-> Resting]
    /\ cursor = NoEnd /\ checked = FALSE
    /\ deletion = [d \in Deletions |-> [step |-> 0, row |-> NoRow]]
    /\ contested = {}

-----------------------------------------------------------------------------
(* The check of the scheduler *)

Seed == IF invoices = {} THEN NoEnd ELSE [day |-> Max({r.to : r \in invoices})]

CheckBegins ==
    /\ maker[check].pc = "idle" /\ ~checked
    /\ checked' = TRUE
    /\ cursor' = Seed
    /\ maker' = [maker EXCEPT ![check].pc = "period", ![check].made = 0]
    /\ UNCHANGED <<today, usage, invoices, files, deletion, contested>>

\* Without an invoice the first period starts with the month.
MonthStart(day) == Max({d \in MonthStarts : d <= day})
NextPeriodEnd == (IF cursor = NoEnd THEN MonthStart(today) ELSE cursor.day) + PeriodDays
PeriodStart == IF cursor = NoEnd THEN MonthStart(NextPeriodEnd) ELSE cursor.day

Used(from, to) == \E d \in usage : from <= d /\ d < to /\ d < today

HasEnded ==
    maker[check].made < MaxPerRun /\ NextPeriodEnd <= today /\ PeriodStart < NextPeriodEnd

\* The next period has ended and is billed, or has ended without usage and is
\* passed over, or has not ended.
LooksAtPeriod ==
    /\ maker[check].pc = "period"
    /\ \/ /\ HasEnded
          /\ \/ /\ Used(PeriodStart, NextPeriodEnd)
                /\ maker' = [maker EXCEPT ![check] = [pc |-> "number", from |-> PeriodStart, to |-> NextPeriodEnd,
                                                    number |-> 0, attempt |-> 0, made |-> @.made]]
                /\ UNCHANGED cursor
             \/ /\ ~Used(PeriodStart, NextPeriodEnd)
                /\ cursor' = [day |-> NextPeriodEnd]
                /\ UNCHANGED maker
       \/ /\ ~HasEnded
          /\ maker' = [maker EXCEPT ![check] = Resting]
          /\ UNCHANGED cursor
    /\ UNCHANGED <<today, usage, invoices, files, checked, deletion, contested>>

\* A restart forgets the check, and begins another.
RestartsScheduler ==
    /\ maker[check].pc # "idle"
    /\ maker' = [maker EXCEPT ![check] = Resting]
    /\ checked' = FALSE
    /\ UNCHANGED <<today, usage, invoices, files, cursor, deletion, contested>>

-----------------------------------------------------------------------------
(* Operators' requests, and what they have in common with the check *)

\* Each generation is one request; a period without usage is refused.
Generates(m) ==
    /\ m \in Generations /\ maker[m].pc = "idle"
    /\ \E from \in Days, to \in Days :
           /\ from < to /\ Used(from, to)
           /\ maker' = [maker EXCEPT ![m].pc = "number", ![m].from = from, ![m].to = to]
    /\ UNCHANGED <<today, usage, invoices, files, cursor, checked, deletion, contested>>

\* Variant: the first invoice gets no number.
NextInvoiceNumberOrNone == IF invoices = {} THEN 0 ELSE Max({r.number : r \in invoices}) + 1

NextInvoiceNumber == Max({r.number : r \in invoices} \cup {0}) + 1

\* Another maker has the number, or a deletion holds a row that was deleted by
\* somebody else and had it.
HeldElsewhere(m, number) ==
    \/ \E o \in Makers \ {m} : maker[o].pc \in {"write", "create"} /\ maker[o].number = number
    \/ \E d \in Deletions :
           deletion[d].step = 1 /\ deletion[d].row.number = number /\ deletion[d].row \notin invoices

DrawsNumber(m) ==
    /\ maker[m].pc = "number"
    /\ maker' = [maker EXCEPT ![m].pc = "write", ![m].number = NextInvoiceNumber]
    /\ contested' = contested \cup {n \in {NextInvoiceNumber} : HeldElsewhere(m, n)}
    /\ UNCHANGED <<today, usage, invoices, files, cursor, checked, deletion>>

WritesFile(m) ==
    /\ maker[m].pc = "write"
    /\ files' = files \cup {maker[m].number}
    /\ maker' = [maker EXCEPT ![m].pc = "create"]
    /\ UNCHANGED <<today, usage, invoices, cursor, checked, deletion, contested>>

Taken(number) == \E r \in invoices : r.number = number

AfterCreation(m) ==
    IF m = check THEN [maker[m] EXCEPT !.pc = "period", !.made = @ + 1] ELSE [maker[m] EXCEPT !.pc = "done"]

\* Variant: the cursor stays where it was.
CreatesRowOnly(m) ==
    LET j == maker[m]
    IN  /\ j.pc = "create" /\ ~Taken(j.number)
        /\ invoices' = invoices \cup {[number |-> j.number, from |-> j.from, to |-> j.to, auto |-> m = check]}
        /\ maker' = [maker EXCEPT ![m] = AfterCreation(m)]
        /\ UNCHANGED <<today, usage, files, cursor, checked, deletion, contested>>

CreatesRow(m) ==
    LET j == maker[m]
    IN  /\ j.pc = "create" /\ ~Taken(j.number)
        /\ invoices' = invoices \cup {[number |-> j.number, from |-> j.from, to |-> j.to, auto |-> m = check]}
        /\ cursor' = IF m = check THEN [day |-> j.to] ELSE cursor
        /\ maker' = [maker EXCEPT ![m] = AfterCreation(m)]
        /\ UNCHANGED <<today, usage, files, checked, deletion, contested>>

AttemptsLeft(attempt) == attempt < MaxRedraws

\* The file is removed; another number is drawn if this one was taken and
\* attempts are left.
CreationFails(m) ==
    LET j == maker[m]
    IN  /\ j.pc = "create"
        /\ files' = files \ {j.number}
        /\ \/ /\ Taken(j.number) /\ AttemptsLeft(j.attempt)
              /\ maker' = [maker EXCEPT ![m].pc = "number", ![m].attempt = j.attempt + 1]
           \/ /\ ~(Taken(j.number) /\ AttemptsLeft(j.attempt))
              /\ maker' = [maker EXCEPT ![m].pc = IF m = check THEN "idle" ELSE "done"]
        /\ UNCHANGED <<today, usage, invoices, cursor, checked, deletion, contested>>

-----------------------------------------------------------------------------
(* Deletion *)

FindsRow(d) ==
    /\ deletion[d].step = 0
    /\ \E r \in invoices : deletion' = [deletion EXCEPT ![d] = [step |-> 1, row |-> r]]
    /\ UNCHANGED <<today, usage, invoices, files, maker, cursor, checked, contested>>

\* Variant: the row first.
FileGoesSecond(step) == step = 2

\* The file goes in the first step after the look, the row in the second.
FileGoes(step) == step = 1

Deletes(d) ==
    LET step == deletion[d].step
        row == deletion[d].row
    IN  /\ step \in 1 .. 2
        /\ \/ /\ FileGoes(step)
              /\ files' = files \ {row.number}
              /\ UNCHANGED invoices
           \/ /\ ~FileGoes(step)
              /\ invoices' = invoices \ {row}
              /\ UNCHANGED files
        /\ deletion' = [deletion EXCEPT ![d].step = step + 1]
        /\ UNCHANGED <<today, usage, maker, cursor, checked, contested>>

DayPasses ==
    /\ today < Horizon
    /\ today' = today + 1 /\ checked' = FALSE
    /\ UNCHANGED <<usage, invoices, files, maker, cursor, deletion, contested>>

InvoicesNext ==
    \/ DayPasses \/ CheckBegins \/ LooksAtPeriod \/ RestartsScheduler
    \/ \E m \in Makers : Generates(m) \/ DrawsNumber(m) \/ WritesFile(m) \/ CreatesRow(m) \/ CreationFails(m)
    \/ \E d \in Deletions : FindsRow(d) \/ Deletes(d)

InvoicesSpec == InvoicesInit /\ [][InvoicesNext]_invoiceVars

-----------------------------------------------------------------------------
(* Properties *)

InvoicesTypeOK ==
    /\ today \in Days /\ usage \subseteq Days /\ checked \in BOOLEAN
    /\ \A r \in invoices : r.number \in Nat \ {0} /\ r.from \in Nat /\ r.to \in Nat /\ r.auto \in BOOLEAN
    /\ files \subseteq Nat /\ contested \subseteq Nat
    /\ \A m \in Makers :
           /\ maker[m].pc \in {"idle", "period", "number", "write", "create", "done"}
           /\ maker[m].attempt \in 0 .. MaxRedraws /\ maker[m].made \in 0 .. MaxPerRun
    /\ cursor = NoEnd \/ cursor.day \in Nat
    /\ \A d \in Deletions : deletion[d].step \in 0 .. 3

\* An invoice on record can be downloaded: whatever fails, is drawn again or is
\* deleted meanwhile, its file is there.  Exceptions are a row that is about to be
\* deleted and a number that two had at one time: the file has the number as its
\* name, and the one who comes second removes it.
InvoicesFiled ==
    \A r \in invoices :
        \/ r.number \in files \cup contested
        \/ \E d \in Deletions : deletion[d].step = 2 /\ deletion[d].row = r

\* No day is billed by two automatic invoices, whatever operators add and delete,
\* and whenever the scheduler is restarted.
BilledOnce ==
    \A r, s \in {i \in invoices : i.auto} : r = s \/ r.to <= s.from \/ s.to <= r.from

=============================================================================
