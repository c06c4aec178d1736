----------------------------- MODULE PatchBriefs ----------------------------
(***************************************************************************)
(* Patch day briefs (internal/patchtuesday): every hour the worker looks   *)
(* which vendors publish today and, for each that has no brief of today,   *)
(* has one written and stores it.                                          *)
(***************************************************************************)
EXTENDS Integers, FiniteSets

CONSTANTS
  SecondTuesday,    \* vendors with DueToday = isSecondTuesday
  QuarterTuesday,   \* vendors with DueToday = isOracleCPUDay
  Months,           \* months the calendar goes through
  Days,             \* days of them
  Asleep,           \* pc of a worker that is between two ticks
  MaxWrites         \* bound: briefs written for one vendor and day

Vendors == SecondTuesday \cup QuarterTuesday

ASSUME PatchAssumption ==
  /\ Months \subseteq 1..12 /\ Days \subseteq 1..31 /\ MaxWrites \in Nat /\ Asleep \notin Vendors
  /\ SecondTuesday \cap QuarterTuesday = {}

VARIABLES
  today,       \* [first |-> weekday of the 1st, month, day]; weekday 2 is Tuesday
  tickDay,     \* the day this tick began
  toDo,        \* due vendors this tick has not come to
  vendor,      \* whose brief is being written, or Asleep
  briefs,      \* patch_briefs: vendor and day
  writes,      \* history: how often each vendor's was written: Days has one patch day of each
  misread      \* history: those GetPatchBrief failed to find

patchVars == <<today, tickDay, toDo, vendor, briefs, writes, misread>>

Calendar == [first : 0..6, month : Months, day : Days]

Weekday(t) == (t.first + t.day - 1) % 7

isSecondTuesday(t) == Weekday(t) = 2 /\ t.day >= 8 /\ t.day <= 14
isOracleCPUDay(t) ==
  Weekday(t) = 2 /\ t.month \in {1, 4, 7, 10} /\ t.day >= 15 /\ t.day <= 21

DueToday(v, t) == IF v \in SecondTuesday THEN isSecondTuesday(t) ELSE isOracleCPUDay(t)

\* tick: at the start of the process, and every hour.
PatchTick ==
  /\ toDo = {} /\ vendor = Asleep
  /\ toDo' = {v \in Vendors : DueToday(v, today)} /\ toDo' # {}
  /\ tickDay' = today
  /\ UNCHANGED <<today, vendor, briefs, writes, misread>>

\* GetPatchBrief answers nil for a row that is not there and for any error.
GetPatchBrief(v) ==
  /\ v \in toDo /\ vendor = Asleep /\ toDo' = toDo \ {v}
  /\ \/ <<v, tickDay>> \in briefs /\ UNCHANGED <<vendor, misread>>
     \/ <<v, tickDay>> \notin briefs /\ vendor' = v /\ UNCHANGED misread
     \/ /\ <<v, tickDay>> \in briefs /\ <<v, tickDay>> \notin misread
        /\ vendor' = v /\ misread' = misread \cup {<<v, tickDay>>}
  /\ UNCHANGED <<today, tickDay, briefs, writes>>

\* No articles, the summary or the statement fails: a later tick tries again.
BriefFails == vendor # Asleep /\ vendor' = Asleep
              /\ UNCHANGED <<today, tickDay, toDo, briefs, writes, misread>>

\* INSERT OR REPLACE under the day on which the tick began.
PutPatchBrief ==
  /\ vendor # Asleep /\ writes[vendor] < MaxWrites /\ vendor' = Asleep
  /\ briefs' = briefs \cup {<<vendor, tickDay>>}
  /\ writes' = [writes EXCEPT ![vendor] = @ + 1]
  /\ UNCHANGED <<today, tickDay, toDo, misread>>

\* The process stops, and starts with a tick.
PatchRestart ==
  /\ toDo # {} \/ vendor # Asleep
  /\ toDo' = {} /\ vendor' = Asleep
  /\ UNCHANGED <<today, tickDay, briefs, writes, misread>>

Midnight ==
  /\ today.day + 1 \in Days
  /\ today' = [today EXCEPT !.day = @ + 1]
  /\ UNCHANGED <<tickDay, toDo, vendor, briefs, writes, misread>>

PatchInit ==
  /\ today \in {t \in Calendar : t.day - 1 \notin Days} /\ tickDay = today
  /\ toDo = {} /\ vendor = Asleep /\ briefs = {} /\ misread = {}
  /\ writes = [v \in Vendors |-> 0]

PatchNext ==
  \/ PatchTick \/ BriefFails \/ PutPatchBrief \/ PatchRestart \/ Midnight
  \/ \E v \in Vendors : GetPatchBrief(v)

-----------------------------------------------------------------------------
\* Every variable of the patch briefs keeps its type.
PatchTypeOK ==
  /\ today \in Calendar /\ tickDay \in Calendar
  /\ toDo \subseteq Vendors /\ vendor \in Vendors \cup {Asleep}
  /\ briefs \subseteq Vendors \X Calendar /\ misread \subseteq briefs
  /\ writes \in [Vendors -> 0..MaxWrites]

\* The n-th Tuesday of a month, by counting.
Tuesdays(t) == Cardinality({d \in 1..t.day : Weekday([t EXCEPT !.day = d]) = 2})

\* A brief belongs to a patch day of its vendor, the second Tuesday of the
\* month, or the third of a quarter's first month, also when midnight comes
\* while it is written; and no month has two for one vendor.
BriefsOnPatchDays ==
  /\ \A b \in briefs :
       /\ Weekday(b[2]) = 2
       /\ Tuesdays(b[2]) = IF b[1] \in SecondTuesday THEN 2 ELSE 3
       /\ b[1] \in QuarterTuesday => b[2].month % 3 = 1
  /\ \A b, c \in briefs : b[1] = c[1] => b[2] = c[2]

\* A brief is written (and paid for) once a day, however often the process
\* restarts; a second time only if the first could not be read.
WrittenOnce ==
  \A v \in Vendors : writes[v] <= 1 + Cardinality({b \in misread : b[1] = v})

-----------------------------------------------------------------------------
(* What the theorems of WorkersProofs rest on *)

SameMonth(t) == t.first = today.first /\ t.month = today.month

\* Ticks work for the vendors due on the day they began, and that is the day
\* under which a brief is stored.
DueWhenBegun ==
  /\ SameMonth(tickDay)
  /\ \A v \in toDo : DueToday(v, tickDay)
  /\ vendor # Asleep => DueToday(vendor, tickDay)
  /\ \A b \in briefs : DueToday(b[1], b[2]) /\ SameMonth(b[2])

MisreadOf(v) == {b \in misread : b[1] = v}

\* Of a vendor without a brief none was written, and one is being written again
\* only after a misreading of its own.
WritingIsNew ==
  /\ IsFiniteSet(misread)
  /\ \A v \in Vendors :
       /\ writes[v] > 0 => \E b \in briefs : b[1] = v
       /\ writes[v] <= Cardinality(MisreadOf(v)) + (IF vendor = v THEN 0 ELSE 1)

PatchInv == PatchTypeOK /\ DueWhenBegun /\ WritingIsNew

=============================================================================
