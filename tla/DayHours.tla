------------------------------ MODULE DayHours ------------------------------
(***************************************************************************)
(* How an answer of the portal becomes the hours of days (parsing.py):      *)
(* split_range_response, the hour that is repeated when the clock goes      *)
(* back, and the hours before the meter was assembled.                      *)
(*                                                                         *)
(* Time is counted in hours.  A slot has the timeId of its wall-clock hour, *)
(* the end the portal gives it, and a value.  Days may have fewer hours     *)
(* than 24 in an instance: what matters is that one is an hour longer or    *)
(* shorter.                                                                 *)
(***************************************************************************)
EXTENDS Integers, SequencesExt, FiniteSetsExt

CONSTANTS
    HoursPerDay,   \* when the clock does not change
    DayLengths,    \* hours of each day of the range, from its first hour, 0
    NoTime         \* no end, no assembly, no change of the clock

LongDay == HoursPerDay + 1
ShortDay == HoursPerDay - 1

ASSUME HoursAssumption ==
    /\ HoursPerDay \in Nat /\ HoursPerDay > 2
    /\ DayLengths \in Seq({ShortDay, HoursPerDay, LongDay})
    /\ NoTime \notin Int

Days == 1..Len(DayLengths)

DayStart[d \in 1..Len(DayLengths) + 1] == IF d = 1 THEN 0 ELSE DayStart[d - 1] + DayLengths[d - 1]

HoursOf(day) == DayStart[day]..DayStart[day + 1] - 1

SlotStart(slot) == slot.end - 1

(* The slots that begin in some hours, in their order.                      *)
Kept(slots, hours) ==
    LET kept[i \in 0..Len(slots)] ==
            IF i = 0 THEN <<>>
            ELSE IF slots[i].end # NoTime /\ SlotStart(slots[i]) \in hours THEN Append(kept[i - 1], slots[i])
            ELSE kept[i - 1]
    IN kept[Len(slots)]

(* The table, unless the plain values are at least as many: they may be     *)
(* sums of days or longer, but then they are fewer.                         *)
Entries(answer) ==
    IF Len(answer.table) > Len(answer.values)
    THEN [hours |-> answer.table, repeated |-> answer.tableWinter]
    ELSE [hours |-> answer.values, repeated |-> answer.valuesWinter]

-----------------------------------------------------------------------------
(* _merge_repeated_hours. *)

WithTimeId(slots, id) == {i \in DOMAIN slots : slots[i].timeId = id}

(* Where a repeated slot goes: after the last slot with its timeId.         *)
LastOf(positions) == CHOOSE i \in positions : \A j \in positions : j <= i

AppendAll(slots, repeated) == slots \o repeated

(* With no such slot there is no day.                                       *)
InsertAll(slots, repeated) ==
    FoldLeft(LAMBDA merged, slot :
                 IF WithTimeId(merged, slot.timeId) = {} THEN <<>>
                 ELSE InsertAt(merged, LastOf(WithTimeId(merged, slot.timeId)) + 1, slot),
             slots, repeated)

(* Consecutive hours from the start of the day, when the slots fill it.     *)
MergeRepeatedHours(day, slots, repeated) ==
    LET merged == InsertAll(slots, repeated)
    IN IF Len(merged) # DayLengths[day] THEN slots
       ELSE [i \in DOMAIN merged |-> [merged[i] EXCEPT !.end = DayStart[day] + i]]

(* split_range_response, one day of it.                                     *)
DaySlots(answer, day) ==
    LET entries == Entries(answer)
        slots == Kept(entries.hours, HoursOf(day))
        repeated == Kept(entries.repeated, HoursOf(day))
    IN IF slots = <<>> \/ repeated = <<>> THEN slots ELSE MergeRepeatedHours(day, slots, repeated)

-----------------------------------------------------------------------------
(* strip_pre_assembly_slots.  assembly is a moment, in halves of an hour.   *)

AssemblyDay(assembly) == CHOOSE d \in Days : assembly \div 2 \in HoursOf(d)

(* Two moments of one time zone are compared as the clock shows them: the   *)
(* second of two repeated hours is not after the first.  An hour that is    *)
(* skipped changes nothing in the order.                                    *)
Wall(h, day, back) == IF DayLengths[day] = LongDay /\ h >= DayStart[day] + back THEN h - 1 ELSE h

HoursAfter(slots, assembly, day, back) ==
    Kept(slots, {h \in Int : Wall(h, day, back) >= Wall(assembly \div 2, day, back)})

Stripped(slots, day, assembly, back) ==
    IF assembly = NoTime \/ day # AssemblyDay(assembly) THEN slots ELSE HoursAfter(slots, assembly, day, back)

-----------------------------------------------------------------------------
(* The portal's answers (external).  The value of an hour is the hour       *)
(* itself.  When the clock goes back after the wall-clock hour `back' of a  *)
(* day, that hour comes once in its place and once apart, and the first of  *)
(* it and the hour before it are said to end an hour late; when it goes     *)
(* forward, an hour is skipped.                                             *)

WallHours(day, back, forward) ==
    [i \in 1..DayLengths[day] - (IF back = NoTime THEN 0 ELSE 1) |->
        LET late == IF back = NoTime \/ i < back - 1 THEN 0 ELSE 1
            hour == DayStart[day] + i - 1 + (IF back # NoTime /\ i > back THEN 1 ELSE 0)
        IN [timeId |-> IF forward # NoTime /\ i >= forward THEN i + 1 ELSE i,
            end |-> DayStart[day] + i + late,
            value |-> hour]]

RepeatedHour(day, back) ==
    IF back = NoTime THEN <<>>
    ELSE <<[timeId |-> back, end |-> DayStart[day] + back + 1, value |-> DayStart[day] + back]>>

(* A sum, of a day or of more: it ends with what it covers.                *)
SumAt(end) == [timeId |-> 0, end |-> end, value |-> -1]

(* What the portal answers for the days asked: the hours as the values and  *)
(* again as the table, or as the table with sums for values.                *)
RangeAnswer(first, last, back, forward, sums) ==
    LET Of(day, kind, hour) == IF DayLengths[day] = kind THEN hour ELSE NoTime
        n == last - first + 1
        wall == FlattenSeq([i \in 1..n |->
                    WallHours(first + i - 1, Of(first + i - 1, LongDay, back), Of(first + i - 1, ShortDay, forward))])
        apart == FlattenSeq([i \in 1..n |-> RepeatedHour(first + i - 1, Of(first + i - 1, LongDay, back))])
    IN [table |-> wall, tableWinter |-> apart,
        values |-> IF sums THEN [i \in 1..n |-> SumAt(DayStart[first + i])] ELSE wall,
        valuesWinter |-> IF sums THEN <<>> ELSE apart]

-----------------------------------------------------------------------------
(* Every hour of every day asked for is there once, with its own value, on  *)
(* days of 23 and 25 hours as well, and no sum is taken for an hour; on the *)
(* day a meter was assembled, the hours that end after that moment, and, if *)
(* it was in the second of two repeated hours, the first of them, which the *)
(* code cannot tell from it (parsing.py:41-186).                            *)
WholeDays(answer, asked, assembly, back) ==
    \A day \in asked :
        LET slots == Stripped(DaySlots(answer, day), day, assembly, back)
            hours == {h \in HoursOf(day) :
                         \/ assembly = NoTime \/ day # AssemblyDay(assembly)
                         \/ 2 * (h + 1) > assembly
                         \/ Wall(h, day, back) = Wall(assembly \div 2, day, back)}
        IN /\ Len(slots) = Cardinality(hours)
           /\ {slots[i].value : i \in DOMAIN slots} = hours
           /\ \A i \in DOMAIN slots : SlotStart(slots[i]) = slots[i].value

(* What strip_pre_assembly_slots says of itself: "it stays correct even if  *)
(* the meter was assembled on a DST transition day" (parsing.py:170-171).   *)
NoneBefore(answer, asked, assembly, back) ==
    \A day \in asked :
        LET slots == Stripped(DaySlots(answer, day), day, assembly, back)
        IN assembly # NoTime /\ day = AssemblyDay(assembly)
               => \A i \in DOMAIN slots : 2 * slots[i].end > assembly
=============================================================================
