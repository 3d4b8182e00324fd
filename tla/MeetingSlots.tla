----------------------------- MODULE MeetingSlots ------------------------------
(***************************************************************************)
(* The search for free slots (services/scheduling.py) and what a clone     *)
(* thinks of a slot (domains/meeting_schedule.py).  An instant is a number *)
(* of minutes; an owner's wall clock is the instant plus the offset of     *)
(* their timezone.                                                         *)
(***************************************************************************)
EXTENDS Integers, Sequences, SequencesExt

MinutesPerDay == 1440
StepMinutes == 30
MaxSlots == 20
OfferSize == 5

Slot == [start : Int, end : Int]

Overlaps(slot, busy) == slot.start < busy.end /\ busy.start < slot.end

\* How many steps of a range leave room for the meeting.
Steps(range, duration) ==
  IF range.end - range.start < duration THEN 0
  ELSE (range.end - range.start - duration) \div StepMinutes + 1

\* The slots of one range on one day, as instants of an owner whose wall clock
\* is offset minutes ahead.
SlotsOfRange(day, range, duration, offset) ==
  [k \in 1..Steps(range, duration) |->
     LET start == day * MinutesPerDay + range.start - offset + (k - 1) * StepMinutes
     IN  [start |-> start, end |-> start + duration]]

\* The slots of the whole request, in the order the loops visit them.
AllSlots(days, ranges, duration, offset) ==
  FlattenSeq([d \in 1..days |->
    FlattenSeq([r \in DOMAIN ranges |-> SlotsOfRange(d - 1, ranges[r], duration, offset)])])

\* The slots that are in a set, in their order.
Keep(slots, wanted) ==
  LET kept[i \in 0..Len(slots)] ==
        IF i = 0 THEN <<>>
        ELSE IF slots[i] \in wanted THEN Append(kept[i - 1], slots[i]) ELSE kept[i - 1]
  IN  kept[Len(slots)]

CandidateSlots(days, ranges, duration, busy, offset) ==
  LET all == AllSlots(days, ranges, duration, offset)
      free == Keep(all, {slot \in ToSet(all) : \A b \in busy : ~Overlaps(slot, b)})
  IN  IF Len(free) <= MaxSlots THEN free ELSE SubSeq(free, 1, MaxSlots)

IntersectSlots(a, b) == Keep(a, ToSet(b))

\* a plausible slip: entries without an offset are taken for UTC
CollectBusyUTC(entries, offset) == {[start |-> e.start, end |-> e.end] : e \in entries}

\* A busy entry of a schedule memory: wall clock of its owner, or an instant
\* (entries written with an UTC offset).
CollectBusy(entries, offset) ==
  {[start |-> e.start - (IF e.aware THEN 0 ELSE offset),
    end |-> e.end - (IF e.aware THEN 0 ELSE offset)] : e \in entries}

FirstOffer(candidates) ==
  IF Len(candidates) <= OfferSize THEN candidates ELSE SubSeq(candidates, 1, OfferSize)

\* The minute of the day at which a slot starts on the owner's wall clock.
StartTime(slot, offset) == (slot.start + offset) % MinutesPerDay

Within(minute, ranges) == \E r \in ranges : r.start <= minute /\ minute < r.end

\* The reasons of the owner's own preferences to be asked about a slot.
PreferenceReasons(preferences, slot, offset) ==
  LET minute == StartTime(slot, offset)
  IN  {r \in {"auto_accept_disabled", "outside_preferred", "avoided"} :
         \/ r = "auto_accept_disabled" /\ ~preferences.autoAccept
         \/ r = "outside_preferred" /\ preferences.preferred # {} /\ ~Within(minute, preferences.preferred)
         \/ r = "avoided" /\ Within(minute, preferences.avoided)}
================================================================================
