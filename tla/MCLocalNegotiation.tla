-------------------------- MODULE MCLocalNegotiation ---------------------------
(***************************************************************************)
(* Requests for LocalNegotiation: cost splits whose limits meet or do not, *)
(* calendars in two timezones, and tasks on both sides of every limit.     *)
(***************************************************************************)
EXTENDS LocalNegotiation

CONSTANTS MCTotals, MCReservations, MCConcessions

MCPolicy(reservations, preferences, negotiables) ==
  [reservation : reservations, concession : MCConcessions, preferred : preferences,
   negotiable : negotiables]

MCCostRequest ==
  UNION {{[intent |-> "cost.split", total |-> total, proposed |-> proposed,
           policy |-> [initiator |-> i, responder |-> r], highValue |-> high] :
            proposed \in {total, (total * 3) \div 4, total \div 2, 1},
            i \in MCPolicy(MCReservations, {50}, {0}),
            r \in MCPolicy(MCReservations, {10, 60}, {0, total - 1}),
            high \in BOOLEAN} : total \in MCTotals}

Morning == [start |-> 540, end |-> 720]
Evening == [start |-> 1080, end |-> 1140]

MCEntries == {{}, {[start |-> 540, end |-> 630, aware |-> FALSE]},
              {[start |-> 0, end |-> 1440, aware |-> FALSE], [start |-> 1980, end |-> 2130, aware |-> TRUE]}}

MCPreferences ==
  {[autoAccept |-> TRUE, preferred |-> {}, avoided |-> {}],
   [autoAccept |-> FALSE, preferred |-> {}, avoided |-> {}],
   [autoAccept |-> TRUE, preferred |-> {[start |-> 0, end |-> 600]}, avoided |-> {}],
   [autoAccept |-> TRUE, preferred |-> {}, avoided |-> {[start |-> 600, end |-> 660]}]}

MCMeetingRequest ==
  {[intent |-> "meeting.schedule", days |-> days, ranges |-> ranges, duration |-> duration,
    entries |-> [initiator |-> e, responder |-> f], offset |-> [initiator |-> 0, responder |-> offset],
    preferences |-> [initiator |-> p, responder |-> q]] :
     days \in {1, 2}, ranges \in {<<Morning>>, <<Morning, Evening>>}, duration \in {30, 90},
     e \in MCEntries, f \in MCEntries, offset \in {0, -60},
     p \in {q \in MCPreferences : q.autoAccept /\ q.preferred = {}}, q \in MCPreferences}

MCTaskRequest ==
  {[intent |-> "task.request", hours |-> hours, dueIn |-> due, maxAccept |-> 2, maxCounter |-> 4,
    margin |-> 1] : hours \in {0, 2, 3, 4, 5}, due \in {{}, {0}, {1}}}
================================================================================
