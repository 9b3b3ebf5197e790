-------------------------- MODULE MC_ForwardStream --------------------------
(* Model checking of ForwardStream: the scenarios of the runs. *)
EXTENDS ForwardStream

\* One stream through one slot, flow control on both members, nothing goes wrong.
Plain == [streams |-> 1, max |-> 1, window |-> 2, units |-> [x \in Sides |-> [i \in Ids |-> 1]],
          fc |-> [x \in Sides |-> TRUE], slow |-> {}, failures |-> {}, idle |-> FALSE,
          fair |-> FALSE]

\* More data than the window one way, a short answer the other way.
Upload(w) == [x \in Sides |-> [i \in Ids |-> IF x = "I" THEN w + 1 ELSE 1]]

\* No data at all.
Nothing == [x \in Sides |-> [i \in Ids |-> 0]]

\* One unit from the initiate side only.
Notice == [x \in Sides |-> [i \in Ids |-> IF x = "I" THEN 1 ELSE 0]]

\* The first stream could fill every queue, the others send one unit.
Flood(w) == [x \in Sides |-> [i \in Ids |-> IF x = "A" THEN 0 ELSE IF i = 1 THEN w ELSE 1]]

Data == [Plain EXCEPT !.window = 4, !.units = Upload(4)]
Breaking == [Plain EXCEPT !.failures = {"socket", "dial", "transport", "stall", "shutdown"},
                          !.idle = TRUE]
Slots == [Plain EXCEPT !.streams = 2, !.units = Nothing, !.idle = TRUE]
OldPeer == [Plain EXCEPT !.units = Upload(2), !.fc = [x \in Sides |-> x = "I"]]
SafetyScenarios == <<Data, Breaking, Slots, OldPeer>>

Long == [Plain EXCEPT !.units = Upload(2), !.fair = TRUE]
SlowTarget == [Plain EXCEPT !.streams = 2, !.max = 2, !.window = 3, !.units = Flood(3),
                            !.slow = {<<"A", 1>>}, !.fair = TRUE]
Stalling == [Plain EXCEPT !.units = Notice, !.slow = {<<"A", 1>>}, !.failures = {"socket", "stall"}, !.idle = TRUE]
LiveScenarios == <<Long, SlowTarget, Stalling>>

LateReset == <<[Plain EXCEPT !.units = Notice, !.failures = {"socket"}]>>
=============================================================================
