----------------------------- MODULE Serializer -----------------------------
(***************************************************************************)
(* Serializer.cpp, and the callbacks of Plugin.cpp that push what it or    *)
(* they themselves write: one EuroScope object becomes one JSON record.    *)
(* A worker calls the serializers while EuroScope's main thread changes    *)
(* the object between any two SDK calls; a callback runs on the main       *)
(* thread, and nothing changes meanwhile.                                  *)
(*                                                                         *)
(* A record is written section by section.  The fields of a section are    *)
(* one step, reduced to the text that matters; loops take a step per       *)
(* entry.  An SDK call may throw.  A behaviour is one call.                *)
(***************************************************************************)
EXTENDS Naturals, Sequences

CONSTANTS
    MaxLength,    \* bound: points of a route, positions of an element
    MaxTime       \* bound: radar positions, known by their times

ASSUME SerializerAssumption == MaxLength \in Nat /\ MaxTime \in Nat

------------------------------------------------------------------------------
(***************************************************************************)
(* loop: how entries are gone through (counted: to a number read first;    *)
(* until: to the first that is not there; history: from one position to    *)
(* the previous one).  isolated: written inside a try block of its own.    *)
(* dump: what becomes of text that is not UTF-8.  guarded: whether a null  *)
(* pointer is taken for the empty text.                                    *)
(***************************************************************************)
Section(name, loop, isolated) ==
    [name |-> name, loop |-> loop, isolated |-> isolated, dump |-> "replace", guarded |-> TRUE]

FlightPlan ==
    <<Section("flight plan", "none", FALSE),
      Section("flight_plan_data", "none", TRUE),
      Section("controller_assigned_data", "none", TRUE),
      Section("extracted_route", "counted", TRUE),
      Section("position_predictions", "counted", TRUE),
      Section("track_position", "none", TRUE)>>
RadarTarget ==
    <<Section("radar target", "none", FALSE),
      Section("correlated_callsign", "none", FALSE),
      Section("position", "none", TRUE),
      Section("position_history", "history", FALSE)>>
Controller == <<Section("controller", "none", FALSE)>>
SectorElement ==
    <<Section("sector element", "none", FALSE),
      Section("positions", "until", FALSE),
      Section("components", "until", FALSE),
      Section("runways", "none", FALSE)>>
VoiceChannel == <<Section("voice channel", "none", FALSE)>>
OwnFields == <<[Section("data", "none", FALSE) EXCEPT !.dump = "strict"]>>
SdkNames == <<[OwnFields[1] EXCEPT !.guarded = FALSE]>>
NoText == <<>>

Records == {FlightPlan, RadarTarget, Controller, SectorElement, VoiceChannel}
WrittenByCallbacks == {OwnFields, SdkNames}

\* What each callback writes.
Callbacks ==
    [radar_update             |-> RadarTarget,
     flightplan_update        |-> FlightPlan,
     controller_assigned_data |-> FlightPlan,
     controller_update        |-> Controller,
     flightplan_disconnect    |-> SdkNames,
     flight_strip_pushed      |-> SdkNames,
     controller_disconnect    |-> SdkNames,
     plane_info               |-> OwnFields,
     chat_private             |-> OwnFields,
     chat_frequency           |-> OwnFields,
     metar_received           |-> OwnFields,
     airport_runway_activity_changed |-> NoText,
     timer                    |-> NoText]

Calls == {[by |-> "worker", program |-> p] : p \in Records}
         \cup {[by |-> e, program |-> Callbacks[e]] : e \in DOMAIN Callbacks}

(***************************************************************************)
(* Text of the SDK: a null pointer, plain, not UTF-8, or a char field that *)
(* holds 0 or 0xFF for "no data" (which only serializers write).           *)
(***************************************************************************)
Texts == {"null", "plain", "not UTF-8", "no data"}

SafeStr(t) == IF t = "null" THEN "" ELSE t
CharField(t) == IF t = "no data" THEN "" ELSE t

\* Mutant: the strict error handler.
Writable_Strict(t, dump) == CharField(SafeStr(t)) \in {"", "plain"}

\* Of text that is there, a strict dump takes nothing but UTF-8.
Writable(t, dump) ==
    CharField(SafeStr(t)) \in {"", "plain"} \cup (IF dump = "replace" THEN {"not UTF-8"} ELSE {})

VARIABLES
    call,      \* who serializes, and which sections
    n,         \* the section it is at
    phase,     \* start, open, number, body, or the outcome
    number,    \* points_number, read once
    entries,   \* what a loop has collected
    prev,      \* the history position it has got, 0 when there is none
    out,       \* per finished section, its entries, or failed: {}
    length,    \* EuroScope's: how many entries the loop's object has now
    fixes,     \* EuroScope's: the radar target's positions, by their times
    pos,       \* the position that was serialized
    least,     \* history: the least length since the number was read
    skipped,   \* history: history positions whose serialization failed
    thrown     \* history: where the SDK threw, and whether inside a try block

vars == <<call, n, phase, number, entries, prev, out, length, fixes, pos, least, skipped, thrown>>
sdk == <<length, fixes, least>>

Here == call.program[n]
Outcomes == {"sent", "lost", "not sent", "undefined"}
Running == phase \notin Outcomes
Result(failed, num, es) == [failed |-> failed, number |-> num, entries |-> es]

Init ==
    /\ call \in Calls
    /\ n = 1 /\ phase = "start"
    /\ number = 0 /\ entries = <<>> /\ prev = 0 /\ pos = 0 /\ out = <<>>
    /\ length = 0 /\ least = 0
    /\ fixes \in IF call.program = RadarTarget THEN SUBSET (1 .. MaxTime) ELSE {{}}
    /\ skipped = {} /\ thrown = {}

------------------------------------------------------------------------------
\* EuroScope's main thread: a route or an element changes its length.
Changes ==
    /\ call.by = "worker"
    /\ phase = "body" /\ Here.loop \in {"counted", "until"}
    /\ length' \in (0 .. MaxLength) \ {length}
    /\ least' = IF length' < least THEN length' ELSE least
    /\ UNCHANGED <<call, n, phase, number, entries, prev, out, fixes, pos, skipped, thrown>>

\* A new radar position arrives; the oldest may be dropped for it.
NewFix ==
    /\ call.by = "worker"
    /\ Running /\ call.program = RadarTarget
    /\ \E t \in 1 .. MaxTime :
         /\ \A f \in fixes : f < t
         /\ \/ fixes' = fixes \cup {t}
            \/ \E f \in fixes : (\A g \in fixes : f <= g) /\ fixes' = (fixes \ {f}) \cup {t}
    /\ UNCHANGED <<call, n, phase, number, entries, prev, out, length, pos, least, skipped, thrown>>

------------------------------------------------------------------------------
(***************************************************************************)
(* The start of a callback: HasSubscribers, then IsValid where the handler *)
(* gives up on an object that is not.  (A worker has tested its object.)   *)
(***************************************************************************)
ReturnsAtOnce ==
    /\ phase = "start" /\ call.by # "worker"
    /\ phase' = "not sent"
    /\ UNCHANGED <<call, n, number, entries, prev, out, sdk, pos, skipped, thrown>>

Begins ==
    /\ phase = "start"
    /\ phase' = IF call.program = NoText THEN "sent" ELSE "open"
    /\ UNCHANGED <<call, n, number, entries, prev, out, sdk, pos, skipped, thrown>>

(***************************************************************************)
(* The section's object is fetched outside its try block.  A loop is about *)
(* an object of its own, of any length.                                    *)
(***************************************************************************)
Previous(t) == {f \in fixes : f < t /\ \A g \in fixes : g < t => g <= f}
Newest == {f \in fixes : \A g \in fixes : g <= f}
TheOneOf(S) == IF S = {} THEN 0 ELSE CHOOSE t \in S : TRUE

Opens ==
    /\ phase = "open"
    /\ phase' = IF Here.loop = "counted" THEN "number" ELSE "body"
    /\ entries' = <<>>
    /\ pos' = IF Here.name = "position" THEN TheOneOf(Newest) ELSE pos
    /\ prev' = IF Here.loop = "history" THEN TheOneOf(Previous(pos)) ELSE prev
    /\ length' \in IF Here.loop \in {"counted", "until"} THEN 0 .. MaxLength ELSE {length}
    /\ least' = length'
    /\ UNCHANGED <<call, n, number, out, fixes, skipped, thrown>>

\* The section is finished, and with the last one the record.
Close(result) ==
    /\ out' = Append(out, result)
    /\ n' = n + 1
    /\ phase' = IF n < Len(call.program) THEN "open" ELSE "sent"
    /\ UNCHANGED <<call, number, entries, prev, sdk, pos, skipped>>

(***************************************************************************)
(* An exception: a section in a try block becomes {}.  Otherwise the       *)
(* record is lost: SerializeSafe leaves it out of the worker's list, the   *)
(* callback logs it.                                                       *)
(***************************************************************************)
Lost ==
    /\ phase' = "lost"
    /\ UNCHANGED <<call, n, number, entries, prev, out, sdk, pos, skipped>>

\* Mutant: a section that failed is tried again.
Fails_Retries ==
    IF Here.isolated
      THEN phase' = "open" /\ UNCHANGED <<call, n, number, entries, prev, out, sdk, pos, skipped>>
      ELSE Lost

Fails == IF Here.isolated THEN Close(Result(TRUE, 0, <<>>)) ELSE Lost

ReadsNumber ==
    /\ phase = "number"
    /\ phase' = "body"
    /\ number' = length
    /\ least' = length
    /\ UNCHANGED <<call, n, entries, prev, out, length, fixes, pos, skipped, thrown>>

Fields ==
    /\ phase = "body" /\ Here.loop = "none"
    /\ \E t \in Texts :
         /\ t = "null" => Here.guarded
         /\ IF Writable(t, Here.dump) THEN Close(Result(FALSE, 0, <<>>)) ELSE Fails
    /\ UNCHANGED thrown

\* A std::string is made of a null pointer: no catch block sees the end of it.
NullName ==
    /\ phase = "body" /\ Here.loop = "none"
    /\ ~Here.guarded
    /\ phase' = "undefined"
    /\ UNCHANGED <<call, n, number, entries, prev, out, sdk, pos, skipped, thrown>>

\* Mutant: one more than the number.
HasMorePoints_OffByOne == Len(entries) <= number

\* Mutant: the number is read anew for every point.
HasMorePoints_ReadsAgain == Len(entries) < length

HasMorePoints == Len(entries) < number

\* A point past the end, by now, is whatever the SDK gives.
Point ==
    /\ phase = "body" /\ Here.loop = "counted"
    /\ HasMorePoints
    /\ entries' = Append(entries, IF Len(entries) < length THEN "real" ELSE "stale")
    /\ UNCHANGED <<call, n, phase, number, prev, out, sdk, pos, skipped, thrown>>

PointsEnd ==
    /\ phase = "body" /\ Here.loop = "counted"
    /\ ~HasMorePoints
    /\ Close(Result(FALSE, number, entries))
    /\ UNCHANGED thrown

\* GetPosition says that there are no more, GetComponentName gives "".
Element ==
    /\ phase = "body" /\ Here.loop = "until"
    /\ IF Len(entries) < length
         THEN /\ entries' = Append(entries, "real")
              /\ UNCHANGED <<call, n, phase, number, prev, out, sdk, pos, skipped>>
         ELSE Close(Result(FALSE, Len(entries), entries))
    /\ UNCHANGED thrown

\* Mutant: the walk asks for the previous of the first position again.
HistoryEntry_SamePosition ==
    /\ phase = "body" /\ Here.loop = "history" /\ prev # 0
    /\ \/ entries' = Append(entries, prev) /\ UNCHANGED skipped
       \/ skipped' = skipped \cup {prev} /\ UNCHANGED entries
    /\ prev' = TheOneOf(Previous(pos))
    /\ UNCHANGED <<call, n, phase, number, out, sdk, pos, thrown>>

\* An entry whose serialization fails is left out, and the walk goes on.
HistoryEntry ==
    /\ phase = "body" /\ Here.loop = "history" /\ prev # 0
    /\ \/ entries' = Append(entries, prev) /\ UNCHANGED skipped
       \/ skipped' = skipped \cup {prev} /\ UNCHANGED entries
    /\ prev' = TheOneOf(Previous(prev))
    /\ UNCHANGED <<call, n, phase, number, out, sdk, pos, thrown>>

HistoryEnds ==
    /\ phase = "body" /\ Here.loop = "history" /\ prev = 0
    /\ Close(Result(FALSE, Len(entries), entries))
    /\ UNCHANGED thrown

\* Any SDK call may throw; those that fetch an object are in no try block.
SdkThrows ==
    /\ phase \in {"open", "number", "body"}
    /\ thrown' = thrown \cup {[at |-> n, inside |-> Here.isolated /\ phase # "open"]}
    /\ IF phase = "open" THEN Lost ELSE Fails

Works ==
    \/ ReturnsAtOnce \/ Begins \/ Opens \/ ReadsNumber \/ Fields \/ NullName
    \/ Point \/ PointsEnd \/ Element \/ HistoryEntry \/ HistoryEnds \/ SdkThrows

Next == Changes \/ NewFix \/ Works
Spec == Init /\ [][Next]_vars
FairSpec == Spec /\ WF_vars(Works)

------------------------------------------------------------------------------
(***************************************************************************)
(* Type invariant: finished sections come in the record's order and none   *)
(* is left out, a loop collects no more than its object ever had.          *)
(***************************************************************************)
TypeOK ==
    /\ call \in Calls
    /\ phase \in {"start", "open", "number", "body"} \cup Outcomes
    /\ Len(out) = n - 1
    /\ phase \in {"open", "number", "body"} => n \in DOMAIN call.program
    /\ phase = "sent" => Len(out) = Len(call.program)
    /\ number \in 0 .. MaxLength /\ length \in 0 .. MaxLength /\ least \in 0 .. length
    /\ fixes \subseteq 1 .. MaxTime /\ skipped \subseteq 1 .. MaxTime
    /\ prev \in 0 .. MaxTime /\ pos \in 0 .. MaxTime
    /\ phase = "body" => Len(entries) <= IF Here.loop = "history" THEN MaxTime ELSE MaxLength
    /\ \A t \in thrown : t.at \in DOMAIN call.program /\ t.inside \in BOOLEAN

(***************************************************************************)
(* What the serializers write fails by section, for no reason but an       *)
(* exception of the SDK, never for its text: a section is {} exactly when  *)
(* the SDK threw inside its try block, and the record is lost only when it *)
(* threw outside of all.                                                   *)
(***************************************************************************)
FailuresStayLocal ==
    call.program \notin WrittenByCallbacks =>
      /\ phase = "lost" => \E t \in thrown : t.at = n /\ ~t.inside
      /\ \A s \in DOMAIN out : out[s].failed <=> [at |-> s, inside |-> TRUE] \in thrown

(***************************************************************************)
(* A route's points_number is the number of its points even when the route *)
(* changes while it is read, and only points behind its shortest length    *)
(* can be stale.                                                           *)
(***************************************************************************)
PointsMatchNumber ==
    phase = "body" /\ Here.loop = "counted" =>
      /\ ~HasMorePoints => Len(entries) = number
      /\ \A i \in DOMAIN entries : i <= least => entries[i] = "real"

(***************************************************************************)
(* The position history goes back in time from the position of the record: *)
(* no entry twice, no gap but where an entry failed or has been dropped,   *)
(* while new positions come in at the front and old ones go at the back.   *)
(***************************************************************************)
HistoryDescends ==
    phase = "body" /\ Here.loop = "history" =>
      /\ \A i \in DOMAIN entries : entries[i] < pos
      /\ \A i, j \in DOMAIN entries : i < j => entries[i] > entries[j]
      /\ \A f \in fixes : prev < f /\ f < pos => f \in skipped \/ \E i \in DOMAIN entries : entries[i] = f

(***************************************************************************)
(* Every call ends: no route that keeps growing and no stream of new       *)
(* positions keeps a serializer in its loop.                               *)
(***************************************************************************)
SerializationEnds == <>(phase \in Outcomes)

(***************************************************************************)
(* What docs/API_REFERENCE_SKILL.md says of text: bytes that are not UTF-8 *)
(* are replaced, so that no event is lost to them.                         *)
(***************************************************************************)
EventsSurviveBadText == phase = "lost" => thrown # {}
==============================================================================
