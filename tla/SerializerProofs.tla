-------------------------- MODULE SerializerProofs --------------------------
(***************************************************************************)
(* Proofs about Serializer, for routes, elements and histories of any      *)
(* length: sections fail one by one, a route has as many points as its     *)
(* points_number says, and the history goes back in time without a gap.    *)
(***************************************************************************)
EXTENDS Serializer, SequenceTheorems, FiniteSetTheorems, TLAPS

Names == {"flight plan", "flight_plan_data", "controller_assigned_data", "extracted_route",
          "position_predictions", "track_position", "radar target", "correlated_callsign",
          "position", "position_history", "controller", "sector element", "positions",
          "components", "runways", "voice channel", "data"}
LoopKinds == {"none", "counted", "until", "history"}
Sections == {s \in [name : Names, loop : LoopKinds, isolated : BOOLEAN, dump : {"replace", "strict"},
                    guarded : BOOLEAN] :
                s.name = "position" => s.loop = "none"}
Replacing == {s \in Sections : s.dump = "replace"}
Entries == Nat \cup {"real", "stale"}
Results == [failed : BOOLEAN, number : Nat, entries : Seq(Entries)]
Programs == Records \cup WrittenByCallbacks \cup {NoText}
Phases == {"start", "open", "number", "body"} \cup Outcomes
AtSection == phase \in {"open", "number", "body"}

(***************************************************************************)
(* A record's sections are gone through in order; numbers keep to what     *)
(* EuroScope has.                                                          *)
(***************************************************************************)
Control ==
    /\ call \in Calls /\ phase \in Phases
    /\ n \in Nat \ {0}
    /\ phase = "start" => n = 1
    /\ entries \in Seq(Entries) /\ out \in Seq(Results) /\ Len(out) = n - 1
    /\ AtSection \/ phase = "lost" => n \in DOMAIN call.program
    /\ phase = "sent" => Len(out) = Len(call.program)
    /\ phase = "number" => Here.loop = "counted"
    /\ phase = "number" => entries = <<>>

Numbers ==
    /\ number \in 0 .. MaxLength /\ length \in 0 .. MaxLength /\ least \in 0 .. length
    /\ fixes \subseteq 1 .. MaxTime /\ skipped \subseteq 1 .. MaxTime
    /\ prev \in 0 .. MaxTime /\ pos \in 0 .. MaxTime

(***************************************************************************)
(* The SDK threw in finished sections only, or in the one the record is    *)
(* lost with; a finished section is {} exactly when it threw in its try    *)
(* block.                                                                  *)
(***************************************************************************)
ThrownBefore ==
    /\ thrown \subseteq [at : DOMAIN call.program, inside : BOOLEAN]
    /\ \A t \in thrown : t.at < n \/ (t.at = n /\ phase = "lost" /\ ~t.inside)

FailedByThrow ==
    \A s \in 1 .. Len(out) : out[s].failed <=> [at |-> s, inside |-> TRUE] \in thrown

LostByThrow == phase = "lost" => \E t \in thrown : t.at = n /\ ~t.inside

(***************************************************************************)
(* The loops.  A counted one stops at its number; a walk through the       *)
(* history has a step into the past left for every entry it may still      *)
(* collect, and the position it started from is never newer than what      *)
(* EuroScope has: new positions are no part of it.                         *)
(***************************************************************************)
CountedLoop ==
    /\ Len(entries) <= number
    /\ \A i \in 1 .. Len(entries) : i <= least => entries[i] = "real"

UntilLoop == Len(entries) <= MaxLength

Walk ==
    /\ prev + Len(entries) <= pos
    /\ prev # 0 => prev < pos
    /\ \A i \in 1 .. Len(entries) : entries[i] \in Nat /\ prev < entries[i] /\ entries[i] < pos
    /\ \A i, j \in 1 .. Len(entries) : i < j => entries[i] > entries[j]
    /\ \A f \in fixes : prev < f /\ f < pos =>
          f \in skipped \/ \E i \in 1 .. Len(entries) : entries[i] = f

Loops ==
    phase = "body" =>
      /\ Here.loop = "counted" => CountedLoop
      /\ Here.loop = "until" => UntilLoop
      /\ Here.loop = "history" => Walk
      /\ Here.loop = "none" => entries = <<>>

PositionIsOld == pos # 0 => \E f \in fixes : pos <= f

IInv ==
    /\ Control /\ Numbers /\ ThrownBefore
    /\ call.program \notin WrittenByCallbacks => FailedByThrow /\ LostByThrow
    /\ Loops /\ PositionIsOld
------------------------------------------------------------------------------
\* What Section builds is a section, and its text is never too bad.
LEMMA EverySection ==
    \A name \in Names, loop \in LoopKinds, isolated \in BOOLEAN :
        (name = "position" => loop = "none") => Section(name, loop, isolated) \in Replacing
  BY DEF Section, Sections, Replacing

\* A short tuple is a sequence of its elements.
LEMMA Tuples ==
    ASSUME NEW S, NEW a \in S, NEW b \in S, NEW c \in S, NEW d \in S
    PROVE  /\ <<a>> \in Seq(S) /\ <<a>> # <<>>
           /\ <<a, b, c, d>> \in Seq(S) /\ <<a, b, c, d>> # <<>>
           /\ \A e, f \in S : <<a, b, c, d, e, f>> \in Seq(S) /\ <<a, b, c, d, e, f>> # <<>>
  OBVIOUS

\* The sections of every record, and of what the callbacks write themselves.
LEMMA EveryProgram ==
    /\ \A p \in Records : p \in Seq(Replacing) /\ p # <<>>
    /\ \A p \in WrittenByCallbacks : p \in Seq(Sections) /\ p # <<>>
  <1>1. FlightPlan \in Seq(Replacing) /\ FlightPlan # <<>>
    <2>1. /\ Section("flight plan", "none", FALSE) \in Replacing
          /\ Section("flight_plan_data", "none", TRUE) \in Replacing
          /\ Section("controller_assigned_data", "none", TRUE) \in Replacing
          /\ Section("extracted_route", "counted", TRUE) \in Replacing
          /\ Section("position_predictions", "counted", TRUE) \in Replacing
          /\ Section("track_position", "none", TRUE) \in Replacing
      BY EverySection DEF Names, LoopKinds
    <2>2. QED
      BY <2>1, Tuples, Zenon DEF FlightPlan
  <1>2. RadarTarget \in Seq(Replacing) /\ RadarTarget # <<>>
    <2>1. /\ Section("radar target", "none", FALSE) \in Replacing
          /\ Section("correlated_callsign", "none", FALSE) \in Replacing
          /\ Section("position", "none", TRUE) \in Replacing
          /\ Section("position_history", "history", FALSE) \in Replacing
      BY EverySection DEF Names, LoopKinds
    <2>2. QED
      BY <2>1, Tuples, Zenon DEF RadarTarget
  <1>3. Controller \in Seq(Replacing) /\ Controller # <<>>
    <2>1. /\ Section("controller", "none", FALSE) \in Replacing
      BY EverySection DEF Names, LoopKinds
    <2>2. QED
      BY <2>1, Tuples, Zenon DEF Controller
  <1>4. SectorElement \in Seq(Replacing) /\ SectorElement # <<>>
    <2>1. /\ Section("sector element", "none", FALSE) \in Replacing
          /\ Section("positions", "until", FALSE) \in Replacing
          /\ Section("components", "until", FALSE) \in Replacing
          /\ Section("runways", "none", FALSE) \in Replacing
      BY EverySection DEF Names, LoopKinds
    <2>2. QED
      BY <2>1, Tuples, Zenon DEF SectorElement
  <1>5. VoiceChannel \in Seq(Replacing) /\ VoiceChannel # <<>>
    <2>1. /\ Section("voice channel", "none", FALSE) \in Replacing
      BY EverySection DEF Names, LoopKinds
    <2>2. QED
      BY <2>1, Tuples, Zenon DEF VoiceChannel
  <1>6. OwnFields \in Seq(Sections) /\ OwnFields # <<>>
    <2>1. [Section("data", "none", FALSE) EXCEPT !.dump = "strict"] \in Sections
      <3>1. Section("data", "none", FALSE) \in Sections
        BY EverySection DEF Names, LoopKinds, Replacing
      <3>2. QED
        BY <3>1 DEF Sections
    <2>2. QED
      BY <2>1, Tuples, Zenon DEF OwnFields
  <1>7. SdkNames \in Seq(Sections) /\ SdkNames # <<>>
    <2>1. OwnFields[1] \in Sections
      BY <1>6
    <2>2. [OwnFields[1] EXCEPT !.guarded = FALSE] \in Sections
      BY <2>1 DEF Sections
    <2>3. QED
      BY <2>2, Tuples, Zenon DEF SdkNames
  <1>8. QED
    BY <1>1, <1>2, <1>3, <1>4, <1>5, <1>6, <1>7, Zenon DEF Records, WrittenByCallbacks

LEMMA EveryCall == \A c \in Calls : c.program \in Programs
  BY DEF Calls, Callbacks, Programs, Records, WrittenByCallbacks

\* Numbers of a bounded set have a greatest one: the least set of numbers
\* above one of them is empty.
LEMMA Greatest ==
    ASSUME NEW m \in Nat, NEW S, S \subseteq 1 .. m, S # {}
    PROVE  \E t \in S : \A g \in S : g <= t
  <1> DEFINE Above(t) == {g \in S : t < g}
             Aboves == {Above(t) : t \in S}
  <1>1. IsFiniteSet(S)
    <2>1. S \in SUBSET Nat /\ \A s \in S : s <= m
      OBVIOUS
    <2>2. QED
      BY <2>1, FS_BoundedSetOfNaturals
  <1>2. Aboves \subseteq FiniteSubsetsOf(S) /\ Aboves # {}
    <2>1. \A t \in S : Above(t) \in SUBSET S
      OBVIOUS
    <2>2. \A t \in S : Above(t) \in FiniteSubsetsOf(S)
      BY <1>1, <2>1, FS_FiniteSubsetsOfFinite
    <2>3. QED
      BY <2>2
  <1>3. PICK A \in Aboves : \A B \in Aboves : ~ (<<B, A>> \in StrictSubsetOrdering(S))
    <2> HIDE DEF Aboves
    <2>1. QED
      BY <1>2, FS_StrictSubsetOrderingWellFounded, WFMin
  <1>4. PICK t \in S : A = Above(t)
    OBVIOUS
  <1>5. ASSUME NEW g \in S, t < g
        PROVE  FALSE
    <2>1. Above(g) \in Aboves /\ Above(g) \subseteq Above(t) /\ g \in Above(t) /\ g \notin Above(g)
      <3>1. \A x \in S : x \in Nat
        OBVIOUS
      <3>2. Above(g) \in Aboves
        OBVIOUS
      <3>3. g \in Above(t) /\ g \notin Above(g)
        BY <1>5, <3>1
      <3>4. \A x \in S : g < x => t < x
        BY <1>5, <3>1
      <3>5. QED
        BY <3>2, <3>3, <3>4
    <2>2. <<Above(g), A>> \in StrictSubsetOrdering(S)
      <3>1. Above(g) \in SUBSET S /\ Above(t) \in SUBSET S /\ Above(g) # Above(t)
        BY <2>1
      <3> HIDE DEF Above
      <3>2. QED
        BY <1>4, <2>1, <3>1 DEF StrictSubsetOrdering
    <2>3. QED
      BY <1>3, <2>1, <2>2
  <1>6. QED
    BY <1>5

\* Every program is a sequence of sections, and all but the callbacks' own
\* replace bad text.
LEMMA ProgramOf ==
    ASSUME NEW c \in Calls
    PROVE  /\ c.program \in Seq(Sections)
           /\ Len(c.program) \in Nat /\ DOMAIN c.program = 1 .. Len(c.program)
           /\ c.program # NoText => 1 \in DOMAIN c.program
           /\ \A i \in DOMAIN c.program : c.program[i] \in Sections
           /\ c.program \notin WrittenByCallbacks => \A i \in DOMAIN c.program : c.program[i].dump = "replace"
  <1> DEFINE p == c.program
  <1>1. p \in Programs
    BY EveryCall
  <1> HIDE DEF p
  <1>2. CASE p \in Records
    <2>1. p \in Seq(Replacing) /\ p # <<>>
      BY <1>2, EveryProgram
    <2>2. p \in Seq(Sections)
      BY <2>1, SeqMonotonic DEF Replacing
    <2>3. \A i \in DOMAIN p : p[i] \in Replacing
      BY <2>1
    <2>4. QED
      BY <2>1, <2>2, <2>3 DEF Replacing, p
  <1>3. CASE p \in WrittenByCallbacks
    <2>1. p \in Seq(Sections) /\ p # <<>>
      BY <1>3, EveryProgram
    <2>2. QED
      BY <1>3, <2>1 DEF p
  <1>4. CASE p = NoText
    BY <1>4 DEF NoText, p
  <1>5. QED
    BY <1>1, <1>2, <1>3, <1>4 DEF Programs

\* Where a section is being written, it is one of the record's.
LEMMA HereIs ==
    ASSUME Control, n \in DOMAIN call.program
    PROVE  /\ Here \in Sections /\ Len(call.program) \in Nat
           /\ n \in 1 .. Len(call.program) /\ DOMAIN call.program = 1 .. Len(call.program)
           /\ call.program \notin WrittenByCallbacks => Here.dump = "replace"
  BY ProgramOf DEF Control, Here

(***************************************************************************)
(* The position before t is the latest of those before it: between the two *)
(* there is none.  0 says that there is none at all.                       *)
(***************************************************************************)
LEMMA ThePrevious ==
    ASSUME fixes \subseteq 1 .. MaxTime, NEW t \in Nat
    PROVE  LET p == TheOneOf(Previous(t)) IN
             /\ p \in 0 .. MaxTime
             /\ p # 0 => p < t
             /\ \A f \in fixes : f < t => f <= p
  <1> DEFINE S == {f \in fixes : f < t}
             p == TheOneOf(Previous(t))
  <1>1. CASE S = {}
    <2>1. Previous(t) = {}
      BY <1>1 DEF Previous
    <2>2. QED
      BY <1>1, <2>1, SerializerAssumption DEF TheOneOf
  <1>2. CASE S # {}
    <2>1. \E f \in S : \A g \in S : g <= f
      BY <1>2, Greatest, SerializerAssumption
    <2>2. Previous(t) # {}
      BY <2>1 DEF Previous
    <2>3. p \in Previous(t)
      BY <2>2 DEF TheOneOf
    <2>4. /\ p \in fixes /\ p < t
          /\ \A g \in fixes : g < t => g <= p
      BY <2>3 DEF Previous
    <2> HIDE DEF p
    <2>5. p \in 0 .. MaxTime
      BY <2>4, SerializerAssumption
    <2>6. QED
      BY <2>4, <2>5 DEF p
  <1>3. QED
    BY <1>1, <1>2

\* The newest position is not after the last that EuroScope has.
LEMMA TheNewest ==
    ASSUME fixes \subseteq 1 .. MaxTime
    PROVE  LET p == TheOneOf(Newest) IN p \in 0 .. MaxTime /\ (p # 0 => p \in fixes)
  <1>1. CASE Newest = {}
    BY <1>1, SerializerAssumption DEF TheOneOf
  <1>2. CASE Newest # {}
    <2>1. TheOneOf(Newest) \in Newest
      BY <1>2 DEF TheOneOf
    <2>2. TheOneOf(Newest) \in fixes
      BY <2>1 DEF Newest
    <2>3. \A f \in fixes : f \in 0 .. MaxTime
      BY SerializerAssumption
    <2>4. QED
      BY <2>2, <2>3
  <1>3. QED
    BY <1>1, <1>2

------------------------------------------------------------------------------
(***************************************************************************)
(* A finished section: its result is {} exactly when it threw in its try   *)
(* block, and the record goes on with the next.                            *)
(***************************************************************************)
LEMMA CloseStep ==
    ASSUME IInv, AtSection, NEW r \in Results, Close(r),
           \/ thrown' = thrown /\ (r.failed => call.program \in WrittenByCallbacks)
           \/ thrown' = thrown \cup {[at |-> n, inside |-> TRUE]} /\ r.failed
    PROVE  IInv'
  <1>1. /\ Control /\ Numbers /\ ThrownBefore /\ PositionIsOld
        /\ call.program \notin WrittenByCallbacks => FailedByThrow
    BY DEF IInv
  <1>2. /\ n \in Nat \ {0} /\ n \in DOMAIN call.program /\ n \in 1 .. Len(call.program)
        /\ DOMAIN call.program = 1 .. Len(call.program) /\ Len(call.program) \in Nat
    BY <1>1, HereIs DEF Control
  <1>3. /\ out' = Append(out, r) /\ n' = n + 1
        /\ phase' = IF n < Len(call.program) THEN "open" ELSE "sent"
        /\ UNCHANGED <<call, number, entries, prev, length, fixes, least, pos, skipped>>
    BY DEF Close, sdk
  <1>4. /\ out' \in Seq(Results) /\ Len(out') = n
        /\ \A s \in 1 .. Len(out) : out'[s] = out[s]
        /\ out'[n] = r /\ Len(out) = n - 1
    <2>1. out \in Seq(Results) /\ Len(out) = n - 1
      BY <1>1 DEF Control
    <2>2. /\ Append(out, r) \in Seq(Results) /\ Len(Append(out, r)) = Len(out) + 1
          /\ \A s \in 1 .. Len(out) : Append(out, r)[s] = out[s]
          /\ Append(out, r)[Len(out) + 1] = r
      BY <2>1, AppendProperties
    <2>3. QED
      BY <1>2, <1>3, <2>1, <2>2
  <1>5. Control'
    <2>1. \/ phase' = "open" /\ n' \in DOMAIN call.program
          \/ phase' = "sent" /\ n = Len(call.program)
      BY <1>2, <1>3
    <2>2. n' \in Nat \ {0} /\ Len(out') = n' - 1 /\ entries' \in Seq(Entries)
      BY <1>1, <1>2, <1>3, <1>4 DEF Control
    <2>3. call' \in Calls /\ phase' \in Phases
      BY <1>1, <1>3, <2>1 DEF Control, Phases, Outcomes
    <2>4. /\ AtSection' \/ phase' = "lost" => n' \in DOMAIN call'.program
          /\ phase' = "sent" => Len(out') = Len(call'.program)
      BY <1>3, <1>4, <2>1 DEF AtSection
    <2>5. QED
      BY <1>4, <2>1, <2>2, <2>3, <2>4 DEF Control
  <1>6. Numbers'
    BY <1>1, <1>3 DEF Numbers
  <1>7. phase # "lost"
    BY DEF AtSection
  <1>8. ThrownBefore'
    <2>1. /\ thrown \subseteq [at : DOMAIN call.program, inside : BOOLEAN]
          /\ \A t \in thrown : t.at < n
      BY <1>1, <1>7 DEF ThrownBefore
    <2>2. \A t \in thrown : t.at < n + 1
      BY <1>2, <2>1
    <2>3. LET x == [at |-> n, inside |-> TRUE]
          IN  x \in [at : DOMAIN call.program, inside : BOOLEAN] /\ x.at < n + 1
      BY <1>2
    <2>4. /\ thrown' \subseteq [at : DOMAIN call.program, inside : BOOLEAN]
          /\ \A t \in thrown' : t.at < n + 1
      BY <2>1, <2>2, <2>3
    <2>5. QED
      BY <1>3, <2>4 DEF ThrownBefore
  <1>9. ASSUME call.program \notin WrittenByCallbacks
        PROVE  FailedByThrow' /\ LostByThrow'
    <2>1. [at |-> n, inside |-> TRUE] \notin thrown
      BY <1>1, <1>2, <1>7 DEF ThrownBefore
    <2>2. r.failed \in BOOLEAN
      BY DEF Results
    <2>3. ASSUME NEW s \in 1 .. n
          PROVE  out'[s].failed <=> [at |-> s, inside |-> TRUE] \in thrown'
      <3>1. CASE s = n
        BY <1>4, <1>9, <2>1, <2>2, <3>1
      <3>2. CASE s # n
        <4>1. s \in 1 .. Len(out)
          BY <1>2, <1>4, <3>2
        <4>2. out'[s].failed <=> [at |-> s, inside |-> TRUE] \in thrown
          BY <1>1, <1>4, <1>9, <4>1 DEF FailedByThrow
        <4>3. [at |-> s, inside |-> TRUE] # [at |-> n, inside |-> TRUE]
          BY <3>2
        <4>4. QED
          BY <4>2, <4>3
      <3>3. QED
        BY <3>1, <3>2
    <2>4. phase' # "lost"
      BY <1>3
    <2>5. QED
      BY <1>4, <2>3, <2>4 DEF FailedByThrow, LostByThrow
  <1>10. Loops' /\ PositionIsOld'
    BY <1>1, <1>3 DEF Loops, PositionIsOld
  <1>11. QED
    BY <1>3, <1>5, <1>6, <1>8, <1>9, <1>10 DEF IInv

\* A lost record: only for a throw in no try block, or for its own bad text.
LEMMA LostStep ==
    ASSUME IInv, AtSection, Lost,
           \/ thrown' = thrown /\ call.program \in WrittenByCallbacks
           \/ thrown' = thrown \cup {[at |-> n, inside |-> FALSE]}
    PROVE  IInv'
  <1>1. /\ Control /\ Numbers /\ ThrownBefore /\ PositionIsOld
        /\ call.program \notin WrittenByCallbacks => FailedByThrow
    BY DEF IInv
  <1>2. /\ n \in Nat \ {0} /\ n \in DOMAIN call.program
    BY <1>1 DEF Control
  <1>3. /\ phase' = "lost" /\ phase # "lost"
        /\ UNCHANGED <<call, n, out, number, entries, prev, length, fixes, least, pos, skipped>>
    BY DEF Lost, AtSection, sdk
  <1>4. Control'
    BY <1>1, <1>2, <1>3 DEF Control, AtSection, Phases, Outcomes
  <1>5. Numbers'
    BY <1>1, <1>3 DEF Numbers
  <1>6. ThrownBefore'
    <2>1. /\ thrown \subseteq [at : DOMAIN call.program, inside : BOOLEAN]
          /\ \A t \in thrown : t.at < n
      BY <1>1, <1>3 DEF ThrownBefore
    <2>2. LET x == [at |-> n, inside |-> FALSE]
          IN  x \in [at : DOMAIN call.program, inside : BOOLEAN] /\ x.at = n /\ ~x.inside
      BY <1>2
    <2>3. /\ thrown' \subseteq [at : DOMAIN call.program, inside : BOOLEAN]
          /\ \A t \in thrown' : t.at < n \/ (t.at = n /\ ~t.inside)
      BY <2>1, <2>2
    <2>4. QED
      BY <1>3, <2>3 DEF ThrownBefore
  <1>7. ASSUME call.program \notin WrittenByCallbacks
        PROVE  FailedByThrow' /\ LostByThrow'
    <2>1. thrown' = thrown \cup {[at |-> n, inside |-> FALSE]}
      BY <1>7
    <2>2. \A s : [at |-> s, inside |-> TRUE] # [at |-> n, inside |-> FALSE]
      OBVIOUS
    <2>3. FailedByThrow'
      BY <1>1, <1>3, <1>7, <2>1, <2>2 DEF FailedByThrow
    <2>4. LostByThrow'
      <3>1. [at |-> n, inside |-> FALSE].at = n /\ ~[at |-> n, inside |-> FALSE].inside
        OBVIOUS
      <3>2. QED
        BY <1>3, <2>1, <3>1 DEF LostByThrow
    <2>5. QED
      BY <2>3, <2>4
  <1>8. Loops' /\ PositionIsOld'
    BY <1>1, <1>3 DEF Loops, PositionIsOld
  <1>9. QED
    BY <1>3, <1>4, <1>5, <1>6, <1>7, <1>8 DEF IInv

------------------------------------------------------------------------------
\* The parts of the invariant that a step within a section does not touch.
LEMMA RestStays ==
    ASSUME ThrownBefore, call.program \notin WrittenByCallbacks => FailedByThrow /\ LostByThrow,
           call' = call, n' = n, out' = out, thrown' = thrown,
           phase # "lost", phase' # "lost"
    PROVE  ThrownBefore' /\ (call'.program \notin WrittenByCallbacks => FailedByThrow' /\ LostByThrow')
  BY DEF ThrownBefore, FailedByThrow, LostByThrow

LEMMA InitIInv == Init => IInv
  <1> SUFFICES ASSUME Init PROVE IInv
    OBVIOUS
  <1>1. Control
    BY EmptySeq DEF Init, Control, Phases, Outcomes, AtSection
  <1>2. Numbers
    BY SerializerAssumption DEF Init, Numbers
  <1>3. ThrownBefore /\ FailedByThrow /\ LostByThrow
    BY EmptySeq DEF Init, ThrownBefore, FailedByThrow, LostByThrow
  <1>4. Loops /\ PositionIsOld
    BY DEF Init, Loops, PositionIsOld
  <1>5. QED
    BY <1>1, <1>2, <1>3, <1>4 DEF IInv

\* EuroScope changes a route: the shortest length it had bounds what is real.
LEMMA ChangesStep == IInv /\ Changes => IInv'
  <1> SUFFICES ASSUME IInv, Changes PROVE IInv'
    OBVIOUS
  <1>1. /\ phase = "body" /\ Here.loop \in {"counted", "until"}
        /\ length' \in 0 .. MaxLength
        /\ least' = IF length' < least THEN length' ELSE least
        /\ call' = call /\ n' = n /\ phase' = phase /\ number' = number /\ entries' = entries
        /\ prev' = prev /\ out' = out /\ fixes' = fixes /\ pos' = pos /\ skipped' = skipped
        /\ thrown' = thrown
    BY DEF Changes
  <1>2. Here' = Here /\ AtSection' = AtSection
    BY <1>1 DEF Here, AtSection
  <1>3. Control'
    BY <1>1, <1>2 DEF IInv, Control
  <1>4. Numbers'
    BY <1>1, SerializerAssumption DEF IInv, Numbers
  <1>5. Loops'
    <2>1. least' <= least /\ least \in Int /\ least' \in Int
      BY <1>1, SerializerAssumption DEF IInv, Numbers
    <2>2. Here.loop = "counted" => CountedLoop'
      <3>1. ASSUME Here.loop = "counted"
            PROVE  CountedLoop
        BY <1>1, <3>1 DEF IInv, Loops
      <3>2. Len(entries) \in Nat
        BY LenProperties DEF IInv, Control
      <3>3. QED
        BY <1>1, <2>1, <3>1, <3>2 DEF CountedLoop
    <2>3. Here.loop = "until" => UntilLoop'
      BY <1>1 DEF IInv, Loops, UntilLoop
    <2>4. QED
      BY <1>1, <1>2, <2>2, <2>3 DEF Loops
  <1>6. PositionIsOld'
    BY <1>1 DEF IInv, PositionIsOld
  <1>7. QED
    BY <1>1, <1>3, <1>4, <1>5, <1>6, RestStays DEF IInv

\* A new position comes in at the front, behind the walk nothing changes.
LEMMA NewFixStep == IInv /\ NewFix => IInv'
  <1> SUFFICES ASSUME IInv, NewFix PROVE IInv'
    OBVIOUS
  <1>1. /\ call' = call /\ n' = n /\ phase' = phase /\ number' = number /\ entries' = entries
        /\ prev' = prev /\ out' = out /\ length' = length /\ least' = least /\ pos' = pos
        /\ skipped' = skipped /\ thrown' = thrown /\ phase \notin Outcomes
    BY DEF NewFix, Running
  <1>2. PICK t \in 1 .. MaxTime :
          /\ \A f \in fixes : f < t
          /\ t \in fixes' /\ fixes' \subseteq fixes \cup {t}
    BY DEF NewFix
  <1>3. Here' = Here /\ AtSection' = AtSection
    BY <1>1 DEF Here, AtSection
  <1>4. Control'
    BY <1>1, <1>3 DEF IInv, Control
  <1>5. Numbers'
    BY <1>1, <1>2 DEF IInv, Numbers
  <1>6. pos # 0 => pos < t
    BY <1>2, SerializerAssumption DEF IInv, PositionIsOld, Numbers
  <1>7. PositionIsOld'
    BY <1>1, <1>2, <1>6, SerializerAssumption DEF IInv, Numbers, PositionIsOld
  <1>8. Loops'
    <2>1. phase = "body" /\ Here.loop = "history" => Walk'
      <3> SUFFICES ASSUME phase = "body" /\ Here.loop = "history"
                   PROVE  Walk'
        OBVIOUS
      <3>1. Walk
        BY DEF IInv, Loops
      <3>2. \A f \in fixes' : f < pos => f \in fixes
        BY <1>2, <1>6, SerializerAssumption DEF IInv, Numbers
      <3>3. QED
        BY <1>1, <3>1, <3>2 DEF Walk
    <2>2. QED
      BY <1>1, <1>3, <2>1 DEF IInv, Loops, CountedLoop, UntilLoop
  <1>9. QED
    BY <1>1, <1>4, <1>5, <1>7, <1>8, RestStays DEF IInv, Outcomes

LEMMA StartStep == IInv /\ (ReturnsAtOnce \/ Begins) => IInv'
  <1> SUFFICES ASSUME IInv, ReturnsAtOnce \/ Begins PROVE IInv'
    OBVIOUS
  <1>1. /\ phase = "start"
        /\ phase' \in {"not sent", "open"} \/ (phase' = "sent" /\ call.program = NoText)
        /\ phase' = "open" => call.program # NoText
        /\ call' = call /\ n' = n /\ number' = number /\ entries' = entries
        /\ prev' = prev /\ out' = out /\ length' = length /\ least' = least /\ pos' = pos
        /\ skipped' = skipped /\ thrown' = thrown /\ fixes' = fixes
    BY DEF ReturnsAtOnce, Begins, sdk
  <1>2. Control'
    <2>1. n = 1 /\ Len(out) = 0
      <3>1. n = 1 /\ Len(out) = n - 1
        BY <1>1 DEF IInv, Control
      <3>2. QED
        BY <3>1
    <2>2. phase' = "open" => n \in DOMAIN call.program
      <3>1. call \in Calls
        BY DEF IInv, Control
      <3>2. call.program # NoText => 1 \in DOMAIN call.program
        BY <3>1, ProgramOf
      <3>3. QED
        BY <1>1, <2>1, <3>2
    <2>3. phase' = "sent" => Len(out) = Len(call.program)
      BY <1>1, <2>1 DEF NoText
    <2>4. phase' \in Phases /\ phase' \notin {"start", "number", "body", "lost"}
      BY <1>1 DEF Phases, Outcomes
    <2>5. QED
      BY <1>1, <2>1, <2>2, <2>3, <2>4 DEF IInv, Control, AtSection
  <1>3. Numbers' /\ PositionIsOld'
    BY <1>1 DEF IInv, Numbers, PositionIsOld
  <1>4. Loops'
    BY <1>1 DEF Loops
  <1>5. phase # "lost" /\ phase' # "lost"
    BY <1>1
  <1>6. QED
    BY <1>1, <1>2, <1>3, <1>4, <1>5, RestStays DEF IInv

\* A section begins with nothing collected; the walk begins before the
\* position that was serialized.
LEMMA OpensStep == IInv /\ Opens => IInv'
  <1> SUFFICES ASSUME IInv, Opens PROVE IInv'
    OBVIOUS
  <1>1. /\ phase = "open" /\ phase' = IF Here.loop = "counted" THEN "number" ELSE "body"
        /\ entries' = <<>>
        /\ pos' = IF Here.name = "position" THEN TheOneOf(Newest) ELSE pos
        /\ prev' = IF Here.loop = "history" THEN TheOneOf(Previous(pos)) ELSE prev
        /\ length' \in IF Here.loop \in {"counted", "until"} THEN 0 .. MaxLength ELSE {length}
        /\ least' = length'
        /\ call' = call /\ n' = n /\ number' = number /\ out' = out /\ fixes' = fixes
        /\ skipped' = skipped /\ thrown' = thrown
    BY DEF Opens
  <1>2. Here' = Here
    BY <1>1 DEF Here
  <1>3. n \in DOMAIN call.program /\ Here \in Sections /\ Control /\ Numbers
    BY <1>1, HereIs DEF IInv, Control, AtSection
  <1>4. Here.name = "position" => Here.loop = "none"
    BY <1>3 DEF Sections
  <1>5. LET p == TheOneOf(Newest) IN p \in 0 .. MaxTime /\ (p # 0 => p \in fixes)
    BY <1>3, TheNewest DEF Numbers
  <1>6. LET p == TheOneOf(Previous(pos)) IN
          /\ p \in 0 .. MaxTime
          /\ p # 0 => p < pos
          /\ \A f \in fixes : f < pos => f <= p
    BY <1>3, ThePrevious, SerializerAssumption DEF Numbers
  <1>7. Control'
    <2>1. entries' \in Seq(Entries) /\ phase' \in Phases
      BY <1>1, EmptySeq DEF Phases
    <2>2. QED
      BY <1>1, <1>2, <1>3, <2>1 DEF Control, AtSection
  <1>8. Numbers'
    BY <1>1, <1>3, <1>5, <1>6, SerializerAssumption DEF Numbers
  <1>9. PositionIsOld'
    BY <1>1, <1>3, <1>5, SerializerAssumption DEF IInv, PositionIsOld, Numbers
  <1>10. Loops'
    <2>1. entries' = <<>> /\ Len(entries') = 0 /\ 1 .. Len(entries') = {}
      BY <1>1
    <2>2. CountedLoop' /\ UntilLoop'
      BY <1>8, <2>1, SerializerAssumption DEF Numbers, CountedLoop, UntilLoop
    <2>3. Here.loop = "history" => Walk'
      <3> SUFFICES ASSUME Here.loop = "history" PROVE Walk'
        OBVIOUS
      <3>1. prev' = TheOneOf(Previous(pos)) /\ pos' = pos
        BY <1>1, <1>4
      <3>2. prev' <= pos'
        BY <1>3, <1>6, <3>1, SerializerAssumption DEF Numbers
      <3>3. \A f \in fixes' : ~(prev' < f /\ f < pos')
        BY <1>1, <1>3, <1>6, <3>1, SerializerAssumption DEF Numbers
      <3>4. QED
        BY <1>3, <1>6, <2>1, <3>1, <3>2, <3>3 DEF Walk, Numbers
    <2>4. QED
      BY <1>1, <1>2, <2>2, <2>3 DEF Loops
  <1>11. phase # "lost" /\ phase' # "lost"
    BY <1>1
  <1>12. QED
    BY <1>1, <1>7, <1>8, <1>9, <1>10, <1>11, RestStays DEF IInv

LEMMA ReadsNumberStep == IInv /\ ReadsNumber => IInv'
  <1> SUFFICES ASSUME IInv, ReadsNumber PROVE IInv'
    OBVIOUS
  <1>1. /\ phase = "number" /\ phase' = "body" /\ number' = length /\ least' = length
        /\ length' = length /\ entries' = entries /\ prev' = prev /\ pos' = pos
        /\ call' = call /\ n' = n /\ out' = out /\ fixes' = fixes
        /\ skipped' = skipped /\ thrown' = thrown
    BY DEF ReadsNumber
  <1>2. Here' = Here /\ Here.loop = "counted" /\ entries = <<>>
    BY <1>1 DEF Here, IInv, Control
  <1>3. Control'
    BY <1>1, <1>2 DEF IInv, Control, AtSection, Phases
  <1>4. Numbers' /\ PositionIsOld'
    BY <1>1 DEF IInv, Numbers, PositionIsOld
  <1>5. Loops'
    <2>1. Len(entries') = 0 /\ 1 .. Len(entries') = {}
      BY <1>1, <1>2
    <2>2. CountedLoop'
      BY <1>4, <2>1, SerializerAssumption DEF CountedLoop, Numbers
    <2>3. QED
      BY <1>2, <2>2 DEF Loops
  <1>6. phase # "lost" /\ phase' # "lost"
    BY <1>1
  <1>7. QED
    BY <1>1, <1>3, <1>4, <1>5, <1>6, RestStays DEF IInv

\* A failure that is no throw has bad text to blame: a callback's own.
LEMMA FieldsStep == IInv /\ Fields => IInv'
  <1> SUFFICES ASSUME IInv, Fields PROVE IInv'
    OBVIOUS
  <1>1. AtSection /\ thrown' = thrown
    BY DEF Fields, AtSection
  <1>2. /\ n \in DOMAIN call.program /\ Control
        /\ call.program \notin WrittenByCallbacks => Here.dump = "replace"
    BY <1>1, HereIs DEF IInv, Control
  <1>3. PICK t \in Texts :
          IF Writable(t, Here.dump) THEN Close(Result(FALSE, 0, <<>>)) ELSE Fails
    BY DEF Fields
  <1>4. Result(FALSE, 0, <<>>) \in Results /\ ~Result(FALSE, 0, <<>>).failed
    BY EmptySeq DEF Result, Results
  <1>5. Result(TRUE, 0, <<>>) \in Results /\ Result(TRUE, 0, <<>>).failed
    BY EmptySeq DEF Result, Results
  <1>6. CASE Writable(t, Here.dump)
    BY <1>1, <1>3, <1>4, <1>6, CloseStep
  <1>7. CASE ~Writable(t, Here.dump)
    <2>1. call.program \in WrittenByCallbacks
      BY <1>2, <1>7 DEF Writable, Texts, SafeStr, CharField
    <2>2. Close(Result(TRUE, 0, <<>>)) \/ Lost
      BY <1>3, <1>7 DEF Fails
    <2>3. QED
      BY <1>1, <1>5, <2>1, <2>2, CloseStep, LostStep
  <1>8. QED
    BY <1>6, <1>7

\* Nothing is written any more.
LEMMA NullNameStep == IInv /\ NullName => IInv'
  <1> SUFFICES ASSUME IInv, NullName PROVE IInv'
    OBVIOUS
  <1>1. /\ phase = "body" /\ phase' = "undefined"
        /\ UNCHANGED <<call, n, number, entries, prev, out, length, fixes, least, pos, skipped, thrown>>
    BY DEF NullName, sdk
  <1>2. Control' /\ Numbers' /\ Loops' /\ PositionIsOld'
    BY <1>1 DEF IInv, Control, Numbers, Loops, PositionIsOld, Phases, Outcomes, AtSection
  <1>3. QED
    BY <1>1, <1>2, RestStays DEF IInv

\* What a loop has collected is what its section ends with.
LEMMA LoopResult ==
    ASSUME IInv, NEW num \in Nat
    PROVE  Result(FALSE, num, entries) \in Results /\ ~Result(FALSE, num, entries).failed
  BY DEF IInv, Control, Result, Results

LEMMA LoopEndStep ==
    ASSUME IInv, PointsEnd \/ HistoryEnds \/ (Element /\ ~(Len(entries) < length))
    PROVE  IInv'
  <1>1. AtSection /\ thrown' = thrown
    BY DEF PointsEnd, HistoryEnds, Element, AtSection
  <1>2. number \in Nat /\ Len(entries) \in Nat
    BY LenProperties, SerializerAssumption DEF IInv, Numbers, Control
  <1>3. \E num \in Nat : Close(Result(FALSE, num, entries))
    BY <1>2 DEF PointsEnd, HistoryEnds, Element
  <1>4. QED
    BY <1>1, <1>3, LoopResult, CloseStep

\* A loop takes one entry: nothing but entries, prev and skipped changes.
LEMMA Collecting ==
    ASSUME IInv, phase = "body", Here.loop # "none",
           phase' = phase, call' = call, n' = n, number' = number, out' = out,
           length' = length, least' = least, fixes' = fixes, pos' = pos, thrown' = thrown,
           entries' \in Seq(Entries), prev' \in 0 .. MaxTime, skipped' \subseteq 1 .. MaxTime,
           Here.loop = "counted" => CountedLoop', Here.loop = "until" => UntilLoop',
           Here.loop = "history" => Walk'
    PROVE  IInv'
  <1>1. Here' = Here /\ AtSection' = AtSection
    BY DEF Here, AtSection
  <1>2. Control'
    BY <1>1 DEF IInv, Control
  <1>3. Numbers' /\ PositionIsOld'
    BY DEF IInv, Numbers, PositionIsOld
  <1>4. Loops'
    BY <1>1 DEF Loops
  <1>5. QED
    BY <1>2, <1>3, <1>4, RestStays DEF IInv

\* The entry that a loop takes goes behind those it has.
LEMMA Taken ==
    ASSUME IInv, NEW e \in Entries, entries' = Append(entries, e)
    PROVE  /\ entries' \in Seq(Entries) /\ Len(entries) \in Nat
           /\ Len(entries') = Len(entries) + 1
           /\ \A i \in 1 .. Len(entries) : entries'[i] = entries[i]
           /\ entries'[Len(entries) + 1] = e
  BY AppendProperties, LenProperties DEF IInv, Control

LEMMA PointStep == IInv /\ Point => IInv'
  <1> SUFFICES ASSUME IInv, Point PROVE IInv'
    OBVIOUS
  <1> DEFINE e == IF Len(entries) < length THEN "real" ELSE "stale"
  <1>1. /\ phase = "body" /\ Here.loop = "counted" /\ Len(entries) < number
        /\ entries' = Append(entries, e)
        /\ phase' = phase /\ call' = call /\ n' = n /\ number' = number /\ out' = out
        /\ length' = length /\ least' = least /\ fixes' = fixes /\ pos' = pos
        /\ thrown' = thrown /\ prev' = prev /\ skipped' = skipped
    BY DEF Point, HasMorePoints, sdk
  <1>2. e \in Entries
    BY DEF Entries
  <1>3. /\ entries' \in Seq(Entries) /\ Len(entries) \in Nat
        /\ Len(entries') = Len(entries) + 1
        /\ \A i \in 1 .. Len(entries) : entries'[i] = entries[i]
        /\ entries'[Len(entries) + 1] = e
    BY <1>1, <1>2, Taken
  <1>4. CountedLoop
    BY <1>1 DEF IInv, Loops
  <1>5. number \in Nat /\ length \in Nat /\ least \in Nat /\ least <= length
    BY SerializerAssumption DEF IInv, Numbers
  <1>6. CountedLoop'
    <2>1. ASSUME NEW i \in 1 .. Len(entries'), i <= least
          PROVE  entries'[i] = "real"
      <3>1. CASE i \in 1 .. Len(entries)
        BY <1>3, <1>4, <2>1, <3>1 DEF CountedLoop
      <3>2. CASE i = Len(entries) + 1
        <4>1. Len(entries) < length
          BY <1>3, <1>5, <2>1, <3>2
        <4>2. QED
          BY <1>3, <3>2, <4>1
      <3>3. QED
        BY <1>3, <3>1, <3>2
    <2>2. Len(entries') <= number'
      BY <1>1, <1>3, <1>5
    <2>3. QED
      BY <1>1, <2>1, <2>2 DEF CountedLoop
  <1>7. prev' \in 0 .. MaxTime /\ skipped' \subseteq 1 .. MaxTime
    BY <1>1 DEF IInv, Numbers
  <1>8. QED
    BY <1>1, <1>3, <1>6, <1>7, Collecting

LEMMA ElementStep == IInv /\ Element => IInv'
  <1> SUFFICES ASSUME IInv, Element PROVE IInv'
    OBVIOUS
  <1>1. CASE Len(entries) < length
    <2>1. /\ phase = "body" /\ Here.loop = "until"
          /\ entries' = Append(entries, "real")
          /\ phase' = phase /\ call' = call /\ n' = n /\ number' = number /\ out' = out
          /\ length' = length /\ least' = least /\ fixes' = fixes /\ pos' = pos
          /\ thrown' = thrown /\ prev' = prev /\ skipped' = skipped
      BY <1>1 DEF Element, sdk
    <2>2. entries' \in Seq(Entries) /\ Len(entries) \in Nat /\ Len(entries') = Len(entries) + 1
      BY <2>1, Taken DEF Entries
    <2>3. UntilLoop'
      BY <1>1, <2>2, SerializerAssumption DEF IInv, Numbers, UntilLoop
    <2>4. prev' \in 0 .. MaxTime /\ skipped' \subseteq 1 .. MaxTime
      BY <2>1 DEF IInv, Numbers
    <2>5. QED
      BY <2>1, <2>2, <2>3, <2>4, Collecting
  <1>2. QED
    BY <1>1, LoopEndStep

(***************************************************************************)
(* One step back in time: what lies between the new prev and the old is    *)
(* the old one alone, and that is collected or left out.                   *)
(***************************************************************************)
LEMMA HistoryEntryStep == IInv /\ HistoryEntry => IInv'
  <1> SUFFICES ASSUME IInv, HistoryEntry PROVE IInv'
    OBVIOUS
  <1>1. /\ phase = "body" /\ Here.loop = "history" /\ prev # 0
        /\ prev' = TheOneOf(Previous(prev))
        /\ phase' = phase /\ call' = call /\ n' = n /\ number' = number /\ out' = out
        /\ length' = length /\ least' = least /\ fixes' = fixes /\ pos' = pos
        /\ thrown' = thrown
    BY DEF HistoryEntry, sdk
  <1>2. Walk /\ Numbers /\ entries \in Seq(Entries) /\ Len(entries) \in Nat
    BY <1>1, LenProperties DEF IInv, Loops, Control
  <1>3. /\ prev \in 1 .. MaxTime /\ pos \in Nat /\ prev < pos
        /\ \A f \in fixes : f \in Nat
    BY <1>1, <1>2, SerializerAssumption DEF Walk, Numbers
  <1>4. /\ prev' \in 0 .. MaxTime /\ prev' < prev
        /\ \A f \in fixes : f < prev => f <= prev'
    <2>1. LET p == TheOneOf(Previous(prev)) IN
            /\ p \in 0 .. MaxTime
            /\ p # 0 => p < prev
            /\ \A f \in fixes : f < prev => f <= p
      <3>1. fixes \subseteq 1 .. MaxTime /\ prev \in Nat
        BY <1>2, <1>3, SerializerAssumption DEF Numbers
      <3>2. QED
        BY <3>1, ThePrevious
    <2>2. QED
      BY <1>1, <1>3, <2>1, SerializerAssumption
  <1>5. \A f \in fixes : prev' < f => f = prev \/ prev < f
    BY <1>3, <1>4, SerializerAssumption
  <1>6. CASE entries' = Append(entries, prev) /\ skipped' = skipped
    <2>1. prev \in Entries
      BY <1>3, SerializerAssumption DEF Entries
    <2>2. /\ entries' \in Seq(Entries) /\ Len(entries') = Len(entries) + 1
          /\ \A i \in 1 .. Len(entries) : entries'[i] = entries[i]
          /\ entries'[Len(entries) + 1] = prev
      BY <1>6, <2>1, Taken
    <2>3. Walk'
      <3>1. \A i \in 1 .. Len(entries) : entries[i] \in Nat /\ prev < entries[i] /\ entries[i] < pos
        BY <1>2 DEF Walk
      <3>2. \A i \in 1 .. Len(entries') : i \in 1 .. Len(entries) \/ i = Len(entries) + 1
        BY <1>2, <2>2
      <3>3. \A i \in 1 .. Len(entries') :
              entries'[i] \in Nat /\ prev' < entries'[i] /\ entries'[i] < pos
        BY <1>3, <1>4, <2>2, <3>1, <3>2, SerializerAssumption
      <3>4. ASSUME NEW i \in 1 .. Len(entries'), NEW j \in 1 .. Len(entries'), i < j
            PROVE  entries'[i] > entries'[j]
        <4>1. i \in 1 .. Len(entries)
          BY <1>2, <2>2, <3>4
        <4>2. CASE j \in 1 .. Len(entries)
          BY <1>2, <2>2, <3>4, <4>1, <4>2 DEF Walk
        <4>3. CASE j = Len(entries) + 1
          BY <1>3, <2>2, <3>1, <4>1, <4>3
        <4>4. QED
          BY <3>2, <4>2, <4>3
      <3>5. ASSUME NEW f \in fixes, prev' < f, f < pos
            PROVE  f \in skipped \/ \E i \in 1 .. Len(entries') : entries'[i] = f
        <4>1. CASE f = prev
          BY <1>2, <2>2, <4>1
        <4>2. CASE prev < f
          <5>1. f \in skipped \/ \E i \in 1 .. Len(entries) : entries[i] = f
            BY <1>2, <3>5, <4>2 DEF Walk
          <5>2. 1 .. Len(entries) \subseteq 1 .. Len(entries')
            BY <1>2, <2>2
          <5>3. QED
            BY <2>2, <5>1, <5>2
        <4>3. QED
          BY <1>5, <3>5, <4>1, <4>2
      <3>6. prev' + Len(entries') <= pos /\ prev' < pos
        BY <1>2, <1>3, <1>4, <2>2, SerializerAssumption DEF Walk
      <3>7. QED
        BY <1>1, <1>6, <3>3, <3>4, <3>5, <3>6 DEF Walk
    <2>4. skipped' \subseteq 1 .. MaxTime
      BY <1>2, <1>6 DEF Numbers
    <2>5. QED
      BY <1>1, <1>4, <2>2, <2>3, <2>4, Collecting
  <1>7. CASE skipped' = skipped \cup {prev} /\ entries' = entries
    <2>1. Walk'
      BY <1>1, <1>2, <1>3, <1>4, <1>5, <1>7, SerializerAssumption DEF Walk
    <2>2. skipped' \subseteq 1 .. MaxTime
      BY <1>2, <1>3, <1>7 DEF Numbers
    <2>3. QED
      BY <1>1, <1>2, <1>4, <1>7, <2>1, <2>2, Collecting
  <1>8. QED
    BY <1>6, <1>7 DEF HistoryEntry

LEMMA SdkThrowsStep == IInv /\ SdkThrows => IInv'
  <1> SUFFICES ASSUME IInv, SdkThrows PROVE IInv'
    OBVIOUS
  <1>1. AtSection /\ thrown' = thrown \cup {[at |-> n, inside |-> Here.isolated /\ phase # "open"]}
    BY DEF SdkThrows, AtSection
  <1>2. Here.isolated \in BOOLEAN
    BY <1>1, HereIs DEF IInv, Control, Sections
  <1>3. Result(TRUE, 0, <<>>) \in Results /\ Result(TRUE, 0, <<>>).failed
    BY EmptySeq DEF Result, Results
  <1>4. CASE Here.isolated /\ phase # "open"
    <2>1. thrown' = thrown \cup {[at |-> n, inside |-> TRUE]}
      BY <1>1, <1>4
    <2>2. Close(Result(TRUE, 0, <<>>))
      BY <1>4 DEF SdkThrows, Fails
    <2>3. QED
      BY <1>1, <1>3, <2>1, <2>2, CloseStep
  <1>5. CASE ~(Here.isolated /\ phase # "open")
    <2>1. thrown' = thrown \cup {[at |-> n, inside |-> FALSE]}
      BY <1>1, <1>5
    <2>2. Lost
      BY <1>5 DEF SdkThrows, Fails
    <2>3. QED
      BY <1>1, <2>1, <2>2, LostStep
  <1>6. QED
    BY <1>4, <1>5

------------------------------------------------------------------------------
LEMMA NextIInv == IInv /\ [Next]_vars => IInv'
  <1> SUFFICES ASSUME IInv, [Next]_vars PROVE IInv'
    OBVIOUS
  <1>1. CASE Changes
    BY <1>1, ChangesStep
  <1>2. CASE NewFix
    BY <1>2, NewFixStep
  <1>3. CASE Works
    <2>1. CASE PointsEnd \/ HistoryEnds
      BY <2>1, LoopEndStep
    <2>2. QED
      BY <1>3, <2>1, StartStep, OpensStep, ReadsNumberStep, FieldsStep, NullNameStep, PointStep,
         ElementStep, HistoryEntryStep, SdkThrowsStep DEF Works
  <1>4. CASE UNCHANGED vars
    BY <1>4 DEF vars, IInv, Control, Numbers, ThrownBefore, FailedByThrow, LostByThrow, Loops,
                PositionIsOld, CountedLoop, UntilLoop, Walk, AtSection, Here
  <1>5. QED
    BY <1>1, <1>2, <1>3, <1>4 DEF Next

\* The invariant holds at every moment of every call of Serializer.cpp's functions.
THEOREM SpecInductive == Spec => []IInv
  BY InitIInv, NextIInv, PTL DEF Spec

(***************************************************************************)
(* Every section of Serializer.cpp is written once and in its place, for   *)
(* routes and histories of any length: no loop collects more than its      *)
(* object ever had.                                                        *)
(***************************************************************************)
THEOREM SpecTypeOK == Spec => []TypeOK
  <1>1. IInv => TypeOK
    <2> SUFFICES ASSUME IInv PROVE TypeOK
      OBVIOUS
    <2>1. phase = "body" => Len(entries) <= IF Here.loop = "history" THEN MaxTime ELSE MaxLength
      <3> SUFFICES ASSUME phase = "body"
                   PROVE  Len(entries) <= IF Here.loop = "history" THEN MaxTime ELSE MaxLength
        OBVIOUS
      <3>1. Here.loop \in LoopKinds
        BY HereIs DEF IInv, Control, AtSection, Sections
      <3>2. Len(entries) \in Nat /\ number \in 0 .. MaxLength /\ prev \in 0 .. MaxTime /\ pos \in 0 .. MaxTime
        BY LenProperties DEF IInv, Control, Numbers
      <3>3. CASE Here.loop = "none"
        BY <3>3, SerializerAssumption DEF IInv, Loops
      <3>4. CASE Here.loop = "counted"
        BY <3>2, <3>4, SerializerAssumption DEF IInv, Loops, CountedLoop
      <3>5. CASE Here.loop = "until"
        BY <3>5 DEF IInv, Loops, UntilLoop
      <3>6. CASE Here.loop = "history"
        BY <3>2, <3>6, SerializerAssumption DEF IInv, Loops, Walk
      <3>7. QED
        BY <3>1, <3>3, <3>4, <3>5, <3>6 DEF LoopKinds
    <2>2. \A t \in thrown : t.at \in DOMAIN call.program /\ t.inside \in BOOLEAN
      BY DEF IInv, ThrownBefore
    <2>3. QED
      BY <2>1, <2>2 DEF IInv, Control, Numbers, Phases, AtSection, TypeOK
  <1>2. QED
    BY <1>1, SpecInductive, PTL

(***************************************************************************)
(* The try blocks of Serializer.cpp, SerializeSafe and the callbacks': an  *)
(* exception costs its own section or, outside of all, its own record; a   *)
(* record is never lost to its text.                                       *)
(***************************************************************************)
THEOREM SpecFailuresStayLocal == Spec => []FailuresStayLocal
  <1>1. IInv => FailuresStayLocal
    <2>1. IInv => DOMAIN out = 1 .. Len(out)
      BY LenProperties DEF IInv, Control
    <2>2. QED
      BY <2>1 DEF IInv, FailedByThrow, LostByThrow, FailuresStayLocal
  <1>2. QED
    BY <1>1, SpecInductive, PTL

(***************************************************************************)
(* The route loops of SerializeFlightPlan: the list of points is as long   *)
(* as the points_number beside it, and what lay behind the shortest length *)
(* of the route is all that can be stale.                                  *)
(***************************************************************************)
THEOREM SpecPointsMatchNumber == Spec => []PointsMatchNumber
  <1>1. IInv => PointsMatchNumber
    <2> SUFFICES ASSUME IInv, phase = "body", Here.loop = "counted"
                 PROVE  /\ ~HasMorePoints => Len(entries) = number
                        /\ \A i \in DOMAIN entries : i <= least => entries[i] = "real"
      BY DEF PointsMatchNumber
    <2>1. CountedLoop
      BY DEF IInv, Loops
    <2>2. Len(entries) \in Nat /\ DOMAIN entries = 1 .. Len(entries) /\ number \in Nat
      BY LenProperties, SerializerAssumption DEF IInv, Control, Numbers
    <2>3. ~HasMorePoints => Len(entries) = number
      <3>1. Len(entries) <= number
        BY <2>1 DEF CountedLoop
      <3>2. \A a, b \in Nat : a <= b => a < b \/ a = b
        OBVIOUS
      <3>3. Len(entries) < number \/ Len(entries) = number
        BY <2>2, <3>1, <3>2
      <3>4. QED
        BY <3>3 DEF HasMorePoints
    <2>4. \A i \in 1 .. Len(entries) : i <= least => entries[i] = "real"
      BY <2>1 DEF CountedLoop
    <2>5. QED
      BY <2>2, <2>3, <2>4
  <1>2. QED
    BY <1>1, SpecInductive, PTL

(***************************************************************************)
(* The loop over GetPreviousPosition in SerializeRadarTarget: it goes back *)
(* in time and leaves no position out but one that failed or that          *)
(* EuroScope has dropped, however many come in meanwhile.                  *)
(***************************************************************************)
THEOREM SpecHistoryDescends == Spec => []HistoryDescends
  <1>1. IInv => HistoryDescends
    <2>1. IInv => DOMAIN entries = 1 .. Len(entries)
      BY LenProperties DEF IInv, Control
    <2>2. QED
      BY <2>1 DEF IInv, Loops, Walk, HistoryDescends
  <1>2. QED
    BY <1>1, SpecInductive, PTL

------------------------------------------------------------------------------
(***************************************************************************)
(* Why a call ends: what a loop has left to do is bounded before it begins *)
(* and is nothing that EuroScope can add to.                               *)
(***************************************************************************)
LoopLeft ==
    CASE Here.loop = "counted" -> number - Len(entries)
      [] Here.loop = "until"   -> MaxLength - Len(entries)
      [] Here.loop = "history" -> prev
      [] OTHER -> 0

Later == {<<"start", "open">>, <<"open", "number">>, <<"open", "body">>, <<"number", "body">>}

Advances ==
    \/ phase' \in Outcomes
    \/ n' = n + 1 /\ n' \in DOMAIN call.program
    \/ n' = n /\ <<phase, phase'>> \in Later
    \/ n' = n /\ phase' = phase /\ LoopLeft' \in Nat /\ LoopLeft' < LoopLeft

HoldsNothingUp == UNCHANGED <<call, n, phase>> /\ (phase = "body" => LoopLeft' = LoopLeft)

LEMMA CloseAdvances ==
    ASSUME IInv, AtSection, NEW r, Close(r)
    PROVE  Advances
  <1>1. n \in Nat /\ n \in 1 .. Len(call.program) /\ DOMAIN call.program = 1 .. Len(call.program)
        /\ Len(call.program) \in Nat
    BY HereIs DEF IInv, Control
  <1>2. n' = n + 1 /\ phase' = IF n < Len(call.program) THEN "open" ELSE "sent"
    BY DEF Close
  <1>3. QED
    BY <1>1, <1>2 DEF Advances, Outcomes

LEMMA LostAdvances == Lost => Advances
  BY DEF Lost, Advances, Outcomes

\* An entry is one less to go.
LEMMA EntryAdvances ==
    ASSUME IInv, Point \/ HistoryEntry \/ (Element /\ Len(entries) < length)
    PROVE  Advances
  <1>1. /\ phase = "body" /\ phase' = phase /\ n' = n /\ call' = call /\ number' = number
    BY DEF Point, HistoryEntry, Element
  <1>2. Here' = Here /\ Len(entries) \in Nat
    BY <1>1, LenProperties DEF Here, IInv, Control
  <1>3. number \in Nat /\ length \in 0 .. MaxLength /\ prev \in 0 .. MaxTime
    BY SerializerAssumption DEF IInv, Numbers
  <1>4. CASE Point
    <2>1. Here.loop = "counted" /\ Len(entries) < number
      BY <1>4 DEF Point, HasMorePoints
    <2>2. \E e \in Entries : entries' = Append(entries, e)
      BY <1>4 DEF Point, Entries
    <2>3. Len(entries') = Len(entries) + 1
      BY <2>2, Taken
    <2>4. LoopLeft = number - Len(entries) /\ LoopLeft' = number - Len(entries')
      BY <1>1, <1>2, <2>1 DEF LoopLeft
    <2>5. QED
      BY <1>1, <1>2, <1>3, <2>1, <2>3, <2>4 DEF Advances
  <1>5. CASE Element /\ Len(entries) < length
    <2>1. Here.loop = "until" /\ entries' = Append(entries, "real")
      BY <1>5 DEF Element
    <2>2. Len(entries') = Len(entries) + 1
      BY <2>1, Taken DEF Entries
    <2>3. LoopLeft = MaxLength - Len(entries) /\ LoopLeft' = MaxLength - Len(entries')
      BY <1>2, <2>1 DEF LoopLeft
    <2>4. MaxLength - Len(entries') \in Nat /\ MaxLength - Len(entries') < MaxLength - Len(entries)
      BY <1>2, <1>3, <1>5, <2>2, SerializerAssumption
    <2>5. QED
      BY <1>1, <2>3, <2>4 DEF Advances
  <1>6. CASE HistoryEntry
    <2>1. Here.loop = "history" /\ prev # 0 /\ prev' = TheOneOf(Previous(prev))
      BY <1>6 DEF HistoryEntry
    <2>2. LET p == TheOneOf(Previous(prev)) IN
            /\ p \in 0 .. MaxTime
            /\ p # 0 => p < prev
      <3>1. prev \in Nat /\ fixes \subseteq 1 .. MaxTime
        BY <1>3, SerializerAssumption DEF IInv, Numbers
      <3>2. QED
        BY <3>1, ThePrevious
    <2>3. prev' \in Nat /\ prev' < prev
      BY <1>3, <2>1, <2>2, SerializerAssumption
    <2>4. LoopLeft = prev /\ LoopLeft' = prev'
      BY <1>2, <2>1 DEF LoopLeft
    <2>5. QED
      BY <1>1, <2>3, <2>4 DEF Advances
  <1>7. QED
    BY <1>4, <1>5, <1>6

LEMMA WorksAdvances == IInv /\ Works => Advances
  <1> SUFFICES ASSUME IInv, Works PROVE Advances
    OBVIOUS
  <1>1. CASE ReturnsAtOnce \/ Begins \/ Opens \/ ReadsNumber \/ NullName
    BY <1>1 DEF ReturnsAtOnce, Begins, Opens, ReadsNumber, NullName, Advances, Later, Outcomes
  <1>2. CASE Fields
    <2>1. AtSection
      BY <1>2 DEF Fields, AtSection
    <2>2. PICK t \in Texts : IF Writable(t, Here.dump) THEN Close(Result(FALSE, 0, <<>>)) ELSE Fails
      BY <1>2 DEF Fields
    <2>3. Close(Result(FALSE, 0, <<>>)) \/ Close(Result(TRUE, 0, <<>>)) \/ Lost
      BY <2>2 DEF Fails
    <2>4. QED
      BY <2>1, <2>3, CloseAdvances, LostAdvances
  <1>3. CASE SdkThrows
    <2>1. AtSection /\ \/ \E r : Close(r)
                        \/ Lost
      BY <1>3 DEF SdkThrows, Fails, AtSection
    <2>2. QED
      BY <2>1, CloseAdvances, LostAdvances
  <1>4. CASE PointsEnd \/ HistoryEnds \/ (Element /\ ~(Len(entries) < length))
    <2>1. AtSection /\ \E r : Close(r)
      BY <1>4 DEF PointsEnd, HistoryEnds, Element, AtSection
    <2>2. QED
      BY <2>1, CloseAdvances
  <1>5. CASE Point \/ HistoryEntry \/ (Element /\ Len(entries) < length)
    BY <1>5, EntryAdvances
  <1>6. QED
    BY <1>1, <1>2, <1>3, <1>4, <1>5 DEF Works

(***************************************************************************)
(* Every step of a serializer brings its call nearer to its end, to the    *)
(* next section, or with fewer entries left to the end of its loop; no     *)
(* step of EuroScope's takes it back, whatever it adds to the object.      *)
(***************************************************************************)
THEOREM SpecAdvances == Spec => [][IF Works THEN Advances ELSE HoldsNothingUp]_vars
  <1>1. IInv /\ [Next]_vars => [IF Works THEN Advances ELSE HoldsNothingUp]_vars
    <2> SUFFICES ASSUME IInv, Next PROVE IF Works THEN Advances ELSE HoldsNothingUp
      OBVIOUS
    <2>1. CASE Works
      BY <2>1, WorksAdvances
    <2>2. CASE Changes \/ NewFix
      <3>1. /\ call' = call /\ n' = n /\ phase' = phase /\ number' = number
            /\ entries' = entries /\ prev' = prev
        BY <2>2 DEF Changes, NewFix
      <3>2. Here' = Here
        BY <3>1 DEF Here
      <3>3. LoopLeft' = LoopLeft
        BY <3>1, <3>2 DEF LoopLeft
      <3>4. ~Works => HoldsNothingUp
        BY <3>1, <3>3 DEF HoldsNothingUp
      <3>5. Works => Advances
        BY WorksAdvances
      <3>6. QED
        BY <3>4, <3>5
    <2>3. QED
      BY <2>1, <2>2 DEF Next
  <1>2. QED
    BY <1>1, SpecInductive, PTL DEF Spec
=============================================================================
