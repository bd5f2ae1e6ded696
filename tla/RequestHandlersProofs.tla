------------------------ MODULE RequestHandlersProofs ------------------------
(***************************************************************************)
(* Proofs about RequestHandlers, for any objects EuroScope may have: that  *)
(* an error changes nothing, that "not found" is true, that success speaks *)
(* of the object that was asked for, and that a list, however long it      *)
(* takes, is bracketed by what was there all the time and what was there   *)
(* at some time.                                                           *)
(***************************************************************************)
EXTENDS RequestHandlers, SequenceTheorems, TLAPS

(***************************************************************************)
(* What the proofs need to know of a row of the table: a handler of lists  *)
(* refuses nothing, looks nothing up and changes nothing, goes through     *)
(* each collection once, and one that looks for a channel looks for        *)
(* nothing else.  No handler looks a sector element up.                    *)
(***************************************************************************)
GoodRow(h) ==
    /\ h.lists \in Seq(Kinds)
    /\ h.looks \in Seq(Kinds)
    /\ h.lists # <<>> => ~h.named /\ h.early = {} /\ h.acts = "nothing" /\ h.looks = <<>>
    /\ \A m, n \in 1 .. Len(h.lists) : h.lists[m] = h.lists[n] => m = n
    /\ \A n \in 1 .. Len(h.looks) : h.looks[n] = "ch" => n = 1 /\ Len(h.looks) = 1
    /\ \A n \in 1 .. Len(h.looks) : h.looks[n] # "se"

Rows == {AssignedDataSetter, SetCommunicationType, FlightPlanDataSetter, AmendOrTrack,
         AnswerHandoff, InitiateHandoff, PushFlightStrip, SetEstimation,
         SetFlightStripAnnotation, Correlate, Uncorrelate("fp"), Uncorrelate("rt"),
         SetAsel("fp"), SetAsel("rt"), DisplayMessage, SendCommand, ToggleChannel, GetNumber,
         List(<<"fp">>), List(<<"rt">>), List(<<"me", "ct">>), List(<<"se">>),
         List(<<"ch">>), List(<<"fp", "rt", "ct", "me">>)}

------------------------------------------------------------------------------
LEMMA TableHoldsRows == \A t \in DOMAIN Table : Table[t] \in Rows
  BY DEF Table, Rows

LEMMA ShortSequences ==
    /\ <<>> \in Seq(Kinds)
    /\ \A k \in Kinds : <<k>> \in Seq(Kinds)
    /\ <<"fp", "rt">> \in Seq(Kinds) /\ <<"me", "ct">> \in Seq(Kinds)
    /\ <<"fp", "rt", "ct", "me">> \in Seq(Kinds)
  BY DEF Kinds

LEMMA LookupRow ==
    ASSUME NEW h, h.lists = <<>>,
           h.looks \in {<<>>, <<"fp">>, <<"rt">>, <<"ch">>, <<"fp", "rt">>}
    PROVE  GoodRow(h)
  <1>1. h.looks \in Seq(Kinds)
    BY ShortSequences DEF Kinds
  <1>2. /\ \A n \in 1 .. Len(h.looks) : h.looks[n] = "ch" => n = 1 /\ Len(h.looks) = 1
        /\ \A n \in 1 .. Len(h.looks) : h.looks[n] # "se"
    OBVIOUS
  <1>3. QED
    BY <1>1, <1>2, ShortSequences DEF GoodRow

LEMMA ListRow ==
    ASSUME NEW kinds \in {<<"fp">>, <<"rt">>, <<"me", "ct">>, <<"se">>, <<"ch">>,
                          <<"fp", "rt", "ct", "me">>}
    PROVE  GoodRow(List(kinds))
  <1> DEFINE h == List(kinds)
  <1>1. h.lists = kinds /\ h.looks = <<>> /\ ~h.named /\ h.early = {} /\ h.acts = "nothing"
    BY DEF List, GetNumber, Row
  <1>2. h.lists \in Seq(Kinds)
    BY <1>1, ShortSequences DEF Kinds
  <1>3. \A m, n \in 1 .. Len(kinds) : kinds[m] = kinds[n] => m = n
    <2>1. CASE kinds \in {<<"fp">>, <<"rt">>, <<"se">>, <<"ch">>}
      BY <2>1
    <2>2. CASE kinds = <<"me", "ct">>
      BY <2>2
    <2>3. CASE kinds = <<"fp", "rt", "ct", "me">>
      BY <2>3
    <2>4. QED
      BY <2>1, <2>2, <2>3
  <1>4. GoodRow(h)
    <2> HIDE DEF h
    <2>1. QED
      BY <1>1, <1>2, <1>3, ShortSequences DEF GoodRow
  <1>5. QED
    BY <1>4

LEMMA RowsAreGood == \A h \in Rows : GoodRow(h)
  <1>1. /\ GoodRow(AssignedDataSetter) /\ GoodRow(FlightPlanDataSetter) /\ GoodRow(AmendOrTrack)
        /\ GoodRow(SetEstimation) /\ GoodRow(SetFlightStripAnnotation) /\ GoodRow(Correlate)
        /\ GoodRow(Uncorrelate("fp")) /\ GoodRow(Uncorrelate("rt"))
        /\ GoodRow(SetAsel("fp")) /\ GoodRow(SetAsel("rt"))
        /\ GoodRow(DisplayMessage) /\ GoodRow(SendCommand) /\ GoodRow(ToggleChannel)
        /\ GoodRow(GetNumber)
    BY LookupRow
    DEF AssignedDataSetter, FlightPlanDataSetter, AmendOrTrack, SetEstimation,
        SetFlightStripAnnotation, Correlate, Uncorrelate, SetAsel, DisplayMessage, SendCommand,
        ToggleChannel, GetNumber, Row
  <1>2. \A h \in {SetCommunicationType, AnswerHandoff, InitiateHandoff, PushFlightStrip} :
          h.lists = <<>> /\ h.looks = <<"fp">>
    BY DEF SetCommunicationType, AnswerHandoff, InitiateHandoff, PushFlightStrip,
           AssignedDataSetter, AmendOrTrack, Row
  <1>3. /\ GoodRow(SetCommunicationType) /\ GoodRow(AnswerHandoff)
        /\ GoodRow(InitiateHandoff) /\ GoodRow(PushFlightStrip)
    BY <1>2, LookupRow
  <1>4. QED
    BY <1>1, <1>3, ListRow DEF Rows

\* Whatever the type, its row is a good one.
LEMMA RowOfIsGood == \A t : GoodRow(RowOf(t))
  <1>1. GoodRow(GetNumber)
    BY RowsAreGood DEF Rows
  <1>2. QED
    BY <1>1, RowsAreGood, TableHoldsRows DEF RowOf

------------------------------------------------------------------------------
Lists == RowOf(request.type).lists

\* What was there all the time is there now, and what is there now has been.
WorldInv ==
    /\ world \in Worlds /\ seen \in Worlds /\ kept \in Worlds
    /\ \A k \in Kinds : kept[k] \subseteq world[k] /\ world[k] \subseteq seen[k]

\* A handler only gets as far as its row allows, and nothing is done before the end.
ControlInv ==
    /\ pc \in {"lookup", "list"} => request.type \in DOMAIN Table
    /\ pc = "lookup" => Lists = <<>>
    /\ pc # "answered" => ~effect
    /\ pc = "start" => /\ looked = 0 /\ cursor = 0 /\ left = Lists
                       /\ items = [k \in Kinds |-> <<>>]

\* The channels passed so far are not the one asked for, or have gone.
LookInv == pc = "lookup" /\ looked = 0 => \A i \in kept["ch"] \cap Asked("ch") : i > cursor

\* What has been looked up is what was asked for, and has existed.
TargetInv == pc = "lookup" => \A n \in 1 .. looked : RightTarget(Handler.looks[n])

(***************************************************************************)
(* How far a list is: the collections before the nth are finished, what is *)
(* collected of the nth is bracketed up to the cursor, and the others have *)
(* not begun.                                                              *)
(***************************************************************************)
Listed(k) == {items[k][n] : n \in 1 .. Len(items[k])}
Ascending(s) == \A m, n \in 1 .. Len(s) : m < n => s[m] < s[n]
Partly(k) ==
    /\ \A i \in (kept[k] \cap Asked(k)) \ Unserializable : i <= cursor => i \in Listed(k)
    /\ Listed(k) \subseteq seen[k] \cap Asked(k)
    /\ \A i \in Listed(k) : i <= cursor
    /\ Ascending(items[k])
Progress(n) ==
    /\ left = SubSeq(Lists, n, Len(Lists))
    /\ \A m \in 1 .. Len(Lists) : m < n => Bracketed(Lists[m])
    /\ Partly(Lists[n])
    /\ \A m \in 1 .. Len(Lists) : m > n => items[Lists[m]] = <<>>
ListInv == pc = "list" => \E n \in 1 .. Len(Lists) : Progress(n)

IInv ==
    /\ TypeOK /\ WorldInv /\ ControlInv /\ LookInv /\ TargetInv /\ ListInv
    /\ NotFoundMeansAbsent /\ ErrorsLeaveNoTrace /\ SuccessMeansFound /\ ListsAreBracketed

------------------------------------------------------------------------------
LEMMA ItemsAreNumbers ==
    /\ AllItems \subseteq Nat \ {0}
    /\ \A w \in Worlds, k \in Kinds : w[k] \subseteq Items[k] /\ w[k] \subseteq AllItems
  BY ItemsAssumption DEF AllItems, Worlds

LEMMA AskedStays == ASSUME UNCHANGED request PROVE \A k : Asked(k)' = Asked(k)
  BY DEF Asked, Handler

LEMMA RightTargetStays ==
    ASSUME UNCHANGED <<request, seen, kept>>, NEW k, target'[k] = target[k], RightTarget(k)
    PROVE  RightTarget(k)'
  BY AskedStays DEF RightTarget

\* Everything a handler has looked up so far is of some kind.
LEMMA LookedUpKinds ==
    ASSUME IInv, pc = "lookup"
    PROVE  /\ looked \in Nat
           /\ \A n \in 1 .. looked : n \in 1 .. Len(Handler.looks) /\ Handler.looks[n] \in Kinds
  <1>1. Handler = RowOf(request.type)
    BY DEF IInv, ControlInv, Handler, RowOf
  <1>2. Handler.looks \in Seq(Kinds) /\ looked \in 0 .. Len(Handler.looks)
    <2>1. looked \in 0 .. Len(RowOf(request.type).looks)
      BY DEF IInv, TypeOK
    <2>2. QED
      BY <1>1, <2>1, RowOfIsGood DEF GoodRow
  <1>3. Len(Handler.looks) \in Nat
    BY <1>2, LenProperties
  <1>4. QED
    BY <1>2, <1>3, ElementOfSeq

LEMMA InitIInv == Init => IInv
  <1> SUFFICES ASSUME Init PROVE IInv
    OBVIOUS
  <1>1. GoodRow(RowOf(request.type))
    BY RowOfIsGood
  <1>2. world \in Worlds
    <2>1. PICK S : world = [k \in Kinds |-> {i \in Items[k] : <<k, i>> \in S}]
      BY DEF Init
    <2>2. \A k \in Kinds : world[k] \subseteq Items[k] /\ world[k] \subseteq AllItems
      BY <2>1 DEF AllItems
    <2>3. QED
      BY <2>1, <2>2 DEF Worlds
  <1>3. WorldInv
    BY <1>2 DEF Init, WorldInv
  <1>4. TypeOK
    <2>1. left = SubSeq(RowOf(request.type).lists, 0 + 1, Len(RowOf(request.type).lists))
      BY <1>1, SubSeqFull DEF GoodRow, Init
    <2>2. Len(RowOf(request.type).lists) \in Nat /\ Len(RowOf(request.type).looks) \in Nat
      BY <1>1, LenProperties DEF GoodRow
    <2>3. target \in Targets
      BY DEF Init, Targets
    <2>4. items \in [Kinds -> Seq(AllItems)]
      BY DEF Init
    <2>5. answer \in Answers
      BY DEF Init, Answers, NoAnswer, Answer
    <2>6. \E n \in 0 .. Len(RowOf(request.type).lists) :
            left = SubSeq(RowOf(request.type).lists, n + 1, Len(RowOf(request.type).lists))
      <3>1. 0 \in 0 .. Len(RowOf(request.type).lists)
        BY <2>2
      <3>2. QED
        BY <2>1, <3>1
    <2>7. looked \in 0 .. Len(RowOf(request.type).looks)
      BY <2>2 DEF Init
    <2>8. QED
      BY <1>3, <2>3, <2>4, <2>5, <2>6, <2>7 DEF Init, TypeOK, WorldInv
  <1>5. QED
    BY <1>3, <1>4
    DEF Init, IInv, ControlInv, Lists, LookInv, TargetInv, ListInv, NotFoundMeansAbsent,
        ErrorsLeaveNoTrace, SuccessMeansFound, ListsAreBracketed, Answered

(***************************************************************************)
(* EuroScope: nothing of the handler changes, what was there all the time  *)
(* gets less, what was there at some time gets more.                       *)
(***************************************************************************)
Outside ==
    /\ UNCHANGED <<pc, answer, handler>> /\ pc # "answered"
    /\ WorldInv'
    /\ \A k \in Kinds : kept'[k] \subseteq kept[k] /\ seen[k] \subseteq seen'[k]

LEMMA EuroScopeIsOutside == WorldInv /\ EuroScope => Outside
  <1> SUFFICES ASSUME WorldInv, NEW k \in Kinds, NEW i \in AllItems,
                      Appears(k, i) \/ Vanishes(k, i)
               PROVE  Outside
    BY DEF EuroScope
  <1>1. CASE Appears(k, i)
    <2>1. i \in Items[k] /\ UNCHANGED <<pc, answer, kept, handler>> /\ pc # "answered"
      BY <1>1 DEF Appears
    <2>2. \A j \in Kinds : /\ world'[j] = IF j = k THEN world[j] \cup {i} ELSE world[j]
                           /\ seen'[j] = IF j = k THEN seen[j] \cup {i} ELSE seen[j]
      BY <1>1 DEF Appears, WorldInv, Worlds
    <2>3. world' \in Worlds /\ seen' \in Worlds
      BY <1>1, <2>1 DEF Appears, WorldInv, Worlds
    <2>4. QED
      BY <2>1, <2>2, <2>3 DEF Outside, WorldInv
  <1>2. CASE Vanishes(k, i)
    <2>1. UNCHANGED <<pc, answer, seen, handler>> /\ pc # "answered"
      BY <1>2 DEF Vanishes
    <2>2. \A j \in Kinds : /\ world'[j] = IF j = k THEN world[j] \ {i} ELSE world[j]
                           /\ kept'[j] = IF j = k THEN kept[j] \ {i} ELSE kept[j]
      BY <1>2 DEF Vanishes, WorldInv, Worlds
    <2>3. world' \in Worlds /\ kept' \in Worlds
      BY <1>2 DEF Vanishes, WorldInv, Worlds
    <2>4. QED
      BY <2>1, <2>2, <2>3 DEF Outside, WorldInv
  <1>3. QED
    BY <1>1, <1>2

LEMMA OutsideStep == IInv /\ Outside => IInv'
  <1> SUFFICES ASSUME IInv, Outside PROVE IInv'
    OBVIOUS
  <1>1. /\ UNCHANGED <<pc, answer, request, target, looked, left, cursor, items, effect>>
        /\ pc # "answered" /\ WorldInv'
        /\ \A k \in Kinds : kept'[k] \subseteq kept[k] /\ seen[k] \subseteq seen'[k]
    BY DEF Outside, handler
  <1>2. \A k : Asked(k)' = Asked(k)
    BY <1>1, AskedStays
  <1>3. TypeOK' /\ ControlInv'
    BY <1>1 DEF IInv, TypeOK, ControlInv, WorldInv, Lists
  <1>4. LookInv'
    BY <1>1, <1>2 DEF IInv, LookInv, Kinds
  <1>5. ListInv'
    <2> SUFFICES ASSUME pc = "list" PROVE \E n \in 1 .. Len(Lists) : Progress(n)'
      BY <1>1 DEF ListInv, Lists
    <2>1. PICK n \in 1 .. Len(Lists) : Progress(n)
      BY DEF IInv, ListInv
    <2>2. \A m \in 1 .. Len(Lists) : Lists[m] \in Kinds
      BY RowOfIsGood, ElementOfSeq DEF GoodRow, Lists
    <2>3. ASSUME NEW k \in Kinds, Bracketed(k) PROVE Bracketed(k)'
      BY <1>1, <1>2, <2>3 DEF Bracketed
    <2>4. ASSUME NEW k \in Kinds, Partly(k) PROVE Partly(k)'
      BY <1>1, <1>2, <2>4 DEF Partly, Listed
    <2>5. Lists' = Lists
      BY <1>1 DEF Lists
    <2>6. Progress(n)'
      BY <1>1, <2>1, <2>2, <2>3, <2>4, <2>5 DEF Progress
    <2>7. QED
      BY <2>6
  <1>6. NotFoundMeansAbsent' /\ ErrorsLeaveNoTrace' /\ SuccessMeansFound' /\ ListsAreBracketed'
    BY <1>1 DEF NotFoundMeansAbsent, ErrorsLeaveNoTrace, SuccessMeansFound, ListsAreBracketed,
                Answered
  <1>7. TargetInv'
    <2> SUFFICES ASSUME pc = "lookup", NEW m \in 1 .. looked
                 PROVE  RightTarget(Handler.looks[m])'
      BY <1>1 DEF TargetInv
    <2>1. PICK k \in Kinds : k = Handler.looks[m]
      BY LookedUpKinds
    <2>2. RightTarget(k)
      BY <2>1 DEF IInv, TargetInv
    <2>3. RightTarget(k)'
      BY <1>1, <1>2, <2>2 DEF RightTarget
    <2>4. Handler' = Handler
      BY <1>1 DEF Handler
    <2>5. QED
      BY <2>1, <2>3, <2>4
  <1>8. QED
    BY <1>1, <1>3, <1>4, <1>5, <1>6, <1>7 DEF IInv

------------------------------------------------------------------------------
(***************************************************************************)
(* The worker: it leaves the world alone.                                  *)
(***************************************************************************)
WorldStays == UNCHANGED <<world, seen, kept, request>>

LEMMA WorldInvStays == WorldInv /\ WorldStays => WorldInv'
  BY DEF WorldInv, WorldStays

LEMMA NoElements == \A n \in 1 .. Len(<<>>) : FALSE
  OBVIOUS

LEMMA WorldNumbers ==
    ASSUME WorldInv, NEW k \in Kinds
    PROVE  /\ kept[k] \subseteq world[k]
           /\ \A i \in world[k] : i \in Items[k] /\ i \in AllItems /\ i \in Nat /\ i > 0
  <1>1. world[k] \subseteq Items[k] /\ world[k] \subseteq AllItems
    BY ItemsAreNumbers DEF WorldInv
  <1>2. \A i \in AllItems : i \in Nat /\ i > 0
    BY ItemsAreNumbers
  <1>3. QED
    BY <1>1, <1>2 DEF WorldInv

LEMMA KnownHandler == request.type \in DOMAIN Table => Handler = RowOf(request.type)
  BY DEF Handler, RowOf

\* While something is left to look up.
LEMMA LookingUp ==
    ASSUME IInv, pc = "lookup", looked < Len(Handler.looks)
    PROVE  /\ request.type \in DOMAIN Table /\ Lists = <<>> /\ Handler = RowOf(request.type)
           /\ looked \in Nat /\ Len(Handler.looks) \in Nat
           /\ looked + 1 \in 1 .. Len(Handler.looks)
           /\ Handler.looks[looked + 1] \in Kinds
  <1>1. request.type \in DOMAIN Table /\ Lists = <<>>
    BY DEF IInv, ControlInv
  <1>2. Handler = RowOf(request.type)
    BY <1>1, KnownHandler
  <1>3. Handler.looks \in Seq(Kinds)
    BY <1>2, RowOfIsGood DEF GoodRow
  <1>4. Len(Handler.looks) \in Nat
    BY <1>3, LenProperties
  <1>5. looked \in 0 .. Len(Handler.looks)
    <2>1. looked \in 0 .. Len(RowOf(request.type).looks)
      BY DEF IInv, TypeOK
    <2>2. QED
      BY <1>2, <2>1
  <1>6. looked + 1 \in 1 .. Len(Handler.looks)
    BY <1>4, <1>5
  <1>7. QED
    BY <1>1, <1>2, <1>3, <1>4, <1>5, <1>6, ElementOfSeq

\* An answer that is an error, whatever the reason.
LEMMA FailStep ==
    ASSUME IInv, WorldStays, UNCHANGED <<target, looked, left, cursor, items, effect>>,
           pc # "answered", pc' = "answered",
           NEW why \in {"missing", "not found", "unknown type"}, NEW kind \in Kinds \cup {""},
           answer' = Answer(FALSE, why, kind),
           why = "not found" => kind \in Kinds /\ kept[kind] \cap Asked(kind) = {},
           request.type \in DOMAIN Table => Lists = <<>>
    PROVE  IInv'
  <1>1. UNCHANGED <<world, seen, kept, request>> /\ WorldInv'
    BY WorldInvStays DEF WorldStays, IInv
  <1>2. answer' \in Answers /\ answer'.success = FALSE /\ answer'.why = why /\ answer'.kind = kind
    BY DEF Answer, Answers
  <1>3. TypeOK'
    BY <1>1, <1>2 DEF IInv, TypeOK
  <1>4. ControlInv' /\ LookInv' /\ TargetInv' /\ ListInv'
    BY DEF ControlInv, LookInv, TargetInv, ListInv
  <1>5. NotFoundMeansAbsent'
    <2>1. Asked(kind)' = Asked(kind)
      BY <1>1, AskedStays
    <2>2. QED
      BY <1>1, <1>2, <2>1 DEF NotFoundMeansAbsent
  <1>6. ErrorsLeaveNoTrace' /\ SuccessMeansFound'
    BY <1>2 DEF IInv, ControlInv, ErrorsLeaveNoTrace, SuccessMeansFound
  <1>7. ListsAreBracketed'
    <2>1. request.type \in DOMAIN Table => Table[request.type].lists = <<>>
      BY KnownHandler DEF Lists, Handler
    <2>2. QED
      BY <1>1, <2>1, NoElements DEF ListsAreBracketed, Handler
  <1>8. QED
    BY <1>1, <1>3, <1>4, <1>5, <1>6, <1>7 DEF IInv

LEMMA CheckArgumentsStep ==
    ASSUME IInv, UnknownType \/ CheckArguments
    PROVE  IInv'
  <1>1. pc = "start" /\ WorldStays /\ UNCHANGED <<target, looked, left, cursor, items, effect>>
    BY DEF UnknownType, CheckArguments, WorldStays, handler
  <1>2. CASE UnknownType
    <2>1. request.type \notin DOMAIN Table
      BY <1>2 DEF UnknownType, Unhandled, Table
    <2>2. pc' = "answered" /\ answer' = Answer(FALSE, "unknown type", "")
      BY <1>2 DEF UnknownType, Fail, Return
    <2>3. QED
      BY <1>1, <2>1, <2>2, FailStep
  <1>3. CASE CheckArguments /\ ~Complete(Handler)
    <2>1. request.type \in DOMAIN Table /\ pc' = "answered" /\ answer' = Answer(FALSE, "missing", "")
      BY <1>3 DEF CheckArguments, Fail, Return
    <2>2. Lists = <<>>
      BY <1>3, <2>1, KnownHandler, RowOfIsGood DEF GoodRow, Complete, Lists
    <2>3. QED
      BY <1>1, <2>1, <2>2, FailStep
  <1>4. CASE CheckArguments /\ Complete(Handler)
    <2>1. /\ request.type \in DOMAIN Table /\ UNCHANGED answer
          /\ pc' = (IF left = <<>> THEN "lookup" ELSE "list")
      BY <1>4 DEF CheckArguments
    <2>2. UNCHANGED <<world, seen, kept, request>> /\ WorldInv'
      BY <1>1, WorldInvStays DEF WorldStays, IInv
    <2>3. TypeOK'
      BY <1>1, <2>1, <2>2 DEF IInv, TypeOK
    <2>4. looked = 0 /\ cursor = 0 /\ left = Lists /\ items = [k \in Kinds |-> <<>>] /\ Lists' = Lists
      BY <1>1, <2>2 DEF IInv, ControlInv, Lists
    <2>5. ControlInv'
      BY <1>1, <2>1, <2>2, <2>4 DEF IInv, ControlInv
    <2>6. LookInv'
      <3>1. \A i \in kept["ch"] : i > 0
        BY WorldNumbers DEF IInv, Kinds
      <3>2. QED
        BY <1>1, <2>2, <2>4, <3>1 DEF LookInv
    <2>7. TargetInv'
      BY <1>1, <2>4 DEF TargetInv
    <2>8. ListInv'
      <3> SUFFICES ASSUME left # <<>> PROVE 1 \in 1 .. Len(Lists) /\ Progress(1)'
        BY <2>1, <2>4 DEF ListInv
      <3>1. Lists \in Seq(Kinds)
        BY RowOfIsGood DEF GoodRow, Lists
      <3>2. 1 \in 1 .. Len(Lists) /\ Len(Lists) \in Nat
        BY <2>4, <3>1, LenProperties, EmptySeq
      <3>3. \A m \in 1 .. Len(Lists) : Lists[m] \in Kinds
        BY <3>1, ElementOfSeq
      <3>4. left' = SubSeq(Lists, 1, Len(Lists))
        BY <1>1, <2>4, <3>1, SubSeqFull
      <3>5. \A k \in Kinds : items'[k] = <<>>
        BY <1>1, <2>4
      <3>6. Partly(Lists[1])'
        <4>1. \A i \in kept[Lists[1]] : ~(i <= 0)
          BY <3>2, <3>3, WorldNumbers DEF IInv
        <4>2. Lists'[1] = Lists[1] /\ items'[Lists[1]] = <<>>
          BY <2>4, <3>2, <3>3, <3>5
        <4>3. QED
          BY <1>1, <2>2, <2>4, <4>1, <4>2 DEF Partly, Listed, Ascending
      <3>7. QED
        BY <2>4, <3>2, <3>3, <3>4, <3>5, <3>6 DEF Progress
    <2>9. NotFoundMeansAbsent' /\ ErrorsLeaveNoTrace' /\ SuccessMeansFound' /\ ListsAreBracketed'
      BY <2>1 DEF NotFoundMeansAbsent, ErrorsLeaveNoTrace, SuccessMeansFound, ListsAreBracketed,
                  Answered
    <2>10. QED
      BY <2>2, <2>3, <2>5, <2>6, <2>7, <2>8, <2>9 DEF IInv
  <1>5. QED
    BY <1>2, <1>3, <1>4

\* A lookup that finds something is the right one for what was asked.
LEMMA TargetFound ==
    ASSUME IInv, pc = "lookup", UNCHANGED <<request, seen, kept>>,
           NEW k \in Kinds, NEW i \in seen[k] \cap Asked(k),
           \A j \in kept[k] \cap Asked(k) : i <= j,
           target' = [target EXCEPT ![k] = i],
           looked' = looked + 1, Handler.looks[looked + 1] = k
    PROVE  TargetInv'
  <1> SUFFICES ASSUME NEW m \in 1 .. looked + 1 PROVE RightTarget(Handler.looks[m])'
    BY DEF TargetInv
  <1>1. Handler' = Handler
    BY DEF Handler
  <1>2. \A q \in Kinds : target'[q] = IF q = k THEN i ELSE target[q]
    BY DEF IInv, TypeOK, Targets
  <1>3. RightTarget(k)'
    BY <1>2, AskedStays DEF RightTarget
  <1>4. CASE Handler.looks[m] = k
    BY <1>1, <1>3, <1>4
  <1>5. CASE Handler.looks[m] # k
    <2>1. m \in 1 .. looked
      BY <1>5, LookedUpKinds
    <2>2. PICK q \in Kinds : q = Handler.looks[m]
      BY <2>1, LookedUpKinds
    <2>3. RightTarget(q) /\ q # k
      BY <1>5, <2>1, <2>2 DEF IInv, TargetInv
    <2>4. RightTarget(q)'
      BY <1>2, <2>3, RightTargetStays
    <2>5. QED
      BY <1>1, <2>2, <2>4
  <1>6. QED
    BY <1>4, <1>5

(***************************************************************************)
(* A lookup: what is not there now was not there all the time.  The        *)
(* channels behind the cursor were not the one asked for when passed.      *)
(***************************************************************************)
LEMMA LookupGoesOn ==
    ASSUME IInv, WorldStays, UNCHANGED <<pc, answer, left, items, effect>>,
           pc = "lookup", TypeOK', TargetInv',
           looked' = 0 => \A i \in kept["ch"] \cap Asked("ch") : i > cursor'
    PROVE  IInv'
  <1>1. UNCHANGED <<world, seen, kept, request>> /\ WorldInv'
    BY WorldInvStays DEF WorldStays, IInv
  <1>2. ControlInv' /\ ListInv'
    BY <1>1 DEF IInv, ControlInv, ListInv, Lists
  <1>3. LookInv'
    <2>1. Asked("ch")' = Asked("ch")
      BY <1>1, AskedStays
    <2>2. QED
      BY <1>1, <2>1 DEF LookInv
  <1>4. NotFoundMeansAbsent' /\ ErrorsLeaveNoTrace' /\ SuccessMeansFound' /\ ListsAreBracketed'
    BY DEF NotFoundMeansAbsent, ErrorsLeaveNoTrace, SuccessMeansFound, ListsAreBracketed, Answered
  <1>5. QED
    BY <1>1, <1>2, <1>3, <1>4 DEF IInv

LEMMA LookupStep ==
    ASSUME IInv, Lookup
    PROVE  IInv'
  <1> DEFINE k == Handler.looks[looked + 1]
  <1>1. /\ request.type \in DOMAIN Table /\ Lists = <<>> /\ Handler = RowOf(request.type)
        /\ pc = "lookup" /\ WorldStays /\ UNCHANGED <<left, cursor, items, effect>>
        /\ UNCHANGED <<world, seen, kept, request>>
    BY LookingUp DEF Lookup, WorldStays
  <1>2. /\ k \in Kinds /\ looked \in Nat /\ looked + 1 \in 0 .. Len(RowOf(request.type).looks)
    <2>1. /\ k \in Kinds /\ looked \in Nat /\ Len(Handler.looks) \in Nat
          /\ looked + 1 \in 1 .. Len(Handler.looks)
      BY LookingUp DEF Lookup
    <2>2. looked + 1 \in 0 .. Len(Handler.looks)
      BY <2>1
    <2>3. QED
      BY <1>1, <2>1, <2>2
  <1>3. CASE \E i \in Found(k) : target' = [target EXCEPT ![k] = i]
    <2>1. CASE looked' = looked + 1 /\ UNCHANGED <<pc, answer>>
      <3>1. PICK i \in Found(k) : target' = [target EXCEPT ![k] = i]
        BY <1>3
      <3>2. i \in Items[k] /\ i \in AllItems
        BY <1>2, <3>1, ItemsAreNumbers DEF Found, IInv, WorldInv
      <3>3. target' \in Targets
        <4> HIDE DEF k
        <4>1. QED
          BY <1>2, <3>1, <3>2 DEF IInv, TypeOK, Targets
      <3>4. TypeOK'
        BY <1>1, <1>2, <2>1, <3>3 DEF IInv, TypeOK
      <3>5. looked' # 0
        BY <1>2, <2>1
      <3>6. i \in seen[k] \cap Asked(k) /\ \A j \in kept[k] \cap Asked(k) : i <= j
        <4>1. k # "ch" /\ k # "se"
          BY <1>1, LookingUp, RowOfIsGood DEF Lookup, GoodRow
        <4>2. Asked(k) \in {{}, {request.name[k]}}
          BY <1>1, <4>1, KnownHandler DEF Asked, Lists
        <4>3. i \in seen[k] /\ i \in Asked(k) /\ i \in Nat
          BY <1>2, <3>1, WorldNumbers DEF Found, IInv, WorldInv
        <4>4. QED
          BY <4>2, <4>3
      <3>7. TargetInv'
        <4>1. PICK q \in Kinds : q = k
          BY <1>2
        <4> HIDE DEF k
        <4>2. /\ i \in seen[q] \cap Asked(q) /\ \A j \in kept[q] \cap Asked(q) : i <= j
              /\ target' = [target EXCEPT ![q] = i]
          BY <3>1, <3>6, <4>1
        <4>3. Handler.looks[looked + 1] = q
          BY <4>1 DEF k
        <4>4. QED
          BY <1>1, <2>1, <4>2, <4>3, TargetFound
      <3>8. QED
        BY <1>1, <2>1, <3>4, <3>5, <3>7, LookupGoesOn
    <2>2. CASE ~(looked' = looked + 1 /\ UNCHANGED <<pc, answer>>)
      <3>1. Found(k) = {} /\ Fail("not found", k) /\ UNCHANGED <<looked, target>>
        BY <2>2 DEF Lookup
      <3>2. QED
        BY <1>3, <3>1
    <2>3. QED
      BY <2>1, <2>2
  <1>4. CASE Found(k) = {} /\ Fail("not found", k) /\ UNCHANGED <<looked, target>>
    <2>1. kept[k] \cap Asked(k) = {}
      BY <1>2, <1>4 DEF Found, IInv, WorldInv
    <2>2. pc' = "answered" /\ answer' = Answer(FALSE, "not found", k)
      BY <1>4 DEF Fail, Return
    <2> HIDE DEF k
    <2>3. QED
      BY <1>1, <1>2, <1>4, <2>1, <2>2, FailStep
  <1>5. QED
    BY <1>3, <1>4 DEF Lookup

LEMMA LookThroughChannelsStep ==
    ASSUME IInv, LookThroughChannels
    PROVE  IInv'
  <1>1. /\ request.type \in DOMAIN Table /\ Lists = <<>> /\ Handler = RowOf(request.type)
        /\ pc = "lookup" /\ WorldStays /\ UNCHANGED <<left, items, effect>>
        /\ UNCHANGED <<world, seen, kept, request>>
    BY LookingUp DEF LookThroughChannels, WorldStays
  <1>2. looked = 0 /\ Len(RowOf(request.type).looks) = 1
    <2>1. /\ looked \in Nat /\ looked + 1 \in 1 .. Len(Handler.looks)
          /\ Handler.looks[looked + 1] = "ch"
      BY LookingUp DEF LookThroughChannels
    <2>2. looked + 1 = 1 /\ Len(Handler.looks) = 1
      BY <1>1, <2>1, RowOfIsGood DEF GoodRow
    <2>3. QED
      BY <1>1, <2>1, <2>2
  <1>3. /\ \A i \in kept["ch"] \cap Asked("ch") : i > cursor /\ i \in world["ch"]
        /\ \A i \in world["ch"] : i \in Items["ch"] /\ i \in AllItems /\ i \in Nat
        /\ cursor \in Nat
    <2>1. "ch" \in Kinds
      BY DEF Kinds
    <2>2. kept["ch"] \subseteq world["ch"]
      BY <2>1, WorldNumbers DEF IInv
    <2>3. \A i \in world["ch"] : i \in Items["ch"] /\ i \in AllItems /\ i \in Nat
      BY <2>1, WorldNumbers DEF IInv
    <2>4. cursor \in Nat
      BY ItemsAreNumbers DEF IInv, TypeOK
    <2>5. \A i \in kept["ch"] \cap Asked("ch") : i > cursor
      BY <1>1, <1>2 DEF IInv, LookInv
    <2>6. QED
      BY <2>2, <2>3, <2>4, <2>5
  <1>4. ASSUME NEW i \in NextChannels, IsFirst(i, NextChannels), cursor' = i,
               IF i \in Asked("ch")
                 THEN target' = [target EXCEPT !["ch"] = i] /\ looked' = looked + 1
                 ELSE UNCHANGED <<target, looked>>,
               UNCHANGED <<pc, answer>>
        PROVE  IInv'
    <2>1. i \in world["ch"] /\ i \in Items["ch"] /\ i \in AllItems
      BY <1>3 DEF NextChannels
    <2>2. target' \in Targets /\ looked' \in 0 .. Len(RowOf(request.type).looks)
      <3>1. CASE i \in Asked("ch")
        BY <1>2, <1>4, <2>1, <3>1 DEF IInv, TypeOK, Targets, Kinds
      <3>2. CASE i \notin Asked("ch")
        BY <1>4, <3>2 DEF IInv, TypeOK
      <3>3. QED
        BY <3>1, <3>2
    <2>3. TypeOK'
      BY <1>1, <1>4, <2>1, <2>2 DEF IInv, TypeOK
    <2>4. looked' = 0 => \A j \in kept["ch"] \cap Asked("ch") : j > cursor'
      <3> SUFFICES ASSUME looked' = 0, NEW j \in kept["ch"] \cap Asked("ch") PROVE j > i
        BY <1>4
      <3>1. i \notin Asked("ch")
        BY <1>2, <1>4
      <3>2. j \in NextChannels
        BY <1>3 DEF NextChannels
      <3>3. i <= j /\ i # j /\ i \in Nat /\ j \in Nat
        BY <1>3, <1>4, <2>1, <3>1, <3>2 DEF IsFirst
      <3>4. QED
        BY <3>3
    <2>5. TargetInv'
      <3>1. CASE i \in Asked("ch")
        <4>1. \A j \in kept["ch"] \cap Asked("ch") : i <= j
          BY <1>3, <1>4 DEF NextChannels, IsFirst
        <4>2. i \in seen["ch"] /\ "ch" \in Kinds
          BY <2>1 DEF IInv, WorldInv, Kinds
        <4>3. Handler.looks[looked + 1] = "ch"
          BY DEF LookThroughChannels
        <4>4. QED
          BY <1>1, <1>4, <3>1, <4>1, <4>2, <4>3, TargetFound
      <3>2. CASE i \notin Asked("ch")
        <4>1. looked' = 0
          BY <1>2, <1>4, <3>2
        <4>2. QED
          BY <4>1 DEF TargetInv
      <3>3. QED
        BY <3>1, <3>2
    <2>6. QED
      BY <1>1, <1>4, <2>3, <2>4, <2>5, LookupGoesOn
  <1>5. CASE NextChannels = {} /\ Fail("not found", "ch") /\ UNCHANGED <<looked, target, cursor>>
    <2>1. kept["ch"] \cap Asked("ch") = {}
      BY <1>3, <1>5 DEF NextChannels
    <2>2. pc' = "answered" /\ answer' = Answer(FALSE, "not found", "ch") /\ "ch" \in Kinds
      BY <1>5 DEF Fail, Return, Kinds
    <2>3. QED
      BY <1>1, <1>5, <2>1, <2>2, FailStep
  <1>6. QED
    BY <1>4, <1>5 DEF LookThroughChannels

(***************************************************************************)
(* The ends of a lookup: the call that changes something, or a report.     *)
(***************************************************************************)
LEMMA ActStep ==
    ASSUME IInv, LateArgumentMissing \/ Act \/ Report
    PROVE  IInv'
  <1>1. /\ pc = "lookup" /\ WorldStays /\ UNCHANGED <<target, looked, left, cursor, items>>
        /\ UNCHANGED <<world, seen, kept, request>>
    BY DEF LateArgumentMissing, Act, Report, LookedUp, WorldStays, handler
  <1>2. /\ request.type \in DOMAIN Table /\ Lists = <<>> /\ Handler.lists = <<>> /\ ~effect
    BY <1>1, KnownHandler DEF IInv, ControlInv, Lists
  <1>3. CASE LateArgumentMissing
    <2>1. /\ pc' = "answered" /\ answer' = Answer(FALSE, "missing", "") /\ UNCHANGED effect
      BY <1>3 DEF LateArgumentMissing, Fail, Return, handler
    <2>2. QED
      BY <1>1, <1>2, <2>1, FailStep
  <1>4. CASE Act \/ Report
    <2>1. /\ pc' = "answered" /\ effect' \in BOOLEAN
          /\ \/ answer' = Answer(TRUE, "", "")
             \/ answer' = Answer(FALSE, "failed", "") /\ ~effect'
      <3>1. CASE Act
        <4>1. PICK ok \in BOOLEAN :
                /\ effect' = ok
                /\ IF Handler.acts = "checked" /\ ~ok THEN Fail("failed", "") ELSE Succeed
          BY <3>1 DEF Act
        <4>2. CASE Handler.acts = "checked" /\ ~ok
          <5>1. Fail("failed", "") /\ ~effect' /\ effect' \in BOOLEAN
            BY <4>1, <4>2
          <5>2. QED
            BY <5>1 DEF Fail, Return
        <4>3. CASE ~(Handler.acts = "checked" /\ ~ok)
          <5>1. Succeed /\ effect' \in BOOLEAN
            BY <4>1, <4>3
          <5>2. QED
            BY <5>1 DEF Succeed, Return
        <4>4. QED
          BY <4>2, <4>3
      <3>2. CASE Report
        BY <3>2 DEF Report, handler, Succeed, Return, IInv, TypeOK
      <3>3. QED
        BY <1>4, <3>1, <3>2
    <2>2. /\ answer' \in Answers /\ answer'.why # "not found"
          /\ ~answer'.success => ~effect'
      <3>1. CASE answer' = Answer(TRUE, "", "")
        <4>1. answer' \in Answers /\ answer'.why # "not found" /\ answer'.success = TRUE
          BY <3>1 DEF Answer, Answers
        <4>2. QED
          BY <3>1, <4>1
      <3>2. CASE answer' = Answer(FALSE, "failed", "") /\ ~effect'
        <4>1. answer' \in Answers /\ answer'.why # "not found" /\ answer'.success = FALSE
          BY <3>2 DEF Answer, Answers
        <4>2. QED
          BY <3>2, <4>1
      <3>3. QED
        BY <2>1, <3>1, <3>2
    <2>3. WorldInv' /\ TypeOK'
      BY <1>1, <2>1, <2>2, WorldInvStays DEF IInv, TypeOK
    <2>4. ControlInv' /\ LookInv' /\ TargetInv' /\ ListInv'
      BY <2>1 DEF ControlInv, LookInv, TargetInv, ListInv
    <2>5. NotFoundMeansAbsent' /\ ErrorsLeaveNoTrace'
      BY <2>2 DEF NotFoundMeansAbsent, ErrorsLeaveNoTrace
    <2>6. SuccessMeansFound'
      <3>1. looked = Len(Handler.looks)
        BY <1>4 DEF Act, Report, LookedUp
      <3>2. \A k \in Looks : RightTarget(k)
        BY <1>1, <3>1 DEF Looks, KindsOf, IInv, TargetInv
      <3>3. \A k \in Looks : RightTarget(k)'
        BY <1>1, <3>2, RightTargetStays
      <3>4. Looks' = Looks
        BY <1>1 DEF Looks, Handler
      <3>5. QED
        BY <3>3, <3>4 DEF SuccessMeansFound
    <2>7. ListsAreBracketed'
      <3>1. Table[request.type].lists = <<>>
        BY <1>2 DEF Handler
      <3>2. QED
        BY <1>1, <3>1, NoElements DEF ListsAreBracketed, Handler
    <2>8. QED
      BY <2>3, <2>4, <2>5, <2>6, <2>7 DEF IInv
  <1>5. QED
    BY <1>3, <1>4

------------------------------------------------------------------------------
(***************************************************************************)
(* Lists.  The nth collection is the head of what is left.                 *)
(***************************************************************************)
LEMMA AtHead ==
    ASSUME IInv, pc = "list", NEW n \in 1 .. Len(Lists), Progress(n)
    PROVE  /\ Lists \in Seq(Kinds) /\ Len(Lists) \in Nat
           /\ Head(left) = Lists[n] /\ Tail(left) = SubSeq(Lists, n + 1, Len(Lists))
           /\ \A m \in 1 .. Len(Lists) : Lists[m] \in Kinds
           /\ \A m \in 1 .. Len(Lists) : m # n => Lists[m] # Lists[n]
           /\ request.type \in DOMAIN Table /\ Handler = RowOf(request.type)
           /\ \A k \in Kinds : items[k] \in Seq(AllItems)
           /\ cursor \in Nat
  <1>1. Lists \in Seq(Kinds)
    BY RowOfIsGood DEF GoodRow, Lists
  <1>2. Len(Lists) \in Nat
    BY <1>1, LenProperties
  <1>3. Len(Lists) \in n .. Len(Lists)
    BY <1>2
  <1>4. left = SubSeq(Lists, n, Len(Lists))
    BY DEF Progress
  <1>5. Head(left) = Lists[n] /\ Tail(left) = SubSeq(Lists, n + 1, Len(Lists))
    BY <1>1, <1>3, <1>4, HeadTailOfSubSeq
  <1>6. \A m \in 1 .. Len(Lists) : Lists[m] \in Kinds
    BY <1>1, ElementOfSeq
  <1>7. \A m \in 1 .. Len(Lists) : m # n => Lists[m] # Lists[n]
    BY RowOfIsGood DEF GoodRow, Lists
  <1>8. request.type \in DOMAIN Table
    BY DEF IInv, ControlInv
  <1>9. /\ \A k \in Kinds : items[k] \in Seq(AllItems)
        /\ cursor \in Nat
    <2>1. TypeOK
      BY DEF IInv
    <2>2. QED
      BY <2>1, ItemsAreNumbers DEF TypeOK
  <1>10. QED
    BY <1>1, <1>2, <1>5, <1>6, <1>7, <1>8, <1>9, KnownHandler

\* A list handler looks nothing up and changes nothing.
LEMMA ListersOnlyRead ==
    ASSUME IInv, pc = "list", Lists # <<>>
    PROVE  Handler.acts = "nothing" /\ Handler.looks = <<>> /\ ~effect
  BY KnownHandler, RowOfIsGood DEF IInv, ControlInv, GoodRow, Lists

(***************************************************************************)
(* The next object is the first after the cursor that is there: whatever   *)
(* was there all the time lies before the cursor or not before this one.   *)
(***************************************************************************)
LEMMA SelectNextStep ==
    ASSUME IInv, SelectNext
    PROVE  IInv'
  <1>1. /\ pc = "list" /\ WorldStays /\ UNCHANGED <<pc, target, looked, left, answer, effect>>
        /\ UNCHANGED <<world, seen, kept, request>>
    BY DEF SelectNext, WorldStays
  <1>2. PICK n \in 1 .. Len(Lists) : Progress(n)
    BY <1>1 DEF IInv, ListInv
  <1>0. PICK k \in Kinds : k = Lists[n]
    BY <1>1, <1>2, AtHead
  <1>3. /\ Head(left) = k /\ cursor \in Nat /\ items[k] \in Seq(AllItems)
        /\ Len(Lists) \in Nat
        /\ \A m \in 1 .. Len(Lists) : m # n => Lists[m] # k /\ Lists[m] \in Kinds
    BY <1>0, <1>1, <1>2, AtHead
  <1>4. PICK i \in Following :
          /\ IsFirst(i, Following)
          /\ cursor' = i
          /\ items' = IF i \in Unserializable THEN items
                        ELSE [items EXCEPT ![k] = Append(@, i)]
    BY <1>3 DEF SelectNext
  <1>5. Following = {j \in world[k] \cap Asked(k) : j > cursor}
    BY <1>3 DEF Following, Found
  <1>6. /\ i \in world[k] /\ i \in Asked(k) /\ i > cursor /\ i \in AllItems /\ i \in Nat
        /\ i \in seen[k]
        /\ \A j \in kept[k] : j \in world[k] /\ j \in Nat
    BY <1>3, <1>4, <1>5, WorldNumbers DEF IInv, WorldInv
  <1>7. \A j \in kept[k] \cap Asked(k) : j <= cursor \/ j = i \/ i < j
    BY <1>3, <1>4, <1>5, <1>6 DEF IsFirst
  <1>8. /\ items' \in [Kinds -> Seq(AllItems)]
        /\ \A m \in Kinds : m # k => items'[m] = items[m]
        /\ items'[k] = IF i \in Unserializable THEN items[k] ELSE Append(items[k], i)
    <2>1. items \in [Kinds -> Seq(AllItems)] /\ Append(items[k], i) \in Seq(AllItems)
      BY <1>3, <1>6, AppendProperties DEF IInv, TypeOK
    <2>2. QED
      BY <1>3, <1>4, <2>1
  <1>9. /\ Len(items[k]) \in Nat
        /\ Len(Append(items[k], i)) = Len(items[k]) + 1
        /\ \A m \in 1 .. Len(items[k]) : Append(items[k], i)[m] = items[k][m]
        /\ Append(items[k], i)[Len(items[k]) + 1] = i
    BY <1>3, <1>6, AppendProperties, LenProperties
  <1>10. \A m \in 1 .. Len(items[k]) : items[k][m] \in Listed(k) /\ items[k][m] \in Nat
    BY <1>3, ItemsAreNumbers, ElementOfSeq DEF Listed
  <1>11. Partly(k)'
    <2>1. Partly(k)
      BY <1>0, <1>2 DEF Progress
    <2>2. Asked(k)' = Asked(k)
      BY <1>1, AskedStays
    <2>3. Listed(k)' = IF i \in Unserializable THEN Listed(k) ELSE Listed(k) \cup {i}
      <3>1. CASE i \in Unserializable
        BY <1>8, <3>1 DEF Listed
      <3>2. CASE i \notin Unserializable
        <4>1. items'[k] = Append(items[k], i)
          BY <1>8, <3>2
        <4>2. 1 .. Len(items[k]) + 1 = 1 .. Len(items[k]) \cup {Len(items[k]) + 1}
          BY <1>9
        <4>3. {items'[k][m] : m \in 1 .. Len(items'[k])} = {items[k][m] : m \in 1 .. Len(items[k])} \cup {i}
          BY <1>9, <4>1, <4>2
        <4>4. QED
          BY <3>2, <4>3 DEF Listed
      <3>3. QED
        BY <3>1, <3>2
    <2>4. \A j \in (kept[k] \cap Asked(k)) \ Unserializable : j <= i => j \in Listed(k)'
      BY <1>6, <1>7, <2>1, <2>3 DEF Partly
    <2>5. Listed(k)' \subseteq seen[k] \cap Asked(k) /\ \A j \in Listed(k)' : j <= i
      <3>1. \A j \in Listed(k) : j <= i /\ j \in seen[k] \cap Asked(k)
        <4>1. \A j \in Listed(k) : j <= cursor /\ j \in Nat
          BY <1>10, <2>1 DEF Partly, Listed
        <4>2. QED
          BY <1>3, <1>6, <2>1, <4>1 DEF Partly
      <3>2. QED
        BY <1>6, <2>3, <3>1
    <2>6. Ascending(items'[k])
      <3>1. Ascending(items[k])
        BY <2>1 DEF Partly
      <3>2. CASE i \in Unserializable
        BY <1>8, <3>1, <3>2
      <3>3. CASE i \notin Unserializable
        <4>1. \A m \in 1 .. Len(items[k]) : items[k][m] < i
          <5>1. \A m \in 1 .. Len(items[k]) : items[k][m] <= cursor /\ items[k][m] \in Nat
            BY <1>10, <2>1 DEF Partly
          <5>2. QED
            BY <1>3, <1>6, <5>1
        <4>2. ASSUME NEW a \in 1 .. Len(items[k]) + 1, NEW b \in 1 .. Len(items[k]) + 1, a < b
              PROVE  Append(items[k], i)[a] < Append(items[k], i)[b]
          <5>1. CASE b = Len(items[k]) + 1
            <6>1. a \in 1 .. Len(items[k])
              BY <1>9, <4>2, <5>1
            <6>2. QED
              BY <1>9, <4>1, <5>1, <6>1
          <5>2. CASE b # Len(items[k]) + 1
            <6>1. a \in 1 .. Len(items[k]) /\ b \in 1 .. Len(items[k])
              BY <1>9, <4>2, <5>2
            <6>2. QED
              BY <1>9, <3>1, <4>2, <6>1 DEF Ascending
          <5>3. QED
            BY <5>1, <5>2
        <4>3. QED
          BY <1>8, <1>9, <3>3, <4>2 DEF Ascending
      <3>4. QED
        BY <3>2, <3>3
    <2>7. QED
      BY <1>1, <1>4, <2>2, <2>4, <2>5, <2>6 DEF Partly
  <1>12. Progress(n)'
    <2>1. Lists' = Lists
      BY <1>1 DEF Lists
    <2>2. ASSUME NEW q \in Kinds, q # k, Bracketed(q) PROVE Bracketed(q)'
      BY <1>1, <1>8, <2>2, AskedStays DEF Bracketed
    <2>3. ASSUME NEW m \in 1 .. Len(Lists), m > n PROVE items'[Lists[m]] = <<>>
      <3>1. m # n
        BY <1>3, <2>3
      <3>2. items'[Lists[m]] = items[Lists[m]]
        BY <1>3, <1>8, <3>1
      <3>3. QED
        BY <1>2, <2>3, <3>2 DEF Progress
    <2>4. QED
      BY <1>0, <1>1, <1>2, <1>3, <1>11, <2>1, <2>2, <2>3 DEF Progress
  <1>13. TypeOK' /\ WorldInv' /\ ControlInv' /\ LookInv' /\ TargetInv'
    BY <1>1, <1>4, <1>6, <1>8, WorldInvStays
    DEF IInv, TypeOK, ControlInv, LookInv, TargetInv, Lists
  <1>14. ListInv'
    BY <1>1, <1>2, <1>12 DEF ListInv, Lists
  <1>15. NotFoundMeansAbsent' /\ ErrorsLeaveNoTrace' /\ SuccessMeansFound' /\ ListsAreBracketed'
    BY <1>1 DEF NotFoundMeansAbsent, ErrorsLeaveNoTrace, SuccessMeansFound, ListsAreBracketed,
                Answered
  <1>16. QED
    BY <1>13, <1>14, <1>15 DEF IInv

(***************************************************************************)
(* Nothing is left after the cursor: what was there all the time has been  *)
(* listed, and the next collection begins at its first object.             *)
(***************************************************************************)
LEMMA EndOfListStep ==
    ASSUME IInv, EndOfList
    PROVE  IInv'
  <1>1. /\ pc = "list" /\ WorldStays /\ UNCHANGED <<target, looked, items, effect>>
        /\ UNCHANGED <<world, seen, kept, request>>
        /\ Following = {} /\ left' = Tail(left) /\ cursor' = 0
        /\ IF Tail(left) = <<>> THEN Succeed ELSE UNCHANGED <<pc, answer>>
    BY DEF EndOfList, WorldStays
  <1>2. PICK n \in 1 .. Len(Lists) : Progress(n)
    BY <1>1 DEF IInv, ListInv
  <1>3. PICK k \in Kinds : k = Lists[n]
    BY <1>1, <1>2, AtHead
  <1>4. /\ Lists \in Seq(Kinds) /\ Len(Lists) \in Nat /\ Head(left) = k /\ cursor \in Nat
        /\ Tail(left) = SubSeq(Lists, n + 1, Len(Lists))
        /\ \A m \in 1 .. Len(Lists) : Lists[m] \in Kinds
        /\ request.type \in DOMAIN Table /\ Handler.lists = Lists
    BY <1>1, <1>2, <1>3, AtHead DEF Lists
  <1>5. Bracketed(k)
    <2>1. Partly(k)
      BY <1>2, <1>3 DEF Progress
    <2>2. \A j \in kept[k] \cap Asked(k) : j <= cursor
      <3> SUFFICES ASSUME NEW j \in kept[k] \cap Asked(k), ~(j <= cursor) PROVE FALSE
        OBVIOUS
      <3>1. j \in world[k] /\ j \in Nat
        BY WorldNumbers DEF IInv
      <3>2. j > cursor
        BY <1>4, <3>1
      <3>3. j \in Following
        BY <1>4, <3>1, <3>2 DEF Following, Found
      <3>4. QED
        BY <1>1, <3>3
    <2>3. /\ (kept[k] \cap Asked(k)) \ Unserializable \subseteq Listed(k)
          /\ Listed(k) \subseteq seen[k] \cap Asked(k)
          /\ Ascending(items[k])
      BY <2>1, <2>2 DEF Partly
    <2>4. QED
      BY <2>3 DEF Bracketed, Listed, Ascending
  <1>6. \A m \in 1 .. Len(Lists) : m < n + 1 => Bracketed(Lists[m])
    <2> SUFFICES ASSUME NEW m \in 1 .. Len(Lists), m < n + 1 PROVE Bracketed(Lists[m])
      OBVIOUS
    <2>1. m < n \/ m = n
      BY <1>4
    <2>2. QED
      BY <1>2, <1>3, <1>5, <2>1 DEF Progress
  <1>7. ASSUME NEW q \in Kinds, Bracketed(q) PROVE Bracketed(q)'
    BY <1>1, <1>7, AskedStays DEF Bracketed
  <1>8. WorldInv' /\ LookInv' /\ TargetInv' /\ Lists' = Lists
    BY <1>1, WorldInvStays DEF IInv, LookInv, TargetInv, Lists, Succeed, Return
  <1>9. NotFoundMeansAbsent' /\ ErrorsLeaveNoTrace' /\ SuccessMeansFound'
    <2>1. Lists # <<>>
      BY <1>2, NoElements
    <2>2. Handler.looks = <<>> /\ ~effect
      BY <1>1, <2>1, ListersOnlyRead
    <2>3. CASE Succeed
      <3>1. answer'.why = "" /\ answer'.success = TRUE
        BY <2>3 DEF Succeed, Return, Answer
      <3>2. Looks' = {}
        BY <1>1, <2>2, NoElements DEF Looks, KindsOf, Handler
      <3>3. NotFoundMeansAbsent' /\ ErrorsLeaveNoTrace'
        BY <3>1 DEF NotFoundMeansAbsent, ErrorsLeaveNoTrace
      <3>4. SuccessMeansFound'
        BY <3>2 DEF SuccessMeansFound
      <3>5. QED
        BY <3>3, <3>4
    <2>4. CASE UNCHANGED <<pc, answer>>
      BY <1>1, <2>4 DEF NotFoundMeansAbsent, ErrorsLeaveNoTrace, SuccessMeansFound, Answered
    <2>5. QED
      BY <1>1, <2>3, <2>4
  <1>10. TypeOK'
    <2>1. answer' \in Answers /\ pc' \in {"start", "lookup", "list", "answered"}
      <3>1. CASE Succeed
        <4>1. /\ pc' = "answered" /\ answer' = Answer(TRUE, "", "")
          BY <3>1 DEF Succeed, Return
        <4>2. Answer(TRUE, "", "") \in Answers
          BY DEF Answer, Answers
        <4>3. QED
          BY <4>1, <4>2
      <3>2. CASE UNCHANGED <<pc, answer>>
        BY <3>2 DEF IInv, TypeOK
      <3>3. QED
        BY <1>1, <3>1, <3>2
    <2>2. n \in 0 .. Len(Lists) /\ left' = SubSeq(Lists, n + 1, Len(Lists))
      BY <1>1, <1>4
    <2>3. QED
      BY <1>1, <1>8, <2>1, <2>2 DEF IInv, TypeOK, WorldInv, Lists
  <1>11. CASE n = Len(Lists)
    <2>1. Tail(left) = <<>>
      BY <1>4, <1>11, SubSeqEmpty
    <2>2. pc' = "answered"
      BY <1>1, <2>1 DEF Succeed, Return
    <2>3. ListsAreBracketed'
      <3>1. ASSUME NEW m \in 1 .. Len(Lists) PROVE Bracketed(Lists[m])'
        <4>1. PICK q \in Kinds : q = Lists[m]
          BY <1>4
        <4>2. m < n + 1
          BY <1>4, <1>11
        <4>3. Bracketed(q)'
          BY <1>6, <1>7, <4>1, <4>2
        <4>4. QED
          BY <1>8, <4>1, <4>3
      <3>2. Handler'.lists = Lists
        BY <1>1, <1>4 DEF Handler
      <3>3. QED
        BY <1>8, <3>1, <3>2 DEF ListsAreBracketed
    <2>4. ControlInv' /\ ListInv'
      BY <2>2 DEF ControlInv, ListInv
    <2>5. QED
      BY <1>8, <1>9, <1>10, <2>3, <2>4 DEF IInv
  <1>12. CASE n # Len(Lists)
    <2>1. n + 1 \in 1 .. Len(Lists)
      BY <1>4, <1>12
    <2>2. Tail(left) # <<>>
      <3>1. \A i \in n + 1 .. Len(Lists) : Lists[i] \in Kinds
        BY <1>4
      <3>2. Len(SubSeq(Lists, n + 1, Len(Lists))) = Len(Lists) - (n + 1) + 1
        BY <1>4, <2>1, <3>1, SubSeqProperties
      <3>3. 1 \in 1 .. Len(Tail(left))
        BY <1>4, <2>1, <3>2
      <3>4. QED
        BY <3>3, NoElements
    <2>3. UNCHANGED <<pc, answer>>
      BY <1>1, <2>2
    <2>4. PICK q \in Kinds : q = Lists[n + 1]
      BY <1>4, <2>1
    <2>5. items[q] = <<>>
      BY <1>2, <2>1, <2>4 DEF Progress
    <2>6. Partly(q)'
      <3>1. \A j \in kept[q] : ~(j <= 0)
        BY WorldNumbers DEF IInv
      <3>2. QED
        BY <1>1, <2>5, <3>1 DEF Partly, Listed, Ascending
    <2>7. \A m \in 1 .. Len(Lists) : m < n + 1 => Bracketed(Lists[m])'
      <3> SUFFICES ASSUME NEW m \in 1 .. Len(Lists), m < n + 1 PROVE Bracketed(Lists[m])'
        OBVIOUS
      <3>1. PICK p \in Kinds : p = Lists[m]
        BY <1>4
      <3>2. Bracketed(p)'
        BY <1>6, <1>7, <3>1
      <3>3. QED
        BY <1>8, <3>1, <3>2
    <2>8. \A m \in 1 .. Len(Lists) : m > n + 1 => items'[Lists[m]] = <<>>
      BY <1>1, <1>2, <1>4 DEF Progress
    <2>9. Progress(n + 1)'
      BY <1>1, <1>4, <1>8, <2>4, <2>6, <2>7, <2>8 DEF Progress
    <2>10. ListInv'
      BY <1>8, <2>1, <2>9 DEF ListInv
    <2>11. ControlInv' /\ ListsAreBracketed'
      BY <1>1, <2>3 DEF IInv, ControlInv, ListsAreBracketed, Answered
    <2>12. QED
      BY <1>8, <1>9, <1>10, <2>10, <2>11 DEF IInv
  <1>13. QED
    BY <1>11, <1>12

------------------------------------------------------------------------------
LEMMA StepIInv == IInv /\ [Next]_vars => IInv'
  <1> SUFFICES ASSUME IInv, [Next]_vars PROVE IInv'
    OBVIOUS
  <1>1. CASE EuroScope
    BY <1>1, EuroScopeIsOutside, OutsideStep DEF IInv
  <1>2. CASE Works
    BY <1>2, CheckArgumentsStep, LookupStep, LookThroughChannelsStep, ActStep, SelectNextStep,
       EndOfListStep
    DEF Works
  <1>3. CASE UNCHANGED vars
    <2>1. UNCHANGED <<world, pc, request, target, looked, left, cursor, items, answer, effect,
                      seen, kept>>
      BY <1>3 DEF vars
    <2>2. \A k : Asked(k)' = Asked(k)
      BY <2>1, AskedStays
    <2>3. Lists' = Lists /\ \A k : Listed(k)' = Listed(k)
      BY <2>1 DEF Lists, Listed
    <2>4. \A k : Bracketed(k)' = Bracketed(k) /\ Partly(k)' = Partly(k)
      BY <2>1, <2>2, <2>3 DEF Bracketed, Partly
    <2>5. TypeOK' /\ WorldInv' /\ ControlInv'
      BY <2>1, <2>3 DEF IInv, TypeOK, WorldInv, ControlInv, Lists
    <2>6. Handler' = Handler /\ Looks' = Looks /\ \A k : RightTarget(k)' = RightTarget(k)
      BY <2>1, <2>2 DEF Handler, Looks, RightTarget
    <2>7. LookInv' /\ NotFoundMeansAbsent' /\ ErrorsLeaveNoTrace'
      BY <2>1, <2>2 DEF IInv, LookInv, NotFoundMeansAbsent, ErrorsLeaveNoTrace, Answered
    <2>8. TargetInv' /\ SuccessMeansFound'
      BY <2>1, <2>6 DEF IInv, TargetInv, SuccessMeansFound, Answered
    <2>9. ListInv'
      <3>1. \A n : Progress(n) => Progress(n)'
        BY <2>1, <2>3, <2>4 DEF Progress
      <3>2. QED
        BY <2>1, <2>3, <3>1 DEF IInv, ListInv
    <2>10. ListsAreBracketed'
      BY <2>1, <2>4 DEF IInv, ListsAreBracketed, Answered, Handler
    <2>11. QED
      BY <2>5, <2>7, <2>8, <2>9, <2>10 DEF IInv
  <1>4. QED
    BY <1>1, <1>2, <1>3 DEF Next

LEMMA Invariance == Spec => []IInv
  <1>1. QED
    BY InitIInv, StepIInv, PTL DEF Spec

\* Type invariant: a handler holds an object only as what it is.
THEOREM TypeCorrect == Spec => []TypeOK
  <1>1. IInv => TypeOK
    BY DEF IInv
  <1>2. QED
    BY <1>1, Invariance, PTL

\* "Not found" is true of some moment of the request, also of channels.
THEOREM NotFoundIsTrue == Spec => []NotFoundMeansAbsent
  <1>1. IInv => NotFoundMeansAbsent
    BY DEF IInv
  <1>2. QED
    BY <1>1, Invariance, PTL

\* A request that is answered with an error has changed nothing.
THEOREM ErrorsChangeNothing == Spec => []ErrorsLeaveNoTrace
  <1>1. IInv => ErrorsLeaveNoTrace
    BY DEF IInv
  <1>2. QED
    BY <1>1, Invariance, PTL

(***************************************************************************)
(* Success, also of the handlers that do not test the SDK's result, speaks *)
(* of what the request named and what has existed while it was worked on.  *)
(***************************************************************************)
THEOREM SuccessIsFound == Spec => []SuccessMeansFound
  <1>1. IInv => SuccessMeansFound
    BY DEF IInv
  <1>2. QED
    BY <1>1, Invariance, PTL

(***************************************************************************)
(* A list holds what was there all the time and nothing that never was, in *)
(* order and once, however many objects come and go while it is made.      *)
(***************************************************************************)
THEOREM ListsBracketed == Spec => []ListsAreBracketed
  <1>1. IInv => ListsAreBracketed
    BY DEF IInv
  <1>2. QED
    BY <1>1, Invariance, PTL

------------------------------------------------------------------------------
(***************************************************************************)
(* What a handler's walk has ahead of it, and a step that brings it nearer *)
(* to its answer: it answers, begins, finds an object, finishes a          *)
(* collection, or has less of the one it is in ahead.                      *)
(***************************************************************************)
Ahead == {i \in AllItems : i > cursor}

Advances ==
    /\ pc # "answered"
    /\ \/ pc' = "answered"
       \/ pc = "start" /\ pc' \in {"lookup", "list"}
       \/ /\ pc = "lookup" /\ pc' = pc
          /\ looked' = looked + 1 /\ looked' <= Len(Handler.looks)
       \/ pc = "list" /\ pc' = pc /\ Len(left) > 0 /\ Len(left') = Len(left) - 1
       \/ /\ pc \in {"lookup", "list"} /\ UNCHANGED <<pc, looked, left>>
          /\ Ahead' \subseteq Ahead /\ Ahead' # Ahead

KeepsItsPlace == pc # "answered" /\ UNCHANGED <<request, pc, answer, looked, left, Ahead>>

\* To go on to an object beyond the cursor is to leave less ahead.
LEMMA LessAhead ==
    ASSUME IInv, cursor' \in AllItems, cursor' > cursor
    PROVE  Ahead' \subseteq Ahead /\ Ahead' # Ahead
  <1>1. \A i \in AllItems : i \in Nat
    BY ItemsAreNumbers
  <1>2. cursor \in Nat /\ cursor' \in Nat
    BY <1>1 DEF IInv, TypeOK
  <1>3. Ahead' = {i \in AllItems : i > cursor'}
    BY DEF Ahead
  <1>4. \A i \in Ahead' : i \in Ahead
    BY <1>1, <1>2, <1>3 DEF Ahead
  <1>5. cursor' \in Ahead /\ cursor' \notin Ahead'
    BY <1>2, <1>3 DEF Ahead
  <1>6. QED
    BY <1>4, <1>5

LEMMA WorksAdvances == IInv /\ Works => Advances
  <1> SUFFICES ASSUME IInv, Works PROVE Advances
    OBVIOUS
  <1> USE DEF Return, Fail, Succeed, handler
  <1>1. CASE UnknownType \/ CheckArguments \/ LateArgumentMissing \/ Act \/ Report
    BY <1>1 DEF UnknownType, CheckArguments, LateArgumentMissing, Act, Report, LookedUp, Advances
  <1>2. \A k \in Kinds : world[k] \subseteq AllItems
    BY DEF IInv, WorldInv, Worlds
  <1>3. CASE Lookup
    <2>1. looked' = looked + 1 \/ pc' = "answered"
      BY <1>3 DEF Lookup
    <2>2. pc = "lookup" /\ looked < Len(Handler.looks) /\ (pc' = pc \/ pc' = "answered")
      BY <1>3 DEF Lookup
    <2>3. looked + 1 <= Len(Handler.looks)
      BY <2>2, LookingUp
    <2>4. QED
      BY <2>1, <2>2, <2>3 DEF Advances
  <1>4. CASE LookThroughChannels
    <2>1. pc = "lookup" /\ looked < Len(Handler.looks) /\ left' = left
      BY <1>4 DEF LookThroughChannels
    <2>2. looked + 1 <= Len(Handler.looks)
      BY <2>1, LookingUp
    <2>3. \/ pc' = "answered"
          \/ pc' = pc /\ looked' = looked + 1
          \/ pc' = pc /\ looked' = looked /\ \E i \in NextChannels : cursor' = i
      BY <1>4 DEF LookThroughChannels
    <2>4. ASSUME NEW i \in NextChannels, cursor' = i PROVE Ahead' \subseteq Ahead /\ Ahead' # Ahead
      BY <1>2, <2>4, LessAhead DEF NextChannels, Kinds
    <2>5. QED
      BY <2>1, <2>2, <2>3, <2>4 DEF Advances
  <1>5. CASE SelectNext
    <2>1. pc = "list" /\ pc' = pc /\ looked' = looked /\ left' = left
      BY <1>5 DEF SelectNext
    <2>2. PICK i \in Following : cursor' = i
      BY <1>5 DEF SelectNext
    <2>3. Head(left) \in Kinds
      <3>1. PICK n \in 1 .. Len(Lists) : Progress(n)
        BY <2>1 DEF IInv, ListInv
      <3>2. QED
        BY <2>1, <3>1, AtHead
    <2>4. i \in AllItems /\ i > cursor
      BY <1>2, <2>2, <2>3 DEF Following, Found
    <2>5. QED
      BY <2>1, <2>2, <2>4, LessAhead DEF Advances
  <1>6. CASE EndOfList
    <2>1. pc = "list" /\ (pc' = pc \/ pc' = "answered") /\ left' = Tail(left)
      BY <1>6 DEF EndOfList
    <2>2. PICK n \in 1 .. Len(Lists) : Progress(n)
      BY <2>1 DEF IInv, ListInv
    <2>3. /\ Lists \in Seq(Kinds) /\ Len(Lists) \in Nat
          /\ left = SubSeq(Lists, n, Len(Lists)) /\ left' = SubSeq(Lists, n + 1, Len(Lists))
      BY <2>1, <2>2, AtHead DEF Progress
    <2>4. Len(left) = Len(Lists) - n + 1 /\ Len(left') = Len(Lists) - n
      BY <2>3, SubSeqProperties
    <2>5. Len(left) > 0 /\ Len(left') = Len(left) - 1
      BY <2>3, <2>4
    <2>6. QED
      BY <2>1, <2>5 DEF Advances
  <1>7. QED
    BY <1>1, <1>3, <1>4, <1>5, <1>6 DEF Works

(***************************************************************************)
(* Every step of HandleRequest brings the request nearer to its one        *)
(* answer; nothing EuroScope adds or removes meanwhile takes the handler   *)
(* back, and after the answer nothing happens any more.                    *)
(***************************************************************************)
THEOREM SpecAdvances == Spec => [][IF Works THEN Advances ELSE KeepsItsPlace]_vars
  <1>1. IInv /\ [Next]_vars => [IF Works THEN Advances ELSE KeepsItsPlace]_vars
    <2> SUFFICES ASSUME IInv, Next PROVE IF Works THEN Advances ELSE KeepsItsPlace
      OBVIOUS
    <2>1. CASE Works
      BY <2>1, WorksAdvances
    <2>2. CASE EuroScope
      <3>1. pc # "answered" /\ UNCHANGED <<request, pc, answer, looked, left, cursor>>
        BY <2>2 DEF EuroScope, Appears, Vanishes, handler
      <3>2. KeepsItsPlace
        BY <3>1 DEF KeepsItsPlace, Ahead
      <3>3. QED
        BY <3>2, WorksAdvances
    <2>3. QED
      BY <2>1, <2>2 DEF Next
  <1>2. QED
    BY <1>1, Invariance, PTL DEF Spec
===============================================================================
