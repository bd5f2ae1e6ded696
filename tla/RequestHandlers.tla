--------------------------- MODULE RequestHandlers ---------------------------
(***************************************************************************)
(* HandleRequest (src/src/Handlers.cpp): one request on its worker, while  *)
(* EuroScope's main thread goes on creating and removing flight plans,     *)
(* radar targets, controllers, sector elements and voice channels.  A      *)
(* handler looks its objects up, tests them and its arguments, and only    *)
(* then calls the SDK: between any two of these calls an object may be     *)
(* gone.  Handlers share nothing but EuroScope, and each runs on a worker  *)
(* of its own: a behaviour is one call of HandleRequest.                   *)
(*                                                                         *)
(* The SDK is external: a lookup tells whether the object is there, a call *)
(* on an object that is gone does nothing (and returns false where it      *)
(* returns a bool), and SelectNext goes on after an object that was        *)
(* removed.  IsValid only says that a handle was not empty when it was     *)
(* obtained, so that it is part of the lookup.                             *)
(***************************************************************************)
EXTENDS Naturals, Sequences

CONSTANTS
    Items,            \* per kind, the objects there may be, in EuroScope's order
    ElementType,      \* of each sector element
    Unserializable    \* those whose serializer throws

\* Flight plans, radar targets, controllers, the controller logged in here
\* (a collection of at most one), sector elements, voice channels.
Kinds == {"fp", "rt", "ct", "me", "se", "ch"}

ASSUME ItemsAssumption ==
    /\ Items \in [Kinds -> SUBSET (Nat \ {0})]
    /\ ElementType \in [Items["se"] -> Nat \ {0}]
    /\ Unserializable \subseteq Nat

Nobody == 0           \* an empty name in a request
AllItems == UNION {Items[k] : k \in Kinds}
Worlds == {w \in [Kinds -> SUBSET AllItems] : \A k \in Kinds : w[k] \subseteq Items[k]}
Targets == {t \in [Kinds -> AllItems \cup {Nobody}] :
              \A k \in Kinds : t[k] \in Items[k] \cup {Nobody}}

------------------------------------------------------------------------------
(***************************************************************************)
(* What each group of handlers does.  named: an empty name is refused      *)
(* before anything is looked up.  early, late: the other arguments tested  *)
(* before and after the lookups.  looks: the objects looked up, in order.  *)
(* acts: whether the SDK is called to change something, and whether its    *)
(* result is tested.  lists: the collections to go through.                *)
(***************************************************************************)
Arguments == {"value", "index", "target", "point", "time", "command"}
Row(named, early, looks, late, acts) ==
    [named |-> named, early |-> early, looks |-> looks, late |-> late,
     acts |-> acts, lists |-> <<>>]

AssignedDataSetter == Row(TRUE, {}, <<"fp">>, {}, "checked")
SetCommunicationType == [AssignedDataSetter EXCEPT !.early = {"value"}]
FlightPlanDataSetter == AssignedDataSetter
AmendOrTrack == Row(FALSE, {}, <<"fp">>, {}, "checked")
AnswerHandoff == [AmendOrTrack EXCEPT !.acts = "unchecked"]
InitiateHandoff == [AmendOrTrack EXCEPT !.late = {"target"}]
PushFlightStrip == [AnswerHandoff EXCEPT !.late = {"target"}]
SetEstimation == Row(TRUE, {}, <<"fp">>, {"point", "time"}, "unchecked")
SetFlightStripAnnotation == Row(TRUE, {}, <<"fp">>, {"index"}, "checked")
Correlate == Row(TRUE, {}, <<"fp", "rt">>, {}, "checked")
Uncorrelate(k) == Row(FALSE, {}, <<k>>, {}, "unchecked")
SetAsel(k) == Row(TRUE, {}, <<k>>, {}, "unchecked")
DisplayMessage == Row(FALSE, {}, <<>>, {}, "unchecked")
SendCommand == Row(FALSE, {"command"}, <<>>, {}, "nothing")
ToggleChannel == Row(FALSE, {}, <<"ch">>, {}, "unchecked")
GetNumber == Row(FALSE, {}, <<>>, {}, "nothing")
List(kinds) == [GetNumber EXCEPT !.lists = kinds]

Table ==
    [set_squawk            |-> AssignedDataSetter,
     set_communication_type |-> SetCommunicationType,
     set_route             |-> FlightPlanDataSetter,
     start_tracking        |-> AmendOrTrack,
     accept_handoff        |-> AnswerHandoff,
     initiate_handoff      |-> InitiateHandoff,
     push_flight_strip     |-> PushFlightStrip,
     set_estimation        |-> SetEstimation,
     set_flight_strip_annotation |-> SetFlightStripAnnotation,
     correlate             |-> Correlate,
     uncorrelate           |-> Uncorrelate("fp"),
     uncorrelate_rt        |-> Uncorrelate("rt"),
     set_asel              |-> SetAsel("fp"),
     set_asel_rt           |-> SetAsel("rt"),
     display_message       |-> DisplayMessage,
     send_command          |-> SendCommand,
     toggle_primary        |-> ToggleChannel,
     get_connection_type   |-> GetNumber,
     get_flightplans       |-> List(<<"fp">>),
     get_radar_targets     |-> List(<<"rt">>),
     get_controllers       |-> List(<<"me", "ct">>),
     get_sector_elements   |-> List(<<"se">>),
     get_voice_channels    |-> List(<<"ch">>),
     get_full_snapshot     |-> List(<<"fp", "rt", "ct", "me">>)]

(***************************************************************************)
(* clear_estimation builds an error, drops it and falls through to the     *)
(* last line: it is answered like a type that does not exist.  (So are     *)
(* set_ground_state and set_clearence_flag, which Constants.h declares.)   *)
(***************************************************************************)
Unhandled == {"clear_estimation"}
Filtered == {"get_flightplans", "get_radar_targets", "get_sector_elements"}
Types == DOMAIN Table \cup Unhandled

VARIABLES
    world,      \* per kind, what EuroScope has
    pc,         \* where the handler is
    request,    \* the request it works on
    target,     \* the objects it has found, Nobody where it has none
    looked,     \* how many lookups it has done
    left,       \* the collections it still has to go through
    cursor,     \* the last object it got from SelectFirst or SelectNext
    items,      \* what it has collected
    answer,     \* what it returns
    effect,     \* whether EuroScope has done what was asked
    seen,       \* what has existed at some time since the request came
    kept        \* what has existed at all times since then

vars == <<world, pc, request, target, looked, left, cursor, items, answer,
          effect, seen, kept>>
handler == <<request, target, looked, left, cursor, items, effect>>

(***************************************************************************)
(* A request names the objects its handler looks up, or what a query is    *)
(* about (one callsign, or the sector elements of one type), and gives     *)
(* arguments its handler reads.                                            *)
(***************************************************************************)
RowOf(type) == IF type \in DOMAIN Table THEN Table[type] ELSE GetNumber
KindsOf(s) == {s[n] : n \in 1 .. Len(s)}
Touched(type) == KindsOf(RowOf(type).looks) \cup KindsOf(RowOf(type).lists)
Named(type) == KindsOf(RowOf(type).looks) \cup (IF type \in Filtered THEN Touched(type) ELSE {})
NamesOf(k) == IF k = "se" THEN {ElementType[i] : i \in Items[k]} ELSE Items[k]
May(t, k) == {Nobody} \cup (IF k \in Named(t) THEN NamesOf(k) ELSE {})
NamesIn(t) == {n \in [Kinds -> UNION {May(t, k) : k \in Kinds}] : \A k \in Kinds : n[k] \in May(t, k)}
Requests ==
    UNION {[type : {t}, name : NamesIn(t), given : SUBSET (RowOf(t).early \cup RowOf(t).late)] :
             t \in Types}
Handler == Table[request.type]
Looks == KindsOf(Handler.looks)

Answer(success, why, kind) == [success |-> success, why |-> why, kind |-> kind]
Answers == [success : BOOLEAN,
            why : {"", "none", "missing", "not found", "failed", "unknown type"},
            kind : Kinds \cup {""}]
NoAnswer == Answer(FALSE, "none", "")

(***************************************************************************)
(* A call begins.  What the request is not about is left out of the world. *)
(***************************************************************************)
Init ==
    /\ request \in Requests
    /\ \E S \in SUBSET UNION {{k} \X Items[k] : k \in Touched(request.type)} :
         world = [k \in Kinds |-> {i \in Items[k] : <<k, i>> \in S}]
    /\ pc = "start"
    /\ target = [k \in Kinds |-> Nobody]
    /\ looked = 0
    /\ left = RowOf(request.type).lists
    /\ cursor = 0
    /\ items = [k \in Kinds |-> <<>>]
    /\ answer = NoAnswer
    /\ effect = FALSE
    /\ seen = world
    /\ kept = world

------------------------------------------------------------------------------
\* EuroScope's main thread, as far as the handler can notice it.
Appears(k, i) ==
    /\ pc # "answered"
    /\ k \in Touched(request.type)
    /\ i \in Items[k] \ world[k]
    /\ world' = [world EXCEPT ![k] = @ \cup {i}]
    /\ seen' = [seen EXCEPT ![k] = @ \cup {i}]
    /\ UNCHANGED <<pc, answer, kept, handler>>

Vanishes(k, i) ==
    /\ pc # "answered"
    /\ k \in Touched(request.type)
    /\ i \in world[k]
    /\ world' = [world EXCEPT ![k] = @ \ {i}]
    /\ kept' = [kept EXCEPT ![k] = @ \ {i}]
    /\ UNCHANGED <<pc, answer, seen, handler>>

------------------------------------------------------------------------------
Return(a) == pc' = "answered" /\ answer' = a
Fail(why, kind) == Return(Answer(FALSE, why, kind))
Succeed == Return(Answer(TRUE, "", ""))

\* Mutant: the last line of HandleRequest is missing, and nothing is returned.
UnknownType_Silent ==
    /\ pc = "start"
    /\ request.type \in Unhandled
    /\ UNCHANGED vars

UnknownType ==
    /\ pc = "start"
    /\ request.type \in Unhandled
    /\ Fail("unknown type", "")
    /\ UNCHANGED <<world, seen, kept, handler>>

Complete(h) ==
    /\ h.named => \A n \in 1 .. Len(h.looks) : request.name[h.looks[n]] # Nobody
    /\ h.early \subseteq request.given

CheckArguments ==
    /\ pc = "start"
    /\ request.type \in DOMAIN Table
    /\ IF Complete(Handler)
         THEN pc' = (IF left = <<>> THEN "lookup" ELSE "list") /\ UNCHANGED answer
         ELSE Fail("missing", "")
    /\ UNCHANGED <<world, seen, kept, handler>>

(***************************************************************************)
(* A name asks for one object, or for all elements of a type.  Without     *)
(* one, a query asks for all, and a toggle takes the first channel it      *)
(* comes to.                                                               *)
(***************************************************************************)
Asked(k) ==
    IF request.name[k] = Nobody THEN IF k = "ch" \/ Handler.lists # <<>> THEN Items[k] ELSE {}
    ELSE IF k = "se" THEN {i \in Items[k] : ElementType[i] = request.name[k]}
    ELSE {request.name[k]}

\* Mutant: correlate looks its radar target up by the flight plan's callsign.
Found_MixesNames(k) ==
    world[k] \cap Asked(IF request.type = "correlate" THEN "fp" ELSE k)

Found(k) == world[k] \cap Asked(k)
IsFirst(i, S) == i \in S /\ \A j \in S : i <= j

\* Mutant: what is found is always kept as the channel.
Lookup_OneTarget ==
    /\ pc = "lookup"
    /\ looked < Len(Handler.looks)
    /\ LET k == Handler.looks[looked + 1] IN
         \/ /\ \E i \in Found(k) : target' = [target EXCEPT !["ch"] = i]
            /\ looked' = looked + 1
            /\ UNCHANGED <<pc, answer>>
         \/ /\ Found(k) = {}
            /\ Fail("not found", k)
            /\ UNCHANGED <<looked, target>>
    /\ UNCHANGED <<world, request, left, cursor, items, effect, seen, kept>>

Lookup ==
    /\ pc = "lookup"
    /\ looked < Len(Handler.looks)
    /\ LET k == Handler.looks[looked + 1] IN
         /\ k # "ch"
         /\ \/ /\ \E i \in Found(k) : target' = [target EXCEPT ![k] = i]
               /\ looked' = looked + 1
               /\ UNCHANGED <<pc, answer>>
            \/ /\ Found(k) = {}
               /\ Fail("not found", k)
               /\ UNCHANGED <<looked, target>>
    /\ UNCHANGED <<world, request, left, cursor, items, effect, seen, kept>>

(***************************************************************************)
(* Channels have no lookup by name: the handler goes through them, one     *)
(* SelectNext at a time.                                                   *)
(***************************************************************************)
NextChannels == {i \in world["ch"] : i > cursor}

\* Mutant: the first channel is taken, whatever its name.
LookThroughChannels_AnyName ==
    /\ pc = "lookup"
    /\ looked < Len(Handler.looks)
    /\ Handler.looks[looked + 1] = "ch"
    /\ \/ \E i \in NextChannels :
            /\ IsFirst(i, NextChannels)
            /\ cursor' = i
            /\ target' = [target EXCEPT !["ch"] = i]
            /\ looked' = looked + 1
            /\ UNCHANGED <<pc, answer>>
       \/ /\ NextChannels = {}
          /\ Fail("not found", "ch")
          /\ UNCHANGED <<looked, target, cursor>>
    /\ UNCHANGED <<world, request, left, items, effect, seen, kept>>

LookThroughChannels ==
    /\ pc = "lookup"
    /\ looked < Len(Handler.looks)
    /\ Handler.looks[looked + 1] = "ch"
    /\ \/ \E i \in NextChannels :
            /\ IsFirst(i, NextChannels)
            /\ cursor' = i
            /\ IF i \in Asked("ch")
                 THEN target' = [target EXCEPT !["ch"] = i] /\ looked' = looked + 1
                 ELSE UNCHANGED <<target, looked>>
            /\ UNCHANGED <<pc, answer>>
       \/ /\ NextChannels = {}
          /\ Fail("not found", "ch")
          /\ UNCHANGED <<looked, target, cursor>>
    /\ UNCHANGED <<world, request, left, items, effect, seen, kept>>

LookedUp == pc = "lookup" /\ looked = Len(Handler.looks)

LateArgumentMissing ==
    /\ LookedUp
    /\ ~(Handler.late \subseteq request.given)
    /\ Fail("missing", "")
    /\ UNCHANGED <<world, seen, kept, handler>>

(***************************************************************************)
(* The call that changes something.  The SDK may refuse it, and does       *)
(* nothing when an object is gone; only some handlers ask.                 *)
(***************************************************************************)
StillThere == \A k \in Looks : target[k] \in world[k]

\* Mutant: the SDK is called before the last arguments are tested.
Act_BeforeArguments ==
    /\ LookedUp
    /\ Handler.acts # "nothing"
    /\ \E ok \in IF StillThere THEN BOOLEAN ELSE {FALSE} :
         /\ effect' = ok
         /\ IF ~(Handler.late \subseteq request.given) THEN Fail("missing", "")
            ELSE IF Handler.acts = "checked" /\ ~ok THEN Fail("failed", "") ELSE Succeed
    /\ UNCHANGED <<world, request, target, looked, left, cursor, items, seen, kept>>

Act ==
    /\ LookedUp
    /\ Handler.late \subseteq request.given
    /\ Handler.acts # "nothing"
    /\ \E ok \in IF StillThere THEN BOOLEAN ELSE {FALSE} :
         /\ effect' = ok
         /\ IF Handler.acts = "checked" /\ ~ok THEN Fail("failed", "") ELSE Succeed
    /\ UNCHANGED <<world, request, target, looked, left, cursor, items, seen, kept>>

Report ==
    /\ LookedUp
    /\ Handler.acts = "nothing"
    /\ Succeed
    /\ UNCHANGED <<world, seen, kept, handler>>

(***************************************************************************)
(* SelectFirst and SelectNext; a record that does not serialize is left    *)
(* out.  A query that names a callsign takes that object or none.          *)
(***************************************************************************)
Following == {i \in Found(Head(left)) : i > cursor}

SelectNext ==
    /\ pc = "list"
    /\ \E i \in Following :
         /\ IsFirst(i, Following)
         /\ cursor' = i
         /\ items' = IF i \in Unserializable THEN items
                       ELSE [items EXCEPT ![Head(left)] = Append(@, i)]
    /\ UNCHANGED <<world, pc, request, target, looked, left, answer, effect, seen, kept>>

\* Mutant: the next collection goes on where the last one ended.
EndOfList_KeepsCursor ==
    /\ pc = "list"
    /\ Following = {}
    /\ left' = Tail(left)
    /\ IF Tail(left) = <<>> THEN Succeed ELSE UNCHANGED <<pc, answer>>
    /\ UNCHANGED <<world, request, target, looked, cursor, items, effect, seen, kept>>

EndOfList ==
    /\ pc = "list"
    /\ Following = {}
    /\ left' = Tail(left)
    /\ cursor' = 0
    /\ IF Tail(left) = <<>> THEN Succeed ELSE UNCHANGED <<pc, answer>>
    /\ UNCHANGED <<world, request, target, looked, items, effect, seen, kept>>

EuroScope == \E k \in Kinds, i \in AllItems : Appears(k, i) \/ Vanishes(k, i)
Works ==
    \/ UnknownType \/ CheckArguments \/ Lookup \/ LookThroughChannels \/ LateArgumentMissing
    \/ Act \/ Report \/ SelectNext \/ EndOfList

Next == EuroScope \/ Works
Spec == Init /\ [][Next]_vars
FairSpec == Spec /\ WF_vars(Works)

------------------------------------------------------------------------------
(***************************************************************************)
(* Type invariant: every object a handler holds is of the kind it is held  *)
(* as, and a handler works through the collections of its own type.        *)
(***************************************************************************)
TypeOK ==
    /\ world \in Worlds /\ seen \in Worlds /\ kept \in Worlds
    /\ pc \in {"start", "lookup", "list", "answered"}
    /\ target \in Targets
    /\ looked \in 0 .. Len(RowOf(request.type).looks)
    /\ \E n \in 0 .. Len(RowOf(request.type).lists) :
         left = SubSeq(RowOf(request.type).lists, n + 1, Len(RowOf(request.type).lists))
    /\ cursor \in AllItems \cup {0}
    /\ items \in [Kinds -> Seq(AllItems)]
    /\ answer \in Answers
    /\ effect \in BOOLEAN

Answered == pc = "answered"

(***************************************************************************)
(* "Not found" is said only of an object that was missing at some moment   *)
(* of the request; of an unnamed channel, only if none was there all the   *)
(* time.  (A handler that looks up two objects must not mix them up.)      *)
(***************************************************************************)
NotFoundMeansAbsent ==
    Answered /\ answer.why = "not found" => kept[answer.kind] \cap Asked(answer.kind) = {}

(***************************************************************************)
(* A client that is told of an error may repeat the request: nothing has   *)
(* been changed, however late the handler gave up.  (A call that the SDK   *)
(* reports as failed is assumed to have changed nothing.)                  *)
(***************************************************************************)
ErrorsLeaveNoTrace == Answered /\ ~answer.success => ~effect

(***************************************************************************)
(* Success speaks of the object that was asked for.  With every handler,   *)
(* also those that do not test the SDK's result, whatever was looked up is *)
(* what the request named and existed at some moment of the request; a     *)
(* toggle without a name has taken no channel that comes after one that    *)
(* was there all the time.  (The dual of NotFoundMeansAbsent.)             *)
(***************************************************************************)
RightTarget(k) ==
    /\ target[k] \in seen[k] \cap Asked(k)
    /\ \A i \in kept[k] \cap Asked(k) : target[k] <= i
SuccessMeansFound ==
    Answered /\ answer.success /\ request.type \in DOMAIN Table
      => \A k \in Looks : RightTarget(k)

(***************************************************************************)
(* More cannot be said: this does not hold.  Where the SDK's function      *)
(* returns nothing, the handler answers success although the object may    *)
(* have vanished before the call and nothing was done.                     *)
(***************************************************************************)
SuccessMeansDone ==
    Answered /\ answer.success /\ request.type \in DOMAIN Table /\ Handler.acts # "nothing"
      => effect

(***************************************************************************)
(* A list is not the state of one moment, but it is bracketed: it holds    *)
(* what was there all the time (and serializes), nothing that never was,   *)
(* and nothing twice.                                                      *)
(***************************************************************************)
Bracketed(k) ==
    LET listed == {items[k][n] : n \in 1 .. Len(items[k])} IN
      /\ (kept[k] \cap Asked(k)) \ Unserializable \subseteq listed
      /\ listed \subseteq seen[k] \cap Asked(k)
      /\ \A m, n \in 1 .. Len(items[k]) : m < n => items[k][m] < items[k][n]
ListsAreBracketed ==
    Answered /\ request.type \in DOMAIN Table
      => \A n \in 1 .. Len(Handler.lists) : Bracketed(Handler.lists[n])

(***************************************************************************)
(* Every request returns, whatever EuroScope does meanwhile.               *)
(***************************************************************************)
EveryRequestReturns == <>(pc = "answered")
==============================================================================
