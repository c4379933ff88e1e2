------------------------- MODULE InputBackends_proof -------------------------
(***************************************************************************)
(* The ways input is sent, for any number of windows, programs and texts:  *)
(* the choice of a route, the windows of wlr and labwc, the programs that  *)
(* are run, the background keys of Hyprland, and the windows of the        *)
(* compositors that are asked through a socket.                            *)
(*                                                                         *)
(* InputRoutes.  What one call does, for any hosts, windows, fields,       *)
(* requests and changes around the call.                                   *)
(*                                                                         *)
(* That one route acts is not inductive, since a call has many rungs left  *)
(* when it is asked: the argument is that nothing has reached the desktop  *)
(* before the call is answered (QuietBefore), because every step that may  *)
(* have done something also answers.  The rung a call is at tells its tool *)
(* (RungOfTool), so an argument of wtype is typed text whose field was     *)
(* found plain and is still in front (ArgumentIsPlain).                    *)
(*                                                                         *)
(* That the window meant is reached needs the window that is in front at   *)
(* each rung (AimInv), for every call during which no capture may ask the  *)
(* user for consent: all keyboard calls, and the others where captures     *)
(* never ask.                                                              *)
(***************************************************************************)
EXTENDS InputRoutes, HyprlandKeys, CommandRunner, Toplevels, IpcWindows,
        FiniteSetTheorems, WellFoundedInduction, SequenceTheorems, TLAPS

CallType == [at : Rungs \cup {"idle", "done"}, request : Request,
             aim : Windows \cup {NoWindow}, mode : {"none", "argument", "stdin"},
             answer : Answers]
EffectType == [routes : SUBSET Routes, windows : SUBSET Windows, whole : BOOLEAN,
               argv : BOOLEAN]

PointerRungs == {"pointer", "uinput", "emit", "portal", "portal_start", "portal_refocus",
                 "portal_send", "ydotool"}
KeyRungs == {"chord", "wtype", "pin", "keyboard_start", "keyboard_refocus",
             "keyboard_send", "command"}

\* Nothing has been done before the call is answered.
QuietBefore == ~At("done") => effect = NoEffect

\* The rung a call is at is one of its tool's.
RungOfTool ==
    /\ Tool \notin Pointer => On = "nothing"
    /\ At("background") => Target # NoWindow
    /\ At("map") \/ At("element") => Tool \in Pointer
    /\ At("classify") => Tool = "type_text"
    /\ At("text") => Tool = "type_text"
    /\ At("chord") => Tool = "press_key"
    /\ call.at \in PointerRungs => Tool \in Pointer
    /\ call.at \in KeyRungs => Tool \notin Pointer
    /\ call.mode # "none" => Tool = "type_text"

\* From here on a call without a target may have taken the window with the focus for one.
Pinned == {"keyboard_start", "keyboard_refocus", "keyboard_send", "command", "done"}

\* The rungs where the window to send to is known.
Aimed == {"portal_refocus", "keyboard_start", "keyboard_refocus", "keyboard_send"}

\* The window the call is for is its target, if it has one.
AimIsTarget ==
    /\ call.aim = Target \/ (Target = NoWindow /\ call.at \in Pinned)
    /\ call.at \in Aimed => call.aim # NoWindow

\* Text that would be an argument is for a field that is plain.
ArgumentIsPlain ==
    At("pixelflux") \/ At("text") \/ At("wtype")
        => (call.mode = "argument" => Field[front] = "plain")

\* The types of what is not the call.
DeskOK ==
    /\ host \in Hosts
    /\ front \in Windows
    /\ daemon \in BOOLEAN
    /\ device \in {"none", "fits", "stale"}
    /\ space \in BOOLEAN
    /\ pointer \in {"none", "open", "closed"}
    /\ keyboard \in {"none", "open", "closed"}
    /\ calls \in 0..MaxCalls
    /\ moves \in 0..MaxMoves

\* What is true of the call, and of what it has done.
CallOK == /\ call \in CallType
          /\ effect \in EffectType
          /\ QuietBefore
          /\ AnswersForItsRoute
          /\ RungOfTool
          /\ AimIsTarget
          /\ ArgumentIsPlain
          /\ SecretStaysPrivate

IInv == DeskOK /\ CallOK

USE RouteAssumption

(***************************************************************************)
(* What the steps are made of                                              *)
(***************************************************************************)

(* Input that arrives is all there is. *)
LEMMA ArriveFacts ==
    ASSUME effect = NoEffect, NEW route \in Routes, NEW w \in Windows, NEW b \in BOOLEAN,
           Arrive(route, w, b)
    PROVE  /\ effect' \in EffectType
           /\ effect'.routes = {route}
           /\ effect'.windows = {w}
           /\ effect'.whole = b
           /\ effect'.argv => route = "wtype" /\ call.mode = "argument"
BY DEF Arrive, NoEffect, EffectType

(* An answer ends the call and changes nothing else of it. *)
LEMMA AnswerFacts ==
    ASSUME call \in CallType, NEW a \in Answers, AnswerWith(a)
    PROVE  /\ call' \in CallType
           /\ call'.at = "done" /\ call'.answer = a
           /\ call'.request = call.request /\ call'.aim = call.aim /\ call'.mode = call.mode
BY DEF AnswerWith, CallType

(* Going on changes only the rung. *)
LEMMA GoFacts ==
    ASSUME call \in CallType, NEW r \in Rungs, Go(r)
    PROVE  /\ call' \in CallType
           /\ call'.at = r /\ call'.answer = call.answer
           /\ call'.request = call.request /\ call'.aim = call.aim /\ call'.mode = call.mode
BY DEF Go, CallType

\* The route has acted in the window, in part or not at all, and the call is answered.
Acts(route, w, failed) ==
    /\ effect' \in EffectType
    /\ effect'.routes \subseteq {route}
    /\ effect'.windows \subseteq {w}
    /\ effect'.argv => route = "wtype" /\ call.mode = "argument"
    /\ call' \in CallType
    /\ call'.at = "done"
    /\ call'.request = call.request /\ call'.aim = call.aim /\ call'.mode = call.mode
    /\ call'.answer = "sent" => effect'.routes # {} /\ effect'.whole
    /\ call'.answer \in {"sent", failed}

(* Emit acts by its route in its window, or refuses, and answers for it. *)
LEMMA EmitFacts ==
    ASSUME call \in CallType, effect = NoEffect, NEW route \in Routes, NEW w \in Windows,
           NEW failed \in {"error", "may_have"}, Emit(route, w, failed)
    PROVE  Acts(route, w, failed)
<1>0. "sent" \in Answers /\ failed \in Answers /\ failed # "sent"
  BY DEF Answers
<1>1. CASE Arrive(route, w, TRUE) /\ AnswerWith("sent")
  BY ZenonT(60), <1>0, <1>1, ArriveFacts, AnswerFacts DEF Acts
<1>2. CASE Arrive(route, w, FALSE) /\ AnswerWith(failed)
  BY <1>0, <1>2, ArriveFacts, AnswerFacts DEF Acts
<1>3. CASE UNCHANGED effect /\ AnswerWith(failed)
  <2>1. /\ effect' \in EffectType /\ effect'.routes = {} /\ effect'.windows = {}
        /\ effect'.argv = FALSE
    BY <1>3 DEF NoEffect, EffectType
  <2> QED
    BY <1>0, <1>3, <2>1, AnswerFacts DEF Acts
<1> QED
  BY <1>1, <1>2, <1>3 DEF Emit

\* The call is answered truly, for what it did in these windows.
Ends(some) ==
    /\ call' \in CallType
    /\ call'.at = "done"
    /\ call'.request = call.request /\ call'.aim = call.aim /\ call'.mode = call.mode
    /\ effect' \in EffectType
    /\ AnswersForItsRoute'
    /\ SecretStaysPrivate'
    /\ effect'.windows \subseteq some

\* The call goes on to another rung.
Goes ==
    /\ call' \in CallType
    /\ call'.at # "done"
    /\ call.at # "done"
    /\ UNCHANGED effect

(* A refusal before anything was done is true. *)
LEMMA Refusing ==
    ASSUME IInv, ~At("done"), NEW a \in Answers \ {"sent"}, AnswerWith(a), UNCHANGED effect
    PROVE  Ends({})
<1>1. /\ effect' \in EffectType /\ effect'.routes = {} /\ effect'.windows = {}
      /\ effect'.argv = FALSE
  BY DEF IInv, CallOK, QuietBefore, NoEffect, EffectType
<1> QED
  BY <1>1, AnswerFacts
     DEF IInv, CallOK, Ends, AnswersForItsRoute, OneRouteActs, AnswerIsTrue,
     SecretStaysPrivate, At

(* So is the answer of a route that acted. *)
LEMMA Acting ==
    ASSUME IInv, ~At("done"), NEW route \in Routes, NEW w \in Windows,
           route = "wtype" /\ call.mode = "argument" => Field[w] = "plain",
           NEW failed \in {"error", "may_have"}, Acts(route, w, failed)
    PROVE  Ends({w})
BY DEF Acts, Ends, AnswersForItsRoute, OneRouteActs, AnswerIsTrue, SecretStaysPrivate, At

(* The same of Emit, for every route but wtype, which has its own step. *)
LEMMA Emitting ==
    ASSUME IInv, ~At("done"), NEW route \in Routes \ {"wtype"}, NEW w \in Windows,
           NEW failed \in {"error", "may_have"}, Emit(route, w, failed)
    PROVE  Ends({w})
BY EmitFacts, Acting DEF IInv, CallOK, QuietBefore

(* A call that ends so satisfies the invariant. *)
LEMMA EndsWell ==
    ASSUME IInv, NEW some, Ends(some)
    PROVE  CallOK'
BY DEF IInv, CallOK, Ends, QuietBefore, RungOfTool, AimIsTarget, ArgumentIsPlain, At,
       Tool, On, Target, PointerRungs, KeyRungs, Pinned, Aimed

(* A call that goes on has still done nothing. *)
LEMMA GoesWell ==
    ASSUME IInv, Goes, RungOfTool', AimIsTarget', ArgumentIsPlain'
    PROVE  CallOK'
<1>1. effect' = NoEffect
  BY DEF IInv, CallOK, Goes, QuietBefore, At
<1>2. effect' \in EffectType /\ AnswersForItsRoute' /\ SecretStaysPrivate'
  BY <1>1 DEF IInv, CallOK, Goes, NoEffect, EffectType, AnswersForItsRoute, OneRouteActs,
     AnswerIsTrue, SecretStaysPrivate, At
<1> QED
  BY <1>1, <1>2 DEF CallOK, Goes, QuietBefore

(* Where the focused call goes on, and for which tools. *)
LEMMA FocusedIs ==
    ASSUME IInv, At("focus")
    PROVE  \/ Focused = "map" /\ Tool \in Pointer
           \/ Focused = "element" /\ Tool \in Pointer
           \/ Focused = "classify" /\ Tool = "type_text"
           \/ Focused = "refused" /\ Tool = "press_key"
           \/ Focused = "pixelflux" /\ Tool # "type_text"
<1>1. /\ Tool \notin Pointer => On = "nothing"
      /\ "type_text" \notin Pointer /\ "press_key" \notin Pointer /\ "scroll" \in Pointer
      /\ "nothing" \notin {"element", "primary", "atspi"} /\ "nothing" # "relative"
  BY DEF IInv, CallOK, RungOfTool, Pointer
<1>2. CASE On = "relative"
  BY <1>1, <1>2, Zenon DEF Focused
<1>3. CASE On # "relative" /\ On = "nothing" /\ Tool = "scroll" /\ Target # NoWindow
  BY <1>1, <1>3, Zenon DEF Focused
<1> QED
  BY <1>1, Zenon DEF Focused

(* A step to a rung that suits the tool, the mode and the aim of the call. *)
LEMMA GoesTo ==
    ASSUME IInv, ~At("done"), UNCHANGED effect,
           NEW r \in Rungs, Go(r),
           r \in {"background", "map", "element"} => FALSE,
           r \in {"classify", "text"} => Tool = "type_text",
           r = "chord" => Tool = "press_key",
           r \in PointerRungs => Tool \in Pointer,
           r \in KeyRungs => Tool \notin Pointer,
           r \in {"pixelflux", "text", "wtype"} =>
               (call.mode = "argument" => Field[front'] = "plain"),
           call.at \in Pinned => r \in Pinned,
           r \in Aimed => call.aim # NoWindow
    PROVE  CallOK'
<1>1. /\ call' \in CallType /\ call'.at = r
      /\ call'.request = call.request /\ call'.aim = call.aim /\ call'.mode = call.mode
  BY GoFacts DEF IInv, CallOK
<1>2. r # "done"
  BY DEF Rungs
<1>3. Goes
  BY <1>1, <1>2 DEF Goes, At
<1>4. RungOfTool'
  BY <1>1 DEF IInv, CallOK, RungOfTool, At, Tool, On, Target
<1>5. AimIsTarget'
  BY <1>1 DEF IInv, CallOK, AimIsTarget, Pinned, Aimed, Target
<1>6. ArgumentIsPlain'
  BY <1>1 DEF ArgumentIsPlain, At
<1> QED
  BY <1>3, <1>4, <1>5, <1>6, GoesWell

(* A step of a pointer call to find its place. *)
LEMMA GoesToPlace ==
    ASSUME IInv, ~At("done"), UNCHANGED effect,
           NEW r \in {"map", "element"}, Go(r), Tool \in Pointer,
           call.at \notin Pinned
    PROVE  CallOK'
<1>1. /\ call' \in CallType /\ call'.at = r
      /\ call'.request = call.request /\ call'.aim = call.aim /\ call'.mode = call.mode
  BY GoFacts DEF IInv, CallOK, Rungs
<1>3. Goes
  BY <1>1 DEF Goes, At
<1>4. RungOfTool'
  BY <1>1 DEF IInv, CallOK, RungOfTool, At, Tool, On, Target, PointerRungs, KeyRungs
<1>5. AimIsTarget'
  BY <1>1 DEF IInv, CallOK, AimIsTarget, Pinned, Aimed, Target
<1>6. ArgumentIsPlain'
  BY <1>1 DEF ArgumentIsPlain, At
<1> QED
  BY <1>3, <1>4, <1>5, <1>6, GoesWell

(* A step that refuses keeps the invariant. *)
LEMMA Refused ==
    ASSUME IInv, ~At("done"), NEW a \in {"not_sent", "may_have", "error"}, AnswerWith(a),
           UNCHANGED effect
    PROVE  CallOK'
BY Refusing, EndsWell DEF Answers

(* A step that emits keeps the invariant. *)
LEMMA Emitted ==
    ASSUME IInv, ~At("done"), NEW route \in Routes \ {"wtype"}, NEW w \in Windows,
           NEW failed \in {"error", "may_have"}, Emit(route, w, failed)
    PROVE  CallOK'
BY Emitting, EndsWell

(* Some window is always in front. *)
LEMMA FrontIsWindow == IInv => front \in Windows
BY DEF IInv, DeskOK

(* The steps that begin a call, one by one. *)
LEMMA SendInBackgroundKeeps == ASSUME IInv, SendInBackground PROVE IInv'
<1>1. DeskOK'
  BY DEF IInv, DeskOK, SendInBackground, sessionVars, deskVars, boundVars
<1> SUFFICES CallOK'
  BY <1>1 DEF IInv
<1>2. CASE Go("focus") /\ UNCHANGED effect
  BY <1>2, GoesTo DEF SendInBackground, At, Rungs, PointerRungs, KeyRungs, Pinned, Aimed
<1>3. CASE AnswerWith(IF Kind = "plain" THEN "not_sent" ELSE "error") /\ UNCHANGED effect
  BY <1>3, Refused DEF SendInBackground, At
<1>4. CASE Emit("background", Target, "error")
  <2>1. Target \in Windows
    BY DEF SendInBackground, IInv, CallOK, RungOfTool, CallType, Request, Target
  <2> QED
    BY <1>4, <2>1, Emitted DEF SendInBackground, At, Routes
<1> QED
  BY <1>2, <1>3, <1>4 DEF SendInBackground

LEMMA FocusTargetKeeps == ASSUME IInv, FocusTarget PROVE IInv'
<1>1. DeskOK'
  <2>1. Target # NoWindow => Target \in Windows
    BY DEF IInv, CallOK, CallType, Request, Target
  <2> QED
    BY <2>1 DEF IInv, DeskOK, FocusTarget, sessionVars, boundVars
<1> SUFFICES CallOK'
  BY <1>1 DEF IInv
<1>2. CASE Focused = "refused" /\ AnswerWith("error")
  BY <1>2, Refused DEF FocusTarget, At
<1>3. CASE AnswerWith("not_sent")
  BY <1>3, Refused DEF FocusTarget, At
<1>4. CASE Focused # "refused" /\ Go(Focused)
  <2>1. CASE Focused \in {"map", "element"} /\ Tool \in Pointer
    BY <1>4, <2>1, GoesToPlace DEF FocusTarget, At, Pinned
  <2>2. CASE Focused = "classify" /\ Tool = "type_text"
    BY <1>4, <2>2, GoesTo DEF FocusTarget, At, Rungs, PointerRungs, KeyRungs, Pinned, Aimed
  <2>3. CASE Focused = "pixelflux" /\ Tool # "type_text"
    <3>1. call.mode # "argument"
      BY <2>3 DEF IInv, CallOK, RungOfTool
    <3> QED
      BY <1>4, <2>3, <3>1, GoesTo
         DEF FocusTarget, At, Rungs, PointerRungs, KeyRungs, Pinned, Aimed
  <2> QED
    BY <1>4, <2>1, <2>2, <2>3, FocusedIs DEF FocusTarget
<1> QED
  BY <1>2, <1>3, <1>4 DEF FocusTarget

LEMMA MapWindowPointKeeps == ASSUME IInv, MapWindowPoint PROVE IInv'
<1>1. DeskOK'
  BY DEF IInv, DeskOK, MapWindowPoint, Prompted, boundVars
<1> SUFFICES CallOK'
  BY <1>1 DEF IInv
<1>2. CASE AnswerWith("error")
  BY <1>2, Refused DEF MapWindowPoint, At
<1>3. CASE call' = [call EXCEPT !.at = "pixelflux", !.request.on = "point"]
  <2>1. /\ call' \in CallType
        /\ call'.at = "pixelflux"
        /\ call'.request.tool = Tool /\ call'.request.target = Target
        /\ call'.mode = call.mode /\ call'.aim = call.aim
    BY ZenonT(60), <1>3 DEF IInv, CallOK, CallType, Request, Tool, Target, Rungs
  <2>2. Tool \in Pointer /\ call.mode = "none" 
    BY DEF IInv, CallOK, RungOfTool, MapWindowPoint, Pointer
  <2>3. RungOfTool' /\ AimIsTarget' /\ ArgumentIsPlain'
    BY <2>1, <2>2
       DEF RungOfTool, AimIsTarget, ArgumentIsPlain, At, Tool, Target, PointerRungs,
       KeyRungs, Pinned, Aimed, IInv, CallOK, MapWindowPoint
  <2>4. Goes
    BY <2>1 DEF Goes, MapWindowPoint, At
  <2> QED
    BY <2>3, <2>4, GoesWell
<1> QED
  BY <1>2, <1>3 DEF MapWindowPoint

LEMMA ResolveElementKeeps == ASSUME IInv, ResolveElement PROVE IInv'
<1>1. DeskOK'
  BY DEF IInv, DeskOK, ResolveElement, sessionVars, deskVars, boundVars
<1> SUFFICES CallOK'
  BY <1>1 DEF IInv
<1>2. CASE AnswerWith("error") /\ UNCHANGED effect
  BY <1>2, Refused DEF ResolveElement, At
<1>3. CASE Emit("atspi", IF Target = NoWindow THEN front ELSE Target, "error")
  <2>1. (IF Target = NoWindow THEN front ELSE Target) \in Windows
    BY FrontIsWindow DEF IInv, CallOK, CallType, Request, Target
  <2> QED
    BY <1>3, <2>1, Emitted DEF ResolveElement, At, Routes
<1>4. CASE Go("pixelflux") /\ UNCHANGED effect
  <2>1. call.mode # "argument"
    BY DEF ResolveElement, IInv, CallOK, RungOfTool, Pointer, At
  <2> QED
    BY <1>4, <2>1, GoesTo
       DEF ResolveElement, At, Rungs, PointerRungs, KeyRungs, Pinned, Aimed
<1> QED
  BY <1>2, <1>3, <1>4 DEF ResolveElement

LEMMA MapKwinElementKeeps == ASSUME IInv, MapKwinElement PROVE IInv'
<1>1. DeskOK'
  BY DEF IInv, DeskOK, MapKwinElement, Prompted, boundVars
<1> SUFFICES CallOK'
  BY <1>1 DEF IInv
<1>2. CASE AnswerWith("not_sent")
  BY <1>2, Refused DEF MapKwinElement, At
<1>3. CASE Go("pixelflux")
  <2>1. call.mode # "argument"
    BY DEF MapKwinElement, IInv, CallOK, RungOfTool, Pointer, At
  <2> QED
    BY <1>3, <2>1, GoesTo
       DEF MapKwinElement, At, Rungs, PointerRungs, KeyRungs, Pinned, Aimed
<1> QED
  BY <1>2, <1>3 DEF MapKwinElement

(* Only a field that AT-SPI calls plain has its text in an argument. *)
LEMMA ModeOfField ==
    ASSUME NEW field \in {Field[front], "ambiguous"}
    PROVE  /\ ArgumentMode(field) \in {"refused", "argument", "stdin"}
           /\ ArgumentMode(field) = "argument" => Field[front] = "plain"
<1>1. CASE field = "password"
  BY <1>1, Zenon DEF ArgumentMode
<1>2. CASE field # "password" /\ field = "plain"
  <2>1. ArgumentMode(field) = "argument"
    BY <1>2, Zenon DEF ArgumentMode
  <2> QED
    BY <1>2, <2>1
<1>3. CASE field # "password" /\ field # "plain"
  <2>1. ArgumentMode(field) = IF Kind = "long" THEN "refused" ELSE "stdin"
    BY <1>3, Zenon DEF ArgumentMode
  <2> QED
    BY <2>1
<1> QED
  BY <1>1, <1>2, <1>3

LEMMA ClassifyFieldKeeps == ASSUME IInv, ClassifyField PROVE IInv'
<1>1. DeskOK' /\ UNCHANGED <<effect, front>>
  BY DEF IInv, DeskOK, ClassifyField, Only, sessionVars, deskVars, boundVars
<1> SUFFICES CallOK'
  BY <1>1 DEF IInv
<1>2. PICK field \in {Field[front], "ambiguous"} :
        IF call.mode # "argument" THEN Go("pixelflux")
        ELSE IF ArgumentMode(field) = "refused" THEN AnswerWith("not_sent")
        ELSE call' = [call EXCEPT !.at = "pixelflux", !.mode = ArgumentMode(field)]
  BY DEF ClassifyField, Only
<1>3. CASE call.mode # "argument" /\ Go("pixelflux")
  BY <1>1, <1>3, GoesTo DEF ClassifyField, At, Rungs, PointerRungs, KeyRungs, Pinned, Aimed
<1>4. CASE AnswerWith("not_sent")
  BY <1>1, <1>4, Refused DEF ClassifyField, At
<1>5. CASE /\ call.mode = "argument"
           /\ ArgumentMode(field) # "refused"
           /\ call' = [call EXCEPT !.at = "pixelflux", !.mode = ArgumentMode(field)]
  <2>1. /\ ArgumentMode(field) \in {"argument", "stdin"}
        /\ ArgumentMode(field) = "argument" => Field[front] = "plain"
    BY <1>5, ModeOfField
  <2>2. /\ call' \in CallType
        /\ call'.at = "pixelflux" /\ call'.request = call.request
        /\ call'.mode = ArgumentMode(field) /\ call'.aim = call.aim
    BY <1>5, <2>1 DEF IInv, CallOK, CallType, Rungs
  <2>3. RungOfTool' /\ AimIsTarget' /\ ArgumentIsPlain'
    BY <1>1, <1>5, <2>1, <2>2
       DEF RungOfTool, AimIsTarget, ArgumentIsPlain, At, Tool, On, Target,
       PointerRungs, KeyRungs, Pinned, Aimed, IInv, CallOK, ClassifyField
  <2>4. Goes
    BY <1>1, <2>2 DEF Goes, ClassifyField, At
  <2> QED
    BY <2>3, <2>4, GoesWell
<1> QED
  BY <1>2, <1>3, <1>4, <1>5

(* The rungs of the call, their tools and their modes. *)
LEMMA RungFacts ==
    ASSUME IInv
    PROVE  /\ call.at \in PointerRungs => Tool \in Pointer
           /\ call.at \in KeyRungs \cup {"chord", "text", "classify"} => Tool \notin Pointer
           /\ Tool \in Pointer => call.mode = "none"
BY DEF IInv, CallOK, RungOfTool, Pointer, KeyRungs, PointerRungs, At

(* Past pixelflux each tool has its own rung. *)
LEMMA AfterPixelfluxIs ==
    ASSUME IInv
    PROVE  \/ AfterPixelflux = "pointer" /\ Tool \in Pointer
           \/ AfterPixelflux = "chord" /\ Tool = "press_key"
           \/ AfterPixelflux = "text" /\ Tool = "type_text"
<1>1. Tool \in Pointer \/ Tool = "press_key" \/ Tool = "type_text"
  BY DEF IInv, CallOK, CallType, Request, Tools, Pointer, Tool
<1>2. "press_key" # "type_text" /\ "press_key" \notin Pointer /\ "type_text" \notin Pointer
  BY DEF Pointer
<1> QED
  BY <1>1, <1>2, Zenon DEF AfterPixelflux

LEMMA PassPixelfluxKeeps == ASSUME IInv, PassPixelflux PROVE IInv'
<1>1. DeskOK' /\ UNCHANGED <<effect, front>>
  BY DEF IInv, DeskOK, PassPixelflux, Only, sessionVars, deskVars, boundVars
<1> SUFFICES CallOK'
  BY <1>1 DEF IInv
<1>2. /\ At("pixelflux") /\ ~At("done") /\ call.at \notin Pinned
      /\ Go(AfterPixelflux)
  BY DEF PassPixelflux, Only, At, Pinned
<1>3. CASE AfterPixelflux = "pointer" /\ Tool \in Pointer
  BY <1>1, <1>2, <1>3, GoesTo DEF Rungs, PointerRungs, KeyRungs, Pinned, Aimed
<1>4. CASE AfterPixelflux = "chord" /\ Tool = "press_key"
  <2>1. Tool \notin Pointer
    BY <1>4 DEF Pointer
  <2> QED
    BY <1>1, <1>2, <1>4, <2>1, GoesTo DEF Rungs, PointerRungs, KeyRungs, Pinned, Aimed
<1>5. CASE AfterPixelflux = "text" /\ Tool = "type_text"
  <2>1. call.mode = "argument" => Field[front] = "plain"
    BY <1>2 DEF IInv, CallOK, ArgumentIsPlain
  <2> QED
    BY <1>1, <1>2, <1>5, <2>1, GoesTo DEF Rungs, PointerRungs, KeyRungs, Pinned, Aimed
<1> QED
  BY <1>3, <1>4, <1>5, AfterPixelfluxIs

LEMMA SendToPixelfluxKeeps == ASSUME IInv, SendToPixelflux PROVE IInv'
<1>1. DeskOK'
  BY DEF IInv, DeskOK, SendToPixelflux, sessionVars, deskVars, boundVars
<1> SUFFICES CallOK'
  BY <1>1 DEF IInv
<1>2. CASE Emit("pixelflux", front, "may_have")
  BY <1>2, FrontIsWindow, Emitted DEF SendToPixelflux, At, Routes
<1>3. CASE AnswerWith("error") /\ UNCHANGED effect
  BY <1>3, Refused DEF SendToPixelflux, At
<1> QED
  BY <1>2, <1>3 DEF SendToPixelflux

(* GoesTo, for a step that changes nothing else. *)
LEMMA OnlyGoes ==
    ASSUME IInv, ~At("done"), NEW r \in Rungs, Only(Go(r)),
           r \in {"background", "map", "element"} => FALSE,
           r \in {"classify", "text"} => Tool = "type_text",
           r = "chord" => Tool = "press_key",
           r \in PointerRungs => Tool \in Pointer,
           r \in KeyRungs => Tool \notin Pointer,
           r \in {"pixelflux", "text", "wtype"} =>
               (call.mode = "argument" => Field[front] = "plain"),
           call.at \in Pinned => r \in Pinned,
           r \in Aimed => call.aim # NoWindow
    PROVE  IInv'
<1>1. DeskOK' /\ UNCHANGED <<effect, front>> /\ Go(r)
  BY DEF IInv, DeskOK, Only, sessionVars, deskVars, boundVars
<1> QED
  BY <1>1, GoesTo DEF IInv

(* Refused, for a step that changes nothing else. *)
LEMMA OnlyRefused ==
    ASSUME IInv, ~At("done"), NEW a \in {"not_sent", "may_have", "error"},
           Only(AnswerWith(a))
    PROVE  IInv'
<1>1. DeskOK' /\ UNCHANGED effect /\ AnswerWith(a)
  BY DEF IInv, DeskOK, Only, sessionVars, deskVars, boundVars
<1> QED
  BY <1>1, Refused DEF IInv

(* Emitted, for a command. *)
LEMMA CommandKeeps ==
    ASSUME IInv, ~At("done"), NEW route \in Routes \ {"wtype"}, Command(route)
    PROVE  IInv'
<1>1. DeskOK' /\ Emit(route, front, "error")
  BY DEF IInv, DeskOK, Command, sessionVars, deskVars, boundVars
<1> QED
  BY <1>1, FrontIsWindow, Emitted DEF IInv

(* The steps of a pointer call. *)
LEMMA PointByXdotoolKeeps == ASSUME IInv, PointByXdotool PROVE IInv'
<1>1. CASE Command("xdotool")
  BY <1>1, CommandKeeps DEF PointByXdotool, At, Routes
<1>2. CASE Only(AnswerWith("error"))
  BY <1>2, OnlyRefused DEF PointByXdotool, At
<1> QED
  BY <1>1, <1>2 DEF PointByXdotool

LEMMA TryUinputKeeps == ASSUME IInv, TryUinput PROVE IInv'
<1>1. ~At("done") /\ call.at \notin Pinned /\ Tool \in Pointer
  BY RungFacts DEF TryUinput, At, PointerRungs, Pinned
<1>2. PICK r \in {"portal", "uinput"} : Only(Go(r))
  BY DEF TryUinput
<1> QED
  BY <1>1, <1>2, OnlyGoes DEF Rungs, PointerRungs, KeyRungs, Pinned, Aimed

LEMMA ReplaceDeviceKeeps == ASSUME IInv, ReplaceDevice PROVE IInv'
<1>1. DeskOK'
  BY DEF IInv, DeskOK, ReplaceDevice, deskVars, boundVars
<1> SUFFICES CallOK'
  BY <1>1 DEF IInv
<1>2. ~At("done") /\ call.at \notin Pinned /\ Tool \in Pointer
  BY RungFacts DEF ReplaceDevice, At, PointerRungs, Pinned
<1>3. CASE Go("emit")
  BY <1>2, <1>3, GoesTo DEF ReplaceDevice, Rungs, PointerRungs, KeyRungs, Pinned, Aimed
<1>4. CASE AnswerWith("not_sent")
  BY <1>2, <1>4, Refused DEF ReplaceDevice
<1> QED
  BY <1>3, <1>4 DEF ReplaceDevice

LEMMA CreateDeviceKeeps == ASSUME IInv, CreateDevice PROVE IInv'
<1>1. DeskOK'
  BY DEF IInv, DeskOK, CreateDevice, Prompted, boundVars
<1> SUFFICES CallOK'
  BY <1>1 DEF IInv
<1>2. ~At("done") /\ call.at \notin Pinned /\ Tool \in Pointer
  BY RungFacts DEF CreateDevice, At, PointerRungs, Pinned
<1>3. CASE Go("emit")
  BY <1>2, <1>3, GoesTo DEF CreateDevice, Rungs, PointerRungs, KeyRungs, Pinned, Aimed
<1>4. CASE Go("portal")
  BY <1>2, <1>4, GoesTo DEF CreateDevice, Rungs, PointerRungs, KeyRungs, Pinned, Aimed
<1> QED
  BY <1>3, <1>4 DEF CreateDevice

LEMMA EmitUinputKeeps == ASSUME IInv, EmitUinput PROVE IInv'
<1>1. DeskOK'
  BY DEF IInv, DeskOK, EmitUinput, deskVars, boundVars
<1> QED
  BY <1>1, FrontIsWindow, Emitted DEF EmitUinput, IInv, At, Routes

LEMMA UsePortalPointerKeeps == ASSUME IInv, UsePortalPointer PROVE IInv'
<1>1. DeskOK'
  BY DEF IInv, DeskOK, UsePortalPointer, Prompted, boundVars
<1> SUFFICES CallOK'
  BY <1>1 DEF IInv
<1>2. ~At("done") /\ call.at \notin Pinned /\ Tool \in Pointer
  BY RungFacts DEF UsePortalPointer, At, PointerRungs, Pinned
<1>3. UNCHANGED effect
  BY DEF UsePortalPointer
<1>4. PICK r \in {"portal_send", "portal_start", "ydotool"} : Go(r)
  BY DEF UsePortalPointer
<1> QED
  BY <1>2, <1>3, <1>4, GoesTo DEF Rungs, PointerRungs, KeyRungs, Pinned, Aimed

LEMMA PortalNoLongerPreferredKeeps == ASSUME IInv, PortalNoLongerPreferred PROVE IInv'
<1>1. ~At("done") /\ call.at \notin Pinned /\ Tool \in Pointer
  BY RungFacts DEF PortalNoLongerPreferred, At, PointerRungs, Pinned
<1> QED
  BY <1>1, OnlyGoes DEF PortalNoLongerPreferred, Rungs, PointerRungs, KeyRungs,
     Pinned, Aimed

LEMMA StartPortalPointerKeeps == ASSUME IInv, StartPortalPointer PROVE IInv'
<1>1. DeskOK'
  BY DEF IInv, DeskOK, StartPortalPointer, boundVars
<1> SUFFICES CallOK'
  BY <1>1 DEF IInv
<1>2. ~At("done") /\ call.at \notin Pinned /\ Tool \in Pointer
  BY RungFacts DEF StartPortalPointer, At, PointerRungs, Pinned
<1>3. UNCHANGED effect
  BY DEF StartPortalPointer
<1>4. Target # NoWindow => call.aim # NoWindow
  BY DEF IInv, CallOK, AimIsTarget
<1>5. CASE Target # NoWindow /\ Go("portal_refocus")
  BY <1>2, <1>3, <1>4, <1>5, GoesTo DEF Rungs, PointerRungs, KeyRungs, Pinned, Aimed
<1>6. CASE \E r \in {"portal_send", "ydotool"} : Go(r)
  BY <1>2, <1>3, <1>6, GoesTo DEF Rungs, PointerRungs, KeyRungs, Pinned, Aimed
<1>7. CASE AnswerWith("not_sent")
  BY <1>2, <1>3, <1>7, Refused
<1> QED
  BY <1>5, <1>6, <1>7 DEF StartPortalPointer

(* Refocus, for the pointer and the keyboard. *)
LEMMA RefocusKeeps ==
    ASSUME IInv, NEW rung \in Aimed, NEW next \in {"portal_send", "keyboard_send"},
           Refocus(rung, next),
           next \in PointerRungs => Tool \in Pointer,
           next \in KeyRungs => Tool \notin Pointer,
           rung \in Pinned => next \in Pinned
    PROVE  IInv'
<1>1. call.at = rung /\ call.aim # NoWindow /\ ~At("done")
  BY DEF Refocus, At, IInv, CallOK, AimIsTarget, Aimed
<1>2. call.aim \in Windows
  BY <1>1 DEF IInv, CallOK, CallType
<1>3. DeskOK'
  BY <1>2 DEF IInv, DeskOK, Refocus, sessionVars, boundVars
<1> SUFFICES CallOK'
  BY <1>3 DEF IInv
<1>4. CASE Go(next)
  BY <1>1, <1>4, GoesTo DEF Refocus, Rungs, PointerRungs, KeyRungs, Pinned, Aimed
<1>5. CASE AnswerWith("not_sent")
  BY <1>1, <1>5, Refused DEF Refocus
<1> QED
  BY <1>4, <1>5 DEF Refocus

LEMMA RefocusForPointerKeeps == ASSUME IInv, RefocusForPointer PROVE IInv'
BY RungFacts, RefocusKeeps
   DEF RefocusForPointer, Refocus, At, Aimed, Pinned, PointerRungs, KeyRungs

LEMMA RefocusForKeyboardKeeps == ASSUME IInv, RefocusForKeyboard PROVE IInv'
BY RungFacts, RefocusKeeps
   DEF RefocusForKeyboard, Refocus, At, Aimed, Pinned, PointerRungs, KeyRungs

(* SendBy, for the pointer and the keyboard. *)
LEMMA SendByKeeps ==
    ASSUME IInv, ~At("done"), NEW session, NEW failed \in {"error", "may_have"},
           SendBy(session, failed)
    PROVE  CallOK'
<1>1. CASE Emit("portal", front, failed)
  BY <1>1, FrontIsWindow, Emitted DEF Routes
<1>2. CASE AnswerWith(failed) /\ UNCHANGED effect
  BY <1>2, Refused
<1> QED
  BY <1>1, <1>2 DEF SendBy

LEMMA SendByPortalPointerKeeps == ASSUME IInv, SendByPortalPointer PROVE IInv'
<1>1. DeskOK'
  BY DEF IInv, DeskOK, SendByPortalPointer, deskVars, boundVars
<1> SUFFICES CallOK'
  BY <1>1 DEF IInv
<1>2. ~At("done")
  BY DEF SendByPortalPointer, At
<1>3. CASE SendBy(pointer, "may_have")
  BY <1>2, <1>3, SendByKeeps
<1>4. CASE AnswerWith("not_sent") /\ UNCHANGED effect
  BY <1>2, <1>4, Refused
<1> QED
  BY <1>3, <1>4 DEF SendByPortalPointer

LEMMA PointByYdotoolKeeps == ASSUME IInv, PointByYdotool PROVE IInv'
<1>1. ~At("done")
  BY DEF PointByYdotool, At
<1>2. CASE Only(AnswerWith("not_sent"))
  BY <1>1, <1>2, OnlyRefused
<1>3. CASE Command("ydotool")
  BY <1>1, <1>3, CommandKeeps DEF Routes
<1>4. CASE Only(AnswerWith("error"))
  BY <1>1, <1>4, OnlyRefused
<1> QED
  BY <1>2, <1>3, <1>4 DEF PointByYdotool

(* The steps of a keyboard call. *)
LEMMA ChordRouteKeeps == ASSUME IInv, ChordRoute PROVE IInv'
<1>1. /\ ~At("done") /\ call.at \notin Pinned /\ Tool \notin Pointer
      /\ call.mode = "none"
  BY DEF ChordRoute, At, Pinned, IInv, CallOK, RungOfTool, Pointer
<1>2. PICK r \in {"command", "pin", "wtype"} : Only(Go(r))
  BY DEF ChordRoute, Only
<1> QED
  BY <1>1, <1>2, OnlyGoes DEF Rungs, PointerRungs, KeyRungs, Pinned, Aimed

LEMMA TextRouteKeeps == ASSUME IInv, TextRoute PROVE IInv'
<1>1. /\ ~At("done") /\ call.at \notin Pinned /\ Tool \notin Pointer
      /\ call.mode = "argument" => Field[front] = "plain"
  BY RungFacts DEF TextRoute, At, Pinned, IInv, CallOK, ArgumentIsPlain
<1>2. \/ \E r \in {"pin", "wtype", "command"} : Only(Go(r))
      \/ Only(AnswerWith("not_sent"))
  BY DEF TextRoute, Only
<1>3. CASE \E r \in {"pin", "wtype", "command"} : Only(Go(r))
  BY <1>1, <1>3, OnlyGoes DEF Rungs, PointerRungs, KeyRungs, Pinned, Aimed
<1> QED
  BY <1>1, <1>2, <1>3, OnlyRefused

LEMMA PinKeyboardTargetKeeps == ASSUME IInv, PinKeyboardTarget PROVE IInv'
<1>1. /\ ~At("done") /\ call.at \notin Pinned /\ Tool \notin Pointer
  BY RungFacts DEF PinKeyboardTarget, At, Pinned, KeyRungs
<1>2. CASE Only(AnswerWith("not_sent"))
  BY <1>1, <1>2, OnlyRefused
<1>3. CASE Target # NoWindow /\ Only(Go("keyboard_start"))
  <2>1. call.aim # NoWindow
    BY <1>3 DEF IInv, CallOK, AimIsTarget
  <2> QED
    BY <1>1, <1>3, <2>1, OnlyGoes DEF Rungs, PointerRungs, KeyRungs, Pinned, Aimed
<1>4. CASE /\ Target = NoWindow
           /\ Only(call' = [call EXCEPT !.at = "keyboard_start", !.aim = front])
  <2>1. DeskOK' /\ UNCHANGED effect
    BY <1>4 DEF IInv, DeskOK, Only, sessionVars, deskVars, boundVars
  <2>2. /\ call' \in CallType
        /\ call'.at = "keyboard_start" /\ call'.aim = front
        /\ call'.request = call.request /\ call'.mode = call.mode
    BY <1>4, FrontIsWindow DEF Only, IInv, CallOK, CallType, Rungs
  <2>3. front # NoWindow
    BY FrontIsWindow
  <2>4. RungOfTool' /\ AimIsTarget' /\ ArgumentIsPlain'
    BY <1>1, <1>4, <2>2, <2>3
       DEF RungOfTool, AimIsTarget, ArgumentIsPlain, At, Tool, On, Target,
       PointerRungs, KeyRungs, Pinned, Aimed, IInv, CallOK
  <2>5. Goes
    BY <1>1, <2>1, <2>2 DEF Goes, At
  <2> QED
    BY <2>1, <2>4, <2>5, GoesWell DEF IInv
<1> QED
  BY <1>2, <1>3, <1>4 DEF PinKeyboardTarget, Only

LEMMA StartPortalKeyboardKeeps == ASSUME IInv, StartPortalKeyboard PROVE IInv'
<1>1. DeskOK'
  BY DEF IInv, DeskOK, StartPortalKeyboard, boundVars
<1> SUFFICES CallOK'
  BY <1>1 DEF IInv
<1>2. /\ ~At("done") /\ Tool \notin Pointer /\ call.aim # NoWindow
  BY RungFacts DEF StartPortalKeyboard, At, KeyRungs, Aimed, IInv, CallOK, AimIsTarget
<1>3. CASE Go("keyboard_refocus")
  BY <1>2, <1>3, GoesTo
     DEF StartPortalKeyboard, Rungs, PointerRungs, KeyRungs, Pinned, Aimed
<1>4. CASE AnswerWith("not_sent")
  BY <1>2, <1>4, Refused DEF StartPortalKeyboard
<1> QED
  BY <1>3, <1>4 DEF StartPortalKeyboard

LEMMA SendByPortalKeyboardKeeps == ASSUME IInv, SendByPortalKeyboard PROVE IInv'
<1>1. DeskOK'
  BY DEF IInv, DeskOK, SendByPortalKeyboard, deskVars, boundVars
<1> QED
  BY <1>1, SendByKeeps DEF SendByPortalKeyboard, At, IInv

LEMMA PasteNotSentKeeps == ASSUME IInv, PasteNotSent PROVE IInv'
<1>1. ~At("done") /\ Tool \notin Pointer
  BY RungFacts DEF PasteNotSent, At, KeyRungs
<1>2. CASE Only(Go("command"))
  BY <1>1, <1>2, OnlyGoes DEF Rungs, PointerRungs, KeyRungs, Pinned, Aimed
<1>3. CASE Only(AnswerWith("error"))
  BY <1>1, <1>3, OnlyRefused
<1> QED
  BY <1>2, <1>3 DEF PasteNotSent, Only

LEMMA TypeByWtypeKeeps == ASSUME IInv, TypeByWtype PROVE IInv'
<1>1. DeskOK'
  BY DEF IInv, DeskOK, TypeByWtype, sessionVars, deskVars, boundVars
<1> SUFFICES CallOK'
  BY <1>1 DEF IInv
<1>2. /\ ~At("done") /\ call.at \notin Pinned /\ Tool \notin Pointer
      /\ call.mode = "argument" => Field[front] = "plain"
      /\ effect = NoEffect /\ call \in CallType
  BY RungFacts
     DEF TypeByWtype, At, Pinned, KeyRungs, IInv, CallOK, ArgumentIsPlain, QuietBefore
<1>3. CASE \/ Arrive("wtype", front, TRUE) /\ AnswerWith("sent")
           \/ Arrive("wtype", front, FALSE) /\ AnswerWith("error")
  <2>1. Acts("wtype", front, "error")
    BY <1>2, <1>3, FrontIsWindow, ArriveFacts, AnswerFacts DEF Acts, Routes, Answers
  <2>2. Ends({front})
    BY <1>2, <2>1, FrontIsWindow, Acting DEF Routes
  <2> QED
    BY <2>2, EndsWell
<1>4. CASE Go("command") /\ UNCHANGED effect
  BY <1>2, <1>4, GoesTo DEF Rungs, PointerRungs, KeyRungs, Pinned, Aimed
<1> QED
  BY <1>3, <1>4 DEF TypeByWtype

LEMMA TypeByXdotoolKeeps == ASSUME IInv, TypeByXdotool PROVE IInv'
BY CommandKeeps DEF TypeByXdotool, At, Routes

LEMMA TypeByYdotoolKeeps == ASSUME IInv, TypeByYdotool PROVE IInv'
<1>1. ~At("done")
  BY DEF TypeByYdotool, At
<1>2. CASE Only(AnswerWith("not_sent"))
  BY <1>1, <1>2, OnlyRefused
<1>3. CASE Command("ydotool")
  BY <1>1, <1>3, CommandKeeps DEF Routes
<1>4. CASE Only(AnswerWith("error"))
  BY <1>1, <1>4, OnlyRefused
<1> QED
  BY <1>2, <1>3, <1>4 DEF TypeByYdotool

(* A new call, and what changes around the calls. *)
LEMMA BeginCallKeeps == ASSUME IInv, NEW r \in Requests, BeginCall(r) PROVE IInv'
<1>1. /\ r \in Request
      /\ r.tool \notin Pointer => r.on = "nothing"
  OBVIOUS
<1>2. DeskOK'
  <2>1. calls \in Nat /\ MaxCalls \in Nat /\ calls < MaxCalls /\ calls' = calls + 1
    BY DEF IInv, DeskOK, BeginCall
  <2>2. calls' \in 0..MaxCalls
    BY <2>1
  <2> QED
    BY <2>2 DEF IInv, DeskOK, BeginCall, sessionVars, deskVars
<1>3. WtypeTextMode \in {"none", "argument", "stdin"}
  BY DEF WtypeTextMode
<1>4. call' = [at |-> IF r.tool \notin Pointer /\ BackgroundApplies(r)
                     THEN "background" ELSE "focus",
               request |-> r, aim |-> r.target, answer |-> "sent",
               mode |-> IF r.tool = "type_text" THEN WtypeTextMode ELSE "none"]
  BY DEF BeginCall
<1>5. /\ call' \in CallType /\ call'.at \in {"background", "focus"}
      /\ call'.request = r /\ call'.aim = r.target
      /\ r.tool # "type_text" => call'.mode = "none"
      /\ call'.at = "background" => r.target # NoWindow
  BY <1>1, <1>3, <1>4 DEF CallType, Request, Rungs, Answers, BackgroundApplies
<1>6. effect' = NoEffect
  BY DEF BeginCall
<1>7. effect' \in EffectType /\ AnswersForItsRoute' /\ SecretStaysPrivate' /\ QuietBefore'
  BY <1>5, <1>6 DEF NoEffect, EffectType, AnswersForItsRoute, OneRouteActs,
     AnswerIsTrue, SecretStaysPrivate, At, QuietBefore
<1>8. RungOfTool' /\ AimIsTarget' /\ ArgumentIsPlain'
  BY <1>1, <1>5 DEF RungOfTool, AimIsTarget, ArgumentIsPlain, At, Tool, On, Target,
     PointerRungs, KeyRungs, Pinned, Aimed, Pointer
<1> QED
  BY <1>2, <1>5, <1>7, <1>8 DEF IInv, CallOK

(* What happens elsewhere does not disturb the call. *)
LEMMA CallOKStays == ASSUME CallOK, UNCHANGED <<front, call, effect>> PROVE CallOK'
BY DEF CallOK, QuietBefore, AnswersForItsRoute, OneRouteActs, AnswerIsTrue, RungOfTool,
   AimIsTarget, ArgumentIsPlain, SecretStaysPrivate, At, Tool, On, Target

LEMMA SurroundingsKeep == ASSUME IInv, Surroundings PROVE IInv'
<1>1. moves' \in 0..MaxMoves
  BY DEF IInv, DeskOK, Surroundings
<1>2. DeskOK'
  BY <1>1 DEF IInv, DeskOK, Surroundings
<1> QED
  BY <1>2, CallOKStays DEF IInv, Surroundings

(* A server that has had no call satisfies the invariant. *)
LEMMA InitIsSound == RouteInit => IInv
<1> SUFFICES ASSUME RouteInit PROVE IInv
  OBVIOUS
<1>1. DeskOK
  <2>1. 0 \in 0..MaxCalls /\ 0 \in 0..MaxMoves
    OBVIOUS
  <2> QED
    BY <2>1 DEF RouteInit, DeskOK
<1>2. /\ call \in CallType /\ At("idle") /\ call.aim = Target /\ Tool \in Pointer
      /\ call.mode = "none"
  BY
     DEF RouteInit, CallType, Request, Rungs, Answers, NoRequest, At, Target, Tool, Tools,
         Pointer
<1>3. effect = NoEffect
  BY DEF RouteInit
<1>4. effect \in EffectType /\ AnswersForItsRoute /\ SecretStaysPrivate /\ QuietBefore
  BY <1>2, <1>3 DEF NoEffect, EffectType, AnswersForItsRoute, OneRouteActs, AnswerIsTrue,
     SecretStaysPrivate, At, QuietBefore
<1>5. RungOfTool /\ AimIsTarget /\ ArgumentIsPlain
  BY <1>2 DEF RungOfTool, AimIsTarget, ArgumentIsPlain, At, PointerRungs, KeyRungs, Aimed
<1> QED
  BY <1>1, <1>2, <1>4, <1>5 DEF IInv, CallOK

(* All of them. *)
LEMMA StartKeeps == ASSUME IInv, StartOfCall PROVE IInv'
BY SendInBackgroundKeeps, FocusTargetKeeps, MapWindowPointKeeps, ResolveElementKeeps,
   MapKwinElementKeeps, ClassifyFieldKeeps, PassPixelfluxKeeps, SendToPixelfluxKeeps
   DEF StartOfCall

LEMMA PointerKeeps == ASSUME IInv, PointerStep PROVE IInv'
BY PointByXdotoolKeeps, TryUinputKeeps, ReplaceDeviceKeeps, CreateDeviceKeeps,
   EmitUinputKeeps,
   UsePortalPointerKeeps, PortalNoLongerPreferredKeeps, StartPortalPointerKeeps,
   RefocusForPointerKeeps, SendByPortalPointerKeeps, PointByYdotoolKeeps
   DEF PointerStep

LEMMA KeyboardKeeps == ASSUME IInv, KeyboardStep PROVE IInv'
BY ChordRouteKeeps, TextRouteKeeps, PinKeyboardTargetKeeps, StartPortalKeyboardKeeps,
   RefocusForKeyboardKeeps, SendByPortalKeyboardKeeps, PasteNotSentKeeps, TypeByWtypeKeeps,
   TypeByXdotoolKeeps, TypeByYdotoolKeeps
   DEF KeyboardStep

(* The strengthening of what follows holds in every state of every call. *)
THEOREM RouteInvariance == RouteSpec => []IInv
<1>1. IInv /\ [RouteNext]_routeVars => IInv'
  <2> SUFFICES ASSUME IInv, [RouteNext]_routeVars PROVE IInv'
    OBVIOUS
  <2>1. CASE \E r \in Requests : BeginCall(r)
    BY <2>1, BeginCallKeeps
  <2>2. CASE CallStep
    BY <2>2, StartKeeps, PointerKeeps, KeyboardKeeps DEF CallStep
  <2>3. CASE Surroundings
    BY <2>3, SurroundingsKeep
  <2>4. CASE UNCHANGED routeVars
    BY <2>4, CallOKStays DEF routeVars, IInv, DeskOK
  <2> QED
    BY <2>1, <2>2, <2>3, <2>4 DEF RouteNext
<1> QED
  BY <1>1, InitIsSound, PTL DEF RouteSpec

(* The variables keep their types: a call is at a rung there is, for a window there is. *)
THEOREM RouteTypes == RouteSpec => []RouteTypeOK
<1>1. IInv => RouteTypeOK
  BY DEF IInv, DeskOK, CallOK, CallType, EffectType, RouteTypeOK
<1> QED
  BY <1>1, RouteInvariance, PTL

(* A call acts by one route at most and its answer is true of what that did: nothing is
   sent a second time through another backend after a write, a command or a request that
   may have been carried out. *)
THEOREM OneRoutePerCall == RouteSpec => []AnswersForItsRoute
<1>1. IInv => AnswersForItsRoute
  BY DEF IInv, CallOK
<1> QED
  BY <1>1, RouteInvariance, PTL

(* Text is put in the arguments of wtype only for a field known to hold no secret, whatever
   window was in front, however late the probe and whichever way the call went on. *)
THEOREM SecretNeverShown == RouteSpec => []SecretStaysPrivate
<1>1. IInv => SecretStaysPrivate
  BY DEF IInv, CallOK
<1> QED
  BY <1>1, RouteInvariance, PTL

(***************************************************************************)
(* The window that is reached                                              *)
(***************************************************************************)

\* The rungs at which another window than the call's may be in front.
Unfocused == {"idle", "background", "focus", "portal_refocus", "keyboard_start",
              "keyboard_refocus", "done"}
PointRungs == PointerRungs \cup {"pixelflux"}

\* No capture asks the user for consent during the call.
Undisturbed == ~ScreenshotPrompts \/ Tool \notin Pointer

AimInv ==
    Undisturbed =>
        /\ call.at \notin Unfocused /\ call.aim # NoWindow => front = call.aim
        /\ call.at \in PointRungs /\ Tool = "scroll" /\ Target # NoWindow => HasPoint
        /\ ReachesAim

(* Nothing done is done in the right window. *)
LEMMA QuietReaches == ASSUME effect = NoEffect PROVE ReachesAim
BY DEF NoEffect, ReachesAim

(* A step that does not end the call has done nothing. *)
LEMMA QuietSteps ==
    ASSUME IInv, IInv', call'.at # "done"
    PROVE  ReachesAim'
<1>1. effect' = NoEffect
  BY DEF IInv, CallOK, QuietBefore, At
<1> QED
  BY <1>1 DEF NoEffect, ReachesAim

(* Nothing is claimed of a call whose capture may ask. *)
LEMMA Disturbed ==
    ASSUME Tool \in Pointer, ScreenshotPrompts, call'.request.tool = Tool
    PROVE  AimInv'
BY DEF AimInv, Undisturbed, Tool

(* Nor has a refusal. *)
LEMMA AimRefused ==
    ASSUME IInv, ~At("done"), NEW a \in Answers, AnswerWith(a), UNCHANGED effect
    PROVE  AimInv'
<1>1. effect' = NoEffect
  BY DEF IInv, CallOK, QuietBefore
<1>2. call'.at = "done"
  BY AnswerFacts DEF IInv, CallOK
<1> QED
  BY <1>1, <1>2 DEF AimInv, NoEffect, ReachesAim, Unfocused, PointRungs, PointerRungs

(* A step between rungs where the window is in front leaves it there. *)
LEMMA AimGoes ==
    ASSUME IInv, IInv', AimInv, NEW r \in Rungs, Go(r), UNCHANGED front,
           call.at \notin Unfocused,
           r \in PointRungs => call.at \in PointRungs \/ Tool # "scroll" \/ HasPoint
    PROVE  AimInv'
<1>1. /\ call'.at = r
      /\ call'.request = call.request /\ call'.aim = call.aim
  BY GoFacts DEF IInv, CallOK
<1>2. ReachesAim'
  BY <1>1, QuietSteps DEF Rungs
<1> QED
  BY <1>1, <1>2 DEF AimInv, Undisturbed, Tool, Target, HasPoint, On

(* A step to a rung that expects no window in front. *)
LEMMA AimLeaves ==
    ASSUME IInv, IInv', NEW r \in Unfocused, r \in Rungs, Go(r),
           r = "portal_refocus" => Tool # "scroll" \/ HasPoint
    PROVE  AimInv'
<1>1. /\ call'.at = r
      /\ call'.request = call.request /\ call'.aim = call.aim
  BY GoFacts DEF IInv, CallOK
<1>2. ReachesAim'
  BY <1>1, QuietSteps DEF Rungs
<1> QED
  BY <1>1, <1>2 DEF AimInv, Unfocused, PointRungs, PointerRungs, Tool, HasPoint, On

(* A call that acts in its window ends well. *)
LEMMA AimEnds ==
    ASSUME IInv, AimInv, NEW w, Ends({w}),
           Undisturbed /\ call.aim # NoWindow => w = call.aim
    PROVE  AimInv'
BY DEF AimInv, Ends, ReachesAim, Undisturbed, Tool, Unfocused, PointRungs, PointerRungs

(* What is emitted goes to the window in front. *)
LEMMA AimEmitted ==
    ASSUME IInv, AimInv, call.at \notin Unfocused, NEW route \in Routes \ {"wtype"},
           NEW failed \in {"error", "may_have"}, Emit(route, front, failed)
    PROVE  AimInv'
<1>1. Ends({front})
  BY FrontIsWindow, Emitting DEF Unfocused, At
<1> QED
  BY <1>1, AimEnds DEF AimInv

(* Before the keyboard portal a call aims at its target only. *)
LEMMA AimIsTargetUnlessPinned ==
    ASSUME IInv, call.at \notin Pinned
    PROVE  call.aim = Target
BY DEF IInv, CallOK, AimIsTarget

(* The steps that begin a call, one by one. *)
LEMMA SendInBackgroundAims ==
    ASSUME IInv, IInv', AimInv, SendInBackground PROVE AimInv'
<1>1. At("background") /\ ~At("done") /\ call.aim = Target
  BY AimIsTargetUnlessPinned DEF SendInBackground, At, Pinned
<1>2. CASE Go("focus")
  BY <1>2, AimLeaves DEF Unfocused, Rungs
<1>3. CASE AnswerWith(IF Kind = "plain" THEN "not_sent" ELSE "error") /\ UNCHANGED effect
  BY <1>1, <1>3, AimRefused DEF Answers
<1>4. CASE Emit("background", Target, "error")
  <2>1. Target \in Windows
    BY <1>1 DEF IInv, CallOK, RungOfTool, CallType, Request, Target
  <2>2. Ends({Target})
    BY <1>1, <1>4, <2>1, Emitting DEF Routes
  <2> QED
    BY <1>1, <2>2, AimEnds
<1> QED
  BY <1>2, <1>3, <1>4 DEF SendInBackground

(* A scroll for a window is mapped to a point of it first. *)
LEMMA FocusedHasPoint ==
    ASSUME Focused = "pixelflux", Tool = "scroll", Target # NoWindow
    PROVE  HasPoint
<1>1. "map" # "pixelflux"
  OBVIOUS
<1>2. CASE On = "nothing"
  <2>1. On # "relative"
    BY <1>2
  <2>2. Focused = "map"
    BY <1>2, <2>1, Zenon DEF Focused
  <2> QED
    BY <1>1, <2>2
<1> QED
  BY <1>2 DEF HasPoint

LEMMA FocusTargetAims == ASSUME IInv, IInv', AimInv, FocusTarget PROVE AimInv'
<1>1. At("focus") /\ ~At("done") /\ call.aim = Target /\ UNCHANGED effect
  BY AimIsTargetUnlessPinned DEF FocusTarget, At, Pinned
<1>2. CASE AnswerWith("error") \/ AnswerWith("not_sent")
  BY <1>1, <1>2, AimRefused DEF Answers
<1>3. CASE /\ Target # NoWindow => front' = Target
           /\ Focused # "refused"
           /\ Go(Focused)
  <2>1. Focused \in {"map", "element", "classify", "pixelflux"}
    BY <1>1, <1>3, FocusedIs
  <2>2. /\ call'.at = Focused
        /\ call'.request = call.request /\ call'.aim = call.aim
    BY <1>3, <2>1, GoFacts DEF IInv, CallOK, Rungs
  <2>3. ReachesAim'
    BY <2>1, <2>2, QuietSteps
  <2>4. call'.at \in PointRungs /\ Tool = "scroll" /\ Target # NoWindow => HasPoint
    BY <2>1, <2>2, FocusedHasPoint DEF PointRungs, PointerRungs
  <2> QED
    BY <1>1, <1>3, <2>2, <2>3, <2>4 DEF AimInv, Tool, Target, HasPoint, On
<1> QED
  BY <1>2, <1>3 DEF FocusTarget

LEMMA MapWindowPointAims == ASSUME IInv, IInv', AimInv, MapWindowPoint PROVE AimInv'
<1>1. At("map") /\ ~At("done") /\ Tool \in Pointer /\ UNCHANGED effect
  BY DEF MapWindowPoint, At, IInv, CallOK, RungOfTool
<1>2. CASE AnswerWith("error")
  BY <1>1, <1>2, AimRefused DEF Answers
<1>3. CASE call' = [call EXCEPT !.at = "pixelflux", !.request.on = "point"]
  <2>1. /\ call'.at = "pixelflux" /\ call'.aim = call.aim
        /\ call'.request.tool = Tool /\ call'.request.target = Target
        /\ call'.request.on = "point"
    BY <1>3 DEF IInv, CallOK, CallType, Request, Tool, Target
  <2>2. ReachesAim'
    BY <2>1, QuietSteps
  <2>3. CASE ScreenshotPrompts
    BY <1>1, <2>1, <2>3, Disturbed
  <2>4. CASE ~ScreenshotPrompts
    <3>1. UNCHANGED front
      BY <2>4 DEF MapWindowPoint, Prompted
    <3>2. call.aim # NoWindow => front = call.aim
      BY <1>1, <2>4 DEF AimInv, Undisturbed, Unfocused, At
    <3> QED
      BY <2>1, <2>2, <3>1, <3>2 DEF AimInv, HasPoint, On
  <2> QED
    BY <2>3, <2>4
<1> QED
  BY <1>2, <1>3 DEF MapWindowPoint

LEMMA ResolveElementAims == ASSUME IInv, IInv', AimInv, ResolveElement PROVE AimInv'
<1>1. /\ At("element") /\ ~At("done") /\ call.at \notin Unfocused /\ UNCHANGED front
      /\ call.aim = Target
  BY AimIsTargetUnlessPinned DEF ResolveElement, At, Unfocused, deskVars, Pinned
<1>2. CASE AnswerWith("error") /\ UNCHANGED effect
  BY <1>1, <1>2, AimRefused DEF Answers
<1>3. CASE Emit("atspi", IF Target = NoWindow THEN front ELSE Target, "error")
  <2>1. (IF Target = NoWindow THEN front ELSE Target) \in Windows
    BY FrontIsWindow DEF IInv, CallOK, CallType, Request, Target
  <2>2. Ends({IF Target = NoWindow THEN front ELSE Target})
    BY <1>1, <1>3, <2>1, Emitting DEF Routes
  <2> QED
    BY <1>1, <2>2, AimEnds
<1>4. CASE On = "element" /\ Go("pixelflux")
  BY <1>1, <1>4, AimGoes DEF Rungs, HasPoint
<1> QED
  BY <1>2, <1>3, <1>4 DEF ResolveElement

LEMMA MapKwinElementAims == ASSUME IInv, IInv', AimInv, MapKwinElement PROVE AimInv'
<1>1. /\ At("element") /\ ~At("done") /\ call.at \notin Unfocused /\ UNCHANGED effect
      /\ Tool = "click" /\ Tool \in Pointer
  BY DEF MapKwinElement, At, Unfocused, Pointer
<1>2. CASE AnswerWith("not_sent")
  BY <1>1, <1>2, AimRefused DEF Answers
<1>3. CASE Go("pixelflux")
  <2>1. call'.request = call.request
    BY <1>3, GoFacts DEF IInv, CallOK, Rungs
  <2>2. CASE ScreenshotPrompts
    BY <1>1, <2>1, <2>2, Disturbed DEF Tool
  <2>3. CASE ~ScreenshotPrompts
    <3>1. UNCHANGED front
      BY <2>3 DEF MapKwinElement, Prompted
    <3> QED
      BY <1>1, <1>3, <3>1, AimGoes DEF Rungs
  <2> QED
    BY <2>2, <2>3
<1> QED
  BY <1>2, <1>3 DEF MapKwinElement

LEMMA ClassifyFieldAims == ASSUME IInv, IInv', AimInv, ClassifyField PROVE AimInv'
<1>1. /\ At("classify") /\ ~At("done") /\ call.at \notin Unfocused
      /\ UNCHANGED <<front, effect>> /\ Tool # "scroll"
  BY DEF ClassifyField, Only, At, Unfocused, deskVars, IInv, CallOK, RungOfTool
<1>2. PICK field \in {Field[front], "ambiguous"} :
        IF call.mode # "argument" THEN Go("pixelflux")
        ELSE IF ArgumentMode(field) = "refused" THEN AnswerWith("not_sent")
        ELSE call' = [call EXCEPT !.at = "pixelflux", !.mode = ArgumentMode(field)]
  BY DEF ClassifyField, Only
<1>3. CASE Go("pixelflux")
  BY <1>1, <1>3, AimGoes DEF Rungs
<1>4. CASE AnswerWith("not_sent")
  BY <1>1, <1>4, AimRefused DEF Answers
<1>5. CASE call' = [call EXCEPT !.at = "pixelflux", !.mode = ArgumentMode(field)]
  <2>1. /\ call'.at = "pixelflux" /\ call'.aim = call.aim
        /\ call'.request = call.request
    BY <1>5 DEF IInv, CallOK, CallType
  <2>2. ReachesAim'
    BY <2>1, QuietSteps
  <2> QED
    BY <1>1, <2>1, <2>2 DEF AimInv, Undisturbed, Tool, Target, HasPoint, On
<1> QED
  BY <1>2, <1>3, <1>4, <1>5

LEMMA PassPixelfluxAims == ASSUME IInv, IInv', AimInv, PassPixelflux PROVE AimInv'
<1>1. /\ call.at = "pixelflux" /\ call.at \notin Unfocused /\ call.at \in PointRungs
      /\ UNCHANGED front /\ Go(AfterPixelflux)
  BY DEF PassPixelflux, Only, At, Unfocused, deskVars, PointRungs
<1>2. AfterPixelflux \in Rungs
  BY AfterPixelfluxIs DEF Rungs
<1> QED
  BY <1>1, <1>2, AimGoes

LEMMA SendToPixelfluxAims == ASSUME IInv, IInv', AimInv, SendToPixelflux PROVE AimInv'
<1>1. ~At("done") /\ call.at \notin Unfocused
  BY DEF SendToPixelflux, At, Unfocused
<1>2. CASE Emit("pixelflux", front, "may_have")
  BY <1>1, <1>2, AimEmitted DEF Routes
<1>3. CASE AnswerWith("error") /\ UNCHANGED effect
  BY <1>1, <1>3, AimRefused DEF Answers
<1> QED
  BY <1>2, <1>3 DEF SendToPixelflux

(* The same of a command. *)
LEMMA AimCommand ==
    ASSUME IInv, AimInv, call.at \notin Unfocused, NEW route \in Routes \ {"wtype"},
           Command(route)
    PROVE  AimInv'
BY AimEmitted DEF Command

(* The steps of a pointer call. *)
LEMMA PointByXdotoolAims == ASSUME IInv, IInv', AimInv, PointByXdotool PROVE AimInv'
<1>1. ~At("done") /\ call.at \notin Unfocused
  BY DEF PointByXdotool, At, Unfocused
<1>2. CASE Command("xdotool")
  BY <1>1, <1>2, AimCommand DEF Routes
<1>3. CASE Only(AnswerWith("error"))
  BY <1>1, <1>3, AimRefused DEF Only, Answers
<1> QED
  BY <1>2, <1>3 DEF PointByXdotool

LEMMA TryUinputAims == ASSUME IInv, IInv', AimInv, TryUinput PROVE AimInv'
<1>1. call.at \notin Unfocused /\ call.at \in PointRungs /\ UNCHANGED front
  BY DEF TryUinput, Only, deskVars, At, Unfocused, PointRungs, PointerRungs
<1>2. PICK r \in {"portal", "uinput"} : Go(r)
  BY DEF TryUinput, Only
<1> QED
  BY <1>1, <1>2, AimGoes DEF Rungs

LEMMA ReplaceDeviceAims == ASSUME IInv, IInv', AimInv, ReplaceDevice PROVE AimInv'
<1>1. /\ ~At("done") /\ call.at \notin Unfocused /\ call.at \in PointRungs
      /\ UNCHANGED <<front, effect>>
  BY DEF ReplaceDevice, deskVars, At, Unfocused, PointRungs, PointerRungs
<1>2. CASE Go("emit")
  BY <1>1, <1>2, AimGoes DEF Rungs
<1>3. CASE AnswerWith("not_sent")
  BY <1>1, <1>3, AimRefused DEF Answers
<1> QED
  BY <1>2, <1>3 DEF ReplaceDevice

LEMMA CreateDeviceAims == ASSUME IInv, IInv', AimInv, CreateDevice PROVE AimInv'
<1>1. call.at \notin Unfocused /\ call.at \in PointRungs /\ Tool \in Pointer
  BY RungFacts DEF CreateDevice, At, Unfocused, PointRungs, PointerRungs
<1>2. PICK r \in {"emit", "portal"} : Go(r)
  BY DEF CreateDevice
<1>3. call'.request = call.request
  BY <1>2, GoFacts DEF IInv, CallOK, Rungs
<1>4. CASE ScreenshotPrompts
  BY <1>1, <1>3, <1>4, Disturbed DEF Tool
<1>5. CASE UNCHANGED front
  BY <1>1, <1>2, <1>5, AimGoes DEF Rungs
<1> QED
  BY <1>4, <1>5 DEF CreateDevice, Prompted

LEMMA EmitUinputAims == ASSUME IInv, IInv', AimInv, EmitUinput PROVE AimInv'
<1>1. call.at \notin Unfocused
  BY DEF EmitUinput, At, Unfocused
<1> QED
  BY <1>1, AimEmitted DEF EmitUinput, Routes

LEMMA UsePortalPointerAims == ASSUME IInv, IInv', AimInv, UsePortalPointer PROVE AimInv'
<1>1. call.at \notin Unfocused /\ call.at \in PointRungs /\ Tool \in Pointer
  BY RungFacts DEF UsePortalPointer, At, Unfocused, PointRungs, PointerRungs
<1>2. PICK r \in {"portal_send", "portal_start", "ydotool"} : Go(r)
  BY DEF UsePortalPointer
<1>3. call'.request = call.request
  BY <1>2, GoFacts DEF IInv, CallOK, Rungs
<1>4. CASE ScreenshotPrompts
  BY <1>1, <1>3, <1>4, Disturbed DEF Tool
<1>5. CASE UNCHANGED front
  BY <1>1, <1>2, <1>5, AimGoes DEF Rungs
<1> QED
  BY <1>4, <1>5 DEF UsePortalPointer, Prompted

LEMMA PortalNoLongerPreferredAims ==
    ASSUME IInv, IInv', AimInv, PortalNoLongerPreferred PROVE AimInv'
<1>1. /\ call.at \notin Unfocused /\ call.at \in PointRungs /\ UNCHANGED front
      /\ Go("ydotool")
  BY DEF PortalNoLongerPreferred, Only, deskVars, At, Unfocused, PointRungs, PointerRungs
<1> QED
  BY <1>1, AimGoes DEF Rungs

LEMMA StartPortalPointerAims == ASSUME IInv, IInv', AimInv, StartPortalPointer PROVE AimInv'
<1>1. /\ At("portal_start") /\ ~At("done") /\ call.at \in PointRungs
      /\ call.aim = Target /\ Tool \in Pointer
      /\ UNCHANGED effect
  BY RungFacts, AimIsTargetUnlessPinned
     DEF StartPortalPointer, At, PointRungs, PointerRungs, Pinned
<1>2. CASE AnswerWith("not_sent")
  BY <1>1, <1>2, AimRefused DEF Answers
<1>3. CASE \E r \in {"portal_refocus", "portal_send", "ydotool"} :
             /\ Go(r)
             /\ r # "portal_refocus" => Target = NoWindow \/ (Tool = "scroll" /\ ~HasPoint)
  <2>1. PICK r \in {"portal_refocus", "portal_send", "ydotool"} :
             /\ Go(r)
             /\ r # "portal_refocus" => Target = NoWindow \/ (Tool = "scroll" /\ ~HasPoint)
    BY <1>3
  <2>2. /\ call'.at = r
        /\ call'.request = call.request /\ call'.aim = call.aim
    BY <2>1, GoFacts DEF IInv, CallOK, Rungs
  <2>3. ReachesAim'
    BY <2>2, QuietSteps
  <2> QED
    BY <1>1, <2>1, <2>2, <2>3 DEF AimInv, Undisturbed, Unfocused, Tool, Target, HasPoint, On
<1> QED
  BY <1>2, <1>3 DEF StartPortalPointer

LEMMA RefocusAims ==
    ASSUME IInv, IInv', AimInv, NEW rung \in Aimed,
           NEW next \in {"portal_send", "keyboard_send"},
           Refocus(rung, next),
           next \in PointRungs => call.at \in PointRungs
    PROVE  AimInv'
<1>1. call.at = rung /\ ~At("done") /\ UNCHANGED effect
  BY DEF Refocus, At, Aimed
<1>2. CASE front' = call.aim /\ Go(next)
  <2>1. /\ call'.at = next
        /\ call'.request = call.request /\ call'.aim = call.aim
    BY <1>2, GoFacts DEF IInv, CallOK, Rungs
  <2>2. ReachesAim'
    BY <2>1, QuietSteps
  <2> QED
    BY <1>2, <2>1, <2>2 DEF AimInv, Undisturbed, Tool, Target, HasPoint, On
<1>3. CASE AnswerWith("not_sent")
  BY <1>1, <1>3, AimRefused DEF Answers
<1> QED
  BY <1>2, <1>3 DEF Refocus

LEMMA RefocusForPointerAims == ASSUME IInv, IInv', AimInv, RefocusForPointer PROVE AimInv'
BY RefocusAims DEF RefocusForPointer, Refocus, At, Aimed, PointRungs, PointerRungs

LEMMA RefocusForKeyboardAims == ASSUME IInv, IInv', AimInv, RefocusForKeyboard PROVE AimInv'
BY RefocusAims DEF RefocusForKeyboard, Aimed, PointRungs, PointerRungs

LEMMA SendByAims ==
    ASSUME IInv, AimInv, call.at \notin Unfocused, NEW session,
           NEW failed \in {"error", "may_have"}, SendBy(session, failed)
    PROVE  AimInv'
<1>1. CASE Emit("portal", front, failed)
  BY <1>1, AimEmitted DEF Routes
<1>2. CASE AnswerWith(failed) /\ UNCHANGED effect
  BY <1>2, AimRefused DEF Unfocused, At, Answers
<1> QED
  BY <1>1, <1>2 DEF SendBy

LEMMA SendByPortalPointerAims ==
    ASSUME IInv, IInv', AimInv, SendByPortalPointer
    PROVE  AimInv'
<1>1. ~At("done") /\ call.at \notin Unfocused
  BY DEF SendByPortalPointer, At, Unfocused
<1>2. CASE SendBy(pointer, "may_have")
  BY <1>1, <1>2, SendByAims
<1>3. CASE AnswerWith("not_sent") /\ UNCHANGED effect
  BY <1>1, <1>3, AimRefused DEF Answers
<1> QED
  BY <1>2, <1>3 DEF SendByPortalPointer

LEMMA PointByYdotoolAims == ASSUME IInv, IInv', AimInv, PointByYdotool PROVE AimInv'
<1>1. ~At("done") /\ call.at \notin Unfocused
  BY DEF PointByYdotool, At, Unfocused
<1>2. CASE \E a \in {"not_sent", "error"} : AnswerWith(a) /\ UNCHANGED effect
  BY <1>1, <1>2, AimRefused DEF Answers
<1>3. CASE Command("ydotool")
  BY <1>1, <1>3, AimCommand DEF Routes
<1> QED
  BY <1>2, <1>3 DEF PointByYdotool, Only

(* The steps of a keyboard call. *)
LEMMA ChordRouteAims == ASSUME IInv, IInv', AimInv, ChordRoute PROVE AimInv'
<1>1. call.at \notin Unfocused /\ UNCHANGED front
  BY DEF ChordRoute, Only, deskVars, At, Unfocused
<1>2. PICK r \in {"command", "pin", "wtype"} : Go(r)
  BY DEF ChordRoute, Only
<1> QED
  BY <1>1, <1>2, AimGoes DEF Rungs, PointRungs, PointerRungs

LEMMA TextRouteAims == ASSUME IInv, IInv', AimInv, TextRoute PROVE AimInv'
<1>1. ~At("done") /\ call.at \notin Unfocused /\ UNCHANGED <<front, effect>>
  BY DEF TextRoute, Only, deskVars, At, Unfocused
<1>2. CASE \E r \in {"pin", "wtype", "command"} : Go(r)
  BY <1>1, <1>2, AimGoes DEF Rungs, PointRungs, PointerRungs
<1>3. CASE AnswerWith("not_sent")
  BY <1>1, <1>3, AimRefused DEF Answers
<1> QED
  BY <1>2, <1>3 DEF TextRoute, Only

LEMMA PinKeyboardTargetAims == ASSUME IInv, IInv', AimInv, PinKeyboardTarget PROVE AimInv'
<1>1. ~At("done") /\ UNCHANGED <<front, effect>>
  BY DEF PinKeyboardTarget, Only, deskVars, At
<1>2. CASE AnswerWith("not_sent")
  BY <1>1, <1>2, AimRefused DEF Answers
<1>3. CASE Go("keyboard_start")
  BY <1>3, AimLeaves DEF Unfocused, Rungs
<1>4. CASE call' = [call EXCEPT !.at = "keyboard_start", !.aim = front]
  <2>1. call'.at = "keyboard_start"
    BY <1>4 DEF IInv, CallOK, CallType
  <2>2. ReachesAim'
    BY <2>1, QuietSteps
  <2> QED
    BY <2>1, <2>2 DEF AimInv, Unfocused, PointRungs, PointerRungs
<1> QED
  BY <1>2, <1>3, <1>4 DEF PinKeyboardTarget, Only

LEMMA StartPortalKeyboardAims ==
    ASSUME IInv, IInv', AimInv, StartPortalKeyboard
    PROVE  AimInv'
<1>1. ~At("done") /\ UNCHANGED effect
  BY DEF StartPortalKeyboard, At
<1>2. CASE Go("keyboard_refocus")
  BY <1>2, AimLeaves DEF Unfocused, Rungs
<1>3. CASE AnswerWith("not_sent")
  BY <1>1, <1>3, AimRefused DEF Answers
<1> QED
  BY <1>2, <1>3 DEF StartPortalKeyboard

LEMMA SendByPortalKeyboardAims ==
    ASSUME IInv, IInv', AimInv, SendByPortalKeyboard PROVE AimInv'
<1>1. call.at \notin Unfocused
  BY DEF SendByPortalKeyboard, At, Unfocused
<1> QED
  BY <1>1, SendByAims DEF SendByPortalKeyboard

LEMMA PasteNotSentAims == ASSUME IInv, IInv', AimInv, PasteNotSent PROVE AimInv'
<1>1. ~At("done") /\ call.at \notin Unfocused /\ UNCHANGED <<front, effect>>
  BY DEF PasteNotSent, Only, deskVars, At, Unfocused
<1>2. CASE Go("command")
  BY <1>1, <1>2, AimGoes DEF Rungs, PointRungs, PointerRungs
<1>3. CASE AnswerWith("error")
  BY <1>1, <1>3, AimRefused DEF Answers
<1> QED
  BY <1>2, <1>3 DEF PasteNotSent, Only

LEMMA TypeByWtypeAims == ASSUME IInv, IInv', AimInv, TypeByWtype PROVE AimInv'
<1>1. ~At("done") /\ call.at \notin Unfocused /\ UNCHANGED front
  BY DEF TypeByWtype, deskVars, At, Unfocused
<1>2. CASE Go("command")
  BY <1>1, <1>2, AimGoes DEF Rungs, PointRungs, PointerRungs
<1>3. CASE \/ Arrive("wtype", front, TRUE) /\ AnswerWith("sent")
           \/ Arrive("wtype", front, FALSE) /\ AnswerWith("error")
  <2>1. effect = NoEffect /\ call \in CallType
    BY <1>1 DEF IInv, CallOK, QuietBefore
  <2>2. /\ effect'.windows = {front}
        /\ call'.at = "done" /\ call'.request = call.request /\ call'.aim = call.aim
    BY <1>3, <2>1, FrontIsWindow, ArriveFacts, AnswerFacts DEF Routes, Answers
  <2> QED
    BY <1>1, <2>2
       DEF AimInv, ReachesAim, Undisturbed, Tool, Unfocused, PointRungs, PointerRungs
<1> QED
  BY <1>2, <1>3 DEF TypeByWtype

LEMMA TypeByXdotoolAims == ASSUME IInv, IInv', AimInv, TypeByXdotool PROVE AimInv'
BY AimCommand DEF TypeByXdotool, At, Unfocused, Routes

LEMMA TypeByYdotoolAims == ASSUME IInv, IInv', AimInv, TypeByYdotool PROVE AimInv'
<1>1. ~At("done") /\ call.at \notin Unfocused
  BY DEF TypeByYdotool, At, Unfocused
<1>2. CASE \E a \in {"not_sent", "error"} : AnswerWith(a) /\ UNCHANGED effect
  BY <1>1, <1>2, AimRefused DEF Answers
<1>3. CASE Command("ydotool")
  BY <1>1, <1>3, AimCommand DEF Routes
<1> QED
  BY <1>2, <1>3 DEF TypeByYdotool, Only

(* A new call, and what changes around the calls. *)
LEMMA BeginCallAims ==
    ASSUME IInv, NEW r \in Requests, BeginCall(r)
    PROVE  AimInv'
<1>1. effect' = NoEffect
  BY DEF BeginCall
<1>2. call'.at \in {"background", "focus"}
  BY DEF BeginCall
<1> QED
  BY <1>1, <1>2 DEF AimInv, NoEffect, ReachesAim, Unfocused, PointRungs, PointerRungs

LEMMA AimStays == ASSUME AimInv, UNCHANGED <<front, call, effect>> PROVE AimInv'
BY DEF AimInv, Undisturbed, ReachesAim, HasPoint, Tool, Target, On

(* All of them. *)
LEMMA StartAims == ASSUME IInv, IInv', AimInv, StartOfCall PROVE AimInv'
BY SendInBackgroundAims, FocusTargetAims, MapWindowPointAims, ResolveElementAims,
   MapKwinElementAims, ClassifyFieldAims, PassPixelfluxAims, SendToPixelfluxAims
   DEF StartOfCall

LEMMA PointerAims == ASSUME IInv, IInv', AimInv, PointerStep PROVE AimInv'
BY PointByXdotoolAims, TryUinputAims, ReplaceDeviceAims, CreateDeviceAims, EmitUinputAims,
   UsePortalPointerAims, PortalNoLongerPreferredAims, StartPortalPointerAims,
   RefocusForPointerAims, SendByPortalPointerAims, PointByYdotoolAims
   DEF PointerStep

LEMMA KeyboardAims == ASSUME IInv, IInv', AimInv, KeyboardStep PROVE AimInv'
BY ChordRouteAims, TextRouteAims, PinKeyboardTargetAims, StartPortalKeyboardAims,
   RefocusForKeyboardAims, SendByPortalKeyboardAims, PasteNotSentAims, TypeByWtypeAims,
   TypeByXdotoolAims, TypeByYdotoolAims
   DEF KeyboardStep

(* A call acts in the window it is for, whichever consent dialogs of the portal open and
   whatever fails, as long as no capture asks for consent on its way: always for keys and
   text, for which nothing is captured. *)
THEOREM UndisturbedReachAim == RouteSpec => [](Undisturbed => ReachesAim)
<1>1. RouteInit => AimInv
  <2> SUFFICES ASSUME RouteInit PROVE AimInv
    OBVIOUS
  <2>1. effect = NoEffect /\ call.at = "idle"
    BY DEF RouteInit
  <2> QED
    BY <2>1, QuietReaches DEF AimInv, Unfocused, PointRungs, PointerRungs
<1>2. IInv /\ IInv' /\ AimInv /\ [RouteNext]_routeVars => AimInv'
  <2> SUFFICES ASSUME IInv, IInv', AimInv, [RouteNext]_routeVars PROVE AimInv'
    OBVIOUS
  <2>1. CASE \E r \in Requests : BeginCall(r)
    BY <2>1, BeginCallAims
  <2>2. CASE CallStep
    BY <2>2, StartAims, PointerAims, KeyboardAims DEF CallStep
  <2>3. CASE Surroundings
    BY <2>3, AimStays DEF Surroundings
  <2>4. CASE UNCHANGED routeVars
    BY <2>4, AimStays DEF routeVars
  <2> QED
    BY <2>1, <2>2, <2>3, <2>4 DEF RouteNext
<1>3. AimInv => (Undisturbed => ReachesAim)
  BY DEF AimInv
<1> QED
  BY <1>1, <1>2, <1>3, RouteInvariance, PTL DEF RouteSpec

(* Where captures never ask, every call acts in the window it is for. *)
THEOREM AimIsReached == ASSUME ~ScreenshotPrompts PROVE RouteSpec => []ReachesAim
<1>1. (Undisturbed => ReachesAim) => ReachesAim
  BY DEF Undisturbed
<1> QED
  BY <1>1, UndisturbedReachAim, PTL

-----------------------------------------------------------------------------
(***************************************************************************)
(* Toplevels.  While the worker collects, the one window that matches, if  *)
(* there is one, has been noted (Noted); so has the one with the id and    *)
(* the focus while it is checked (NotedFocus).  What is asked of the       *)
(* compositor was noted when it was chosen (AskedIsNoted), and nothing is  *)
(* asked by a worker that has answered (Silent).                           *)
(***************************************************************************)

Wants == {ShownAs(p, w, l) : p \in {"wlr", "labwc"}, w \in Tops, l \in Labels}

Workers == [at : TopSteps, tries : Nat, want : Wants, focused : Wants \cup {None},
            handle : Tops \cup {None}]

TopTyped ==
    /\ protocol \in {"wlr", "labwc"} /\ opened \subseteq Tops /\ active \subseteq opened
    /\ label \in [Tops -> Labels] /\ worker \in Workers
    /\ asked \in Tops \cup {None} /\ answer \in {None, "ok", "failed"}
    /\ confirmed \in BOOLEAN

Noted ==
    worker.at = "collecting" /\ Cardinality(NamedNow(opened, label)) = 1
        => NamedNow(opened, label) \subseteq sole

NotedFocus ==
    /\ worker.at = "checking" /\ Cardinality(SameId(opened, label)) = 1
       /\ SameId(opened, label) \subseteq active => kept # {}
    /\ confirmed => kept # {}

AskedIsNoted ==
    /\ worker.at = "sending" => worker.handle \in sole
    /\ asked # None => asked \in sole
    /\ struck # None => struck \in sole

Silent ==
    /\ answer # None => worker.at \in {"done", "asking", "checking", "checked"}
    /\ answer = "ok" => asked = None

TopInv == TopTyped /\ Noted /\ NotedFocus /\ AskedIsNoted /\ Silent

(* The caller has named a window that is there. *)
LEMMA TopInitInv == TopInit => TopInv
  <1> SUFFICES ASSUME TopInit PROVE TopInv
    OBVIOUS
  <1>1. PICK v \in opened : worker = [NoTop EXCEPT !.want = ShownAs(protocol, v, label[v])]
    BY DEF TopInit
  <1>2. ShownAs(protocol, v, label[v]) \in Wants
    BY DEF TopInit, Wants
  <1>3. worker \in Workers /\ worker.at = "idle"
    BY <1>1, <1>2 DEF NoTop, Workers, TopSteps
  <1>4. active \subseteq opened
    BY DEF TopInit
  <1> QED
    BY <1>3, <1>4 DEF TopInit, TopInv, TopTyped, Noted, NotedFocus, AskedIsNoted, Silent

(* A set of windows with one member. *)
LEMMA OneOf ==
    ASSUME NEW S \in SUBSET Tops, Cardinality(S) = 1
    PROVE  \E w \in Tops : S = {w}
  <1>1. IsFiniteSet(S)
    BY ToplevelAssumption, FS_Subset
  <1> QED
    BY <1>1, FS_Singleton

(* What is shown of a window is among what can be asked for. *)
LEMMA ShownIsWant ==
    ASSUME TopTyped, NEW w \in opened
    PROVE  Shown(w) \in Wants
  BY DEF TopTyped, Shown, Wants

(* What a step says of the worker's record. *)
LEMMA WorkerKeeps ==
    ASSUME TopTyped, TopServer \/ TopDesktop
    PROVE  worker' \in Workers /\ worker'.want = worker.want
  <1> USE DEF TopTyped, TopSteps
  <1>1. ASSUME NEW r \in TopSteps, Worker(r)
        PROVE  worker' \in Workers /\ worker'.want = worker.want
    BY <1>1 DEF Worker, Workers
  <1>2. CASE UNCHANGED worker
    BY <1>2
  <1>3. CASE BeginActivation \/ ListIpc \/ SendActivate \/ Handled \/ BreakOff
    BY <1>1, <1>3 DEF BeginActivation, ListIpc, SendActivate, Handled, BreakOff, Fail
  <1>4. CASE Collect
    <2>1. CASE worker' = [worker EXCEPT !.tries = @ + 1]
      BY <2>1 DEF Workers
    <2>2. CASE Fail
      BY <1>1, <2>2 DEF Fail
    <2>3. ASSUME NEW w \in FindHandle, worker' = [worker EXCEPT !.at = "sending", !.handle = w]
          PROVE  worker' \in Workers /\ worker'.want = worker.want
      <3>1. w \in Tops
        BY <2>3 DEF FindHandle, Unique, TopList, OnlyHandle
      <3> QED
        BY <2>3, <3>1 DEF Workers
    <2> QED
      BY <1>4, <2>1, <2>2, <2>3 DEF Collect
  <1>5. CASE BeginFocus
    BY <1>5 DEF BeginFocus, Workers
  <1>6. CASE AskFocused
    <2>1. PICK f \in IF active = {} THEN {None} ELSE {Shown(w) : w \in active} :
            worker' = [worker EXCEPT !.at = IF f = None THEN "checked" ELSE "checking",
                                     !.focused = f]
      BY <1>6 DEF AskFocused
    <2>2. f \in Wants \cup {None}
      BY <2>1, ShownIsWant
    <2> QED
      BY <2>1, <2>2 DEF Workers
  <1>7. CASE CheckFocus
    <2>1. CASE worker' = [worker EXCEPT !.tries = @ + 1]
      BY <2>1 DEF Workers
    <2> QED
      BY <1>1, <1>7, <2>1 DEF CheckFocus
  <1>8. CASE TopDesktop
    BY <1>2, <1>8 DEF TopDesktop, Activates, TopOpens, Retitled, Described, TopCloses, FocusMoves,
       Untouched
  <1> QED
    BY <1>3, <1>4, <1>5, <1>6, <1>7, <1>8 DEF TopServer

(* Every step keeps the types. *)
LEMMA TopTypeStep ==
    ASSUME TopTyped, TopNext
    PROVE  TopTyped'
  <1>1. worker' \in Workers
    BY WorkerKeeps DEF TopNext
  <1>2. protocol' = protocol
    BY DEF TopNext
  <1>3. ASSUME TopServer
        PROVE  TopTyped'
    <2>1. UNCHANGED <<opened, label, active>>
      BY <1>3 DEF TopServer, BeginActivation, ListIpc, Collect, SendActivate, Handled, BreakOff,
         BeginFocus, AskFocused, CheckFocus, compositorVars
    <2>2. asked' \in Tops \cup {None} /\ answer' \in {None, "ok", "failed"}
      BY <1>3 DEF TopServer, BeginActivation, ListIpc, Collect, SendActivate, Handled, BreakOff,
         BeginFocus, AskFocused, CheckFocus, Fail, TopTyped, Workers
    <2>3. confirmed' \in BOOLEAN
      BY <1>3 DEF TopServer, BeginActivation, ListIpc, Collect, SendActivate, Handled, BreakOff,
         BeginFocus, AskFocused, CheckFocus, Fail, TopTyped
    <2> QED
      BY <1>1, <1>2, <2>1, <2>2, <2>3 DEF TopTyped
  <1>4. CASE Activates
    BY <1>1, <1>2, <1>4 DEF Activates, TopTyped
  <1>5. ASSUME NEW w \in Tops,
               \/ TopOpens(w) \/ Described(w) \/ TopCloses(w) \/ FocusMoves(w)
               \/ \E l \in Labels : Retitled(w, l)
        PROVE  TopTyped'
    BY <1>1, <1>2, <1>5, ToplevelAssumption
    DEF TopOpens, Described, TopCloses, FocusMoves, Retitled, Untouched, TopTyped
  <1> QED
    BY <1>3, <1>4, <1>5 DEF TopNext, TopDesktop

(* What matches while the worker collects or checks is noted in the step itself. *)
LEMMA LookNotes ==
    ASSUME TopInv, TopNext
    PROVE  /\ sole \subseteq sole' /\ kept \subseteq kept'
           /\ Noted'
           /\ (worker.at \in {"done", "asking", "checking"} /\ worker'.at = "checking" /\
               Cardinality(SameId(opened', label')) = 1 /\ SameId(opened', label') \subseteq active'
                 => kept' # {})
  <1>1. worker'.want = worker.want /\ protocol' = protocol
    BY WorkerKeeps DEF TopInv, TopNext
  <1>2. NamedNow(opened, label)' = NamedNow(opened', label')
    BY <1>1 DEF NamedNow
  <1> DEFINE same == SameId(opened', label')
  <1>3. Cardinality(same) = 1 => same # {}
    <2> SUFFICES ASSUME Cardinality(same) = 1 PROVE same # {}
      OBVIOUS
    <2>1. same \in SUBSET Tops
      BY TopTypeStep DEF TopInv, TopTyped, SameId
    <2> QED
      BY <2>1, OneOf
  <1> HIDE DEF same
  <1>4. /\ sole' = IF worker'.at = "collecting" /\ Cardinality(NamedNow(opened', label')) = 1
                   THEN sole \cup NamedNow(opened', label') ELSE sole
        /\ kept' = IF /\ worker.at \in {"done", "asking", "checking"}
                      /\ worker'.at \in {"asking", "checking"}
                      /\ Cardinality(same) = 1 /\ same \subseteq active'
                   THEN kept \cup same ELSE kept
    BY DEF TopNext, Look, same
  <1> QED
    BY <1>2, <1>3, <1>4 DEF Noted, same

(* The window that is chosen has been noted. *)
LEMMA ChosenIsNoted ==
    ASSUME TopInv, worker.at = "collecting", NEW w \in FindHandle
    PROVE  w \in sole
  <1> DEFINE named == NamedNow(opened, label)
  <1> SUFFICES Cardinality(named) = 1 /\ w \in named
    BY DEF TopInv, Noted
  <1>1. CASE protocol = "wlr"
    <2> DEFINE same == {v \in opened : IdOf(Shown(v)) = IdOf(worker.want)}
    <2>1. DOMAIN TopList = opened /\ \A v \in opened : TopList[v] = Shown(v)
      BY DEF TopList
    <2>2. Cardinality(same) = 1 /\ w \in same /\ Shown(w) = worker.want
      <3>1. w \in Unique(TopList, worker.want)
        BY <1>1 DEF FindHandle
      <3>2. {v \in DOMAIN TopList : IdOf(TopList[v]) = IdOf(worker.want)} = same
        BY <2>1
      <3> QED
        BY <2>1, <3>1, <3>2 DEF Unique
    <2>3. PICK v \in Tops : same = {v}
      <3>1. same \in SUBSET Tops
        BY DEF TopInv, TopTyped
      <3> QED
        BY <2>2, <3>1, OneOf
    <2>4. named = same
      <3>1. named = {u \in opened : Shown(u) = worker.want}
        BY <1>1 DEF NamedNow, Shown
      <3>2. named \subseteq same /\ w \in named
        BY <2>2, <3>1
      <3> QED
        BY <2>2, <2>3, <3>2
    <2> QED
      BY <2>2, <2>4
  <1>2. CASE protocol # "wlr"
    BY <1>2 DEF FindHandle, OnlyHandle, NamedNow
  <1> QED
    BY <1>1, <1>2

(* A window that is found to have the focus is the one with the id, and has it. *)
LEMMA ConfirmedIsNoted ==
    ASSUME TopInv, worker.at = "checking", NEW w \in FocusedWindow,
           IdOf(Shown(w)) = IdOf(worker.want)
    PROVE  kept # {}
  <1> DEFINE same(key) == {v \in opened : IdOf(Shown(v)) = IdOf(key)}
  <1>1. DOMAIN TopList = opened /\ \A v \in opened : TopList[v] = Shown(v)
    BY DEF TopList
  <1>2. \A key : {v \in DOMAIN TopList : IdOf(TopList[v]) = IdOf(key)} = same(key)
    BY <1>1
  <1>3. PICK key : w \in Unique(TopList, key) /\ w \in active
    BY DEF FocusedWindow
  <1>4. Cardinality(same(key)) = 1 /\ w \in same(key)
    BY <1>2, <1>3 DEF Unique
  <1>5. same(worker.want) = same(key)
    BY <1>4
  <1>6. SameId(opened, label) = same(worker.want)
    BY DEF SameId, Shown
  <1>7. PICK v \in Tops : same(key) = {v}
    <2>1. same(key) \in SUBSET Tops
      BY DEF TopInv, TopTyped
    <2> QED
      BY <1>4, <2>1, OneOf
  <1>8. SameId(opened, label) \subseteq active
    BY <1>3, <1>4, <1>5, <1>6, <1>7
  <1> QED
    BY <1>4, <1>5, <1>6, <1>8 DEF TopInv, NotedFocus

(* A request to the compositor is sent by a worker that has not answered. *)
AskedOnce == answer # None => asked' \in {asked, None}

(* Each step keeps the invariant. *)
LEMMA TopStep ==
    ASSUME TopInv, [TopNext]_topVars
    PROVE  TopInv' /\ [AskedOnce]_topVars
  <1>1. CASE UNCHANGED topVars
    BY <1>1 DEF topVars, compositorVars, TopInv, TopTyped, Noted, NotedFocus, AskedIsNoted, Silent,
       NamedNow, SameId
  <1>2. ASSUME TopNext
        PROVE  TopInv' /\ AskedOnce
    <2> USE <1>2
    <2>1. TopTyped' /\ Noted' /\ sole \subseteq sole' /\ kept \subseteq kept'
      BY TopTypeStep, LookNotes DEF TopInv
    <2>2. SameId(opened, label)' = SameId(opened', label')
      <3>1. worker'.want = worker.want /\ protocol' = protocol
        BY WorkerKeeps DEF TopInv, TopNext
      <3> QED
        BY <3>1 DEF SameId
    <2>3. worker'.at = "checking" => worker.at \in {"done", "asking", "checking"}
      <3> USE DEF TopInv, TopTyped, Workers
      <3>1. CASE TopServer
        BY <3>1 DEF TopServer, BeginActivation, ListIpc, Collect, SendActivate, Handled, BreakOff,
           BeginFocus, AskFocused, CheckFocus, Fail, Worker
      <3>2. CASE TopDesktop
        BY <3>2 DEF TopDesktop, Activates, TopOpens, Retitled, Described, TopCloses, FocusMoves,
           Untouched
      <3> QED
        BY <3>1, <3>2 DEF TopNext
    <2>4. confirmed' => kept' # {}
      <3> SUFFICES ASSUME confirmed', ~confirmed PROVE kept # {}
        BY <2>1 DEF TopInv, NotedFocus
      <3>1. CheckFocus
        BY DEF TopNext, TopServer, BeginActivation, ListIpc, Collect, SendActivate, Handled,
           BreakOff, BeginFocus, AskFocused, Fail, TopDesktop, Activates, TopOpens, Retitled,
           Described, TopCloses, FocusMoves, Untouched
      <3>2. worker.at = "checking"
            /\ \E w \in FocusedWindow : IdOf(Shown(w)) = IdOf(worker.want)
        BY <3>1 DEF CheckFocus
      <3> QED
        BY <3>2, ConfirmedIsNoted
    <2>5. NotedFocus'
      BY <2>2, <2>3, <2>4, LookNotes DEF NotedFocus
    <2>6. /\ worker'.at = "sending" => worker'.handle \in sole'
          /\ asked' # None => asked' \in sole'
          /\ struck' # None => struck' \in sole'
      <3> USE <2>1 DEF TopInv, AskedIsNoted, TopTyped, Workers
      <3>1. CASE Collect
        <4>1. ASSUME NEW w \in FindHandle,
                     worker' = [worker EXCEPT !.at = "sending", !.handle = w]
              PROVE  worker'.handle \in sole'
          BY <3>1, <4>1, ChosenIsNoted DEF Collect
        <4> QED
          BY <3>1, <4>1 DEF Collect, Fail, Worker
      <3>2. CASE BeginActivation \/ ListIpc \/ SendActivate \/ Handled \/ BreakOff
        BY <3>2 DEF BeginActivation, ListIpc, SendActivate, Handled, BreakOff, Fail, Worker
      <3>3. CASE BeginFocus \/ AskFocused \/ CheckFocus
        BY <3>3 DEF BeginFocus, AskFocused, CheckFocus, Worker
      <3>4. CASE TopDesktop
        BY <3>4 DEF TopDesktop, Activates, TopOpens, Retitled, Described, TopCloses, FocusMoves,
           Untouched
      <3> QED
        BY <3>1, <3>2, <3>3, <3>4 DEF TopNext, TopServer
    <2>7. Silent' /\ AskedOnce
      <3> USE ToplevelAssumption DEF TopInv, Silent, AskedOnce, TopTyped, Workers
      <3>1. CASE BeginActivation \/ ListIpc \/ Collect \/ SendActivate
        BY <3>1 DEF BeginActivation, ListIpc, Collect, SendActivate, Fail, Worker
      <3>2. CASE Handled \/ BreakOff
        BY <3>2 DEF Handled, BreakOff, Fail, Worker
      <3>3. CASE BeginFocus \/ AskFocused \/ CheckFocus
        BY <3>3 DEF BeginFocus, AskFocused, CheckFocus, Worker
      <3>4. CASE TopDesktop
        BY <3>4 DEF TopDesktop, Activates, TopOpens, Retitled, Described, TopCloses, FocusMoves,
           Untouched
      <3> QED
        BY <3>1, <3>2, <3>3, <3>4 DEF TopNext, TopServer
    <2> QED
      BY <2>1, <2>5, <2>6, <2>7 DEF TopInv, AskedIsNoted
  <1> QED
    BY <1>1, <1>2

(* However windows open, close, are retitled and take the focus while a call looks for one,  *)
(* what gets the focus was the only one to match, and nothing is sent after the answer.      *)
THEOREM NamedGetsFocus == TopSpec => NamedIsActivated
  <1>1. TopInv /\ [TopNext]_topVars => TopInv' /\ [AskedOnce]_topVars
    BY TopStep
  <1>2. TopInv => /\ struck # None => struck \in sole
                  /\ answer = "ok" => asked = None
                  /\ confirmed => kept # {}
    BY DEF TopInv, AskedIsNoted, Silent, NotedFocus
  <1> QED
    BY <1>1, <1>2, TopInitInv, PTL DEF TopSpec, NamedIsActivated, AskedOnce

-----------------------------------------------------------------------------
(***************************************************************************)
(* CommandRunner.  The number of a group is its own until its run is over, *)
(* since the leader is not waited for before (OwnNumber); after a kill     *)
(* nothing of the group runs that could start a helper (GroupGone).        *)
(***************************************************************************)

RunSteps == {"idle", "spawning", "reading", "waiting", "killing", "reaping"} \cup Over

Outcomes == {"nothing", "dropped", "unstarted", "output", "error"}

RunnerTyped ==
    /\ run \in [Runs -> [at : RunSteps, busy : Nat, told : Outcomes]]
    /\ leader \in [Runs -> {"none", "running", "exited", "reaped"}]
    /\ helper \in [Runs -> BOOLEAN] /\ reused \in [Runs -> BOOLEAN]
    /\ harmed \in BOOLEAN

OwnNumber(r) ==
    /\ leader[r] = "reaped" => run[r].at \in Over
    /\ reused[r] => leader[r] = "reaped"

Unstarted(r) == run[r].at \in {"idle", "spawning"} => leader[r] = "none"

GroupGone(r) ==
    /\ leader[r] = "none" => ~helper[r]
    /\ run[r].at \in {"reaping", "ended"} => ~helper[r] /\ leader[r] # "running"

RunnerInv ==
    /\ RunnerTyped /\ ~harmed
    /\ \A r \in Runs : OwnNumber(r) /\ Unstarted(r) /\ GroupGone(r)

(* A step of the supervisor changes where it is, and what it told. *)
LEMMA StepTyped ==
    ASSUME RunnerTyped, NEW r \in Runs, NEW at \in RunSteps,
           Moves(r, at) \/ \E what \in Outcomes : Tells(r, at, what)
    PROVE  /\ run' \in [Runs -> [at : RunSteps, busy : Nat, told : Outcomes]]
           /\ run'[r].at = at /\ \A s \in Runs \ {r} : run'[s] = run[s]
  BY SMTT(30) DEF RunnerTyped, Moves, Tells, Outcomes

(* A step of one run leaves the others alone. *)
LEMMA RunnerStepInv ==
    ASSUME RunnerInv, [RunnerNext]_runnerVars
    PROVE  RunnerInv'
  <1> USE DEF RunnerInv, OwnNumber, Unstarted, GroupGone
  <1>1. CASE UNCHANGED runnerVars
    BY <1>1 DEF runnerVars, RunnerTyped
  <1>2. ASSUME NEW r \in Runs,
               StartHelper(r) \/ CloseOutput(r) \/ LeaderExits(r) \/ HelperExits(r) \/ ReuseNumber(r)
        PROVE  RunnerInv'
    <2>1. run' = run /\ harmed' = harmed
      BY <1>2 DEF StartHelper, CloseOutput, LeaderExits, HelperExits, ReuseNumber
    <2>2. RunnerTyped'
      BY <1>2, <2>1 DEF StartHelper, CloseOutput, LeaderExits, HelperExits, ReuseNumber, RunnerTyped
    <2> QED
      BY <1>2, <2>1, <2>2
      DEF StartHelper, CloseOutput, LeaderExits, HelperExits, ReuseNumber, RunnerTyped, Over
  <1>3. ASSUME NEW r \in Runs, NEW at \in RunSteps,
               Moves(r, at) \/ \E what \in Outcomes : Tells(r, at, what), UNCHANGED programVars,
               leader[r] = "reaped" => at \in Over,
               at \in {"idle", "spawning"} => leader[r] = "none",
               at \in {"reaping", "ended"} => ~helper[r] /\ leader[r] # "running"
        PROVE  RunnerInv'
    BY <1>3, StepTyped DEF programVars, RunnerTyped
  <1>4. ASSUME NEW r \in Runs, StartRun(r) \/ ReadToEnd(r) \/ GiveUpRun(r) \/ HearDrop(r)
        PROVE  RunnerInv'
    <2>1. PICK at \in {"spawning", "waiting", "killing"} :
            /\ Moves(r, at) /\ UNCHANGED programVars
            /\ at = "spawning" => run[r].at = "idle"
            /\ run[r].at \in {"idle", "reading", "waiting"}
      BY <1>4 DEF StartRun, ReadToEnd, GiveUpRun, HearDrop, AtStep
    <2> QED
      BY <1>3, <2>1 DEF RunSteps, Over
  <1>5. ASSUME NEW r \in Runs, Spawn(r)
        PROVE  RunnerInv'
    <2>1. AtStep(r, "spawning")
      BY <1>5 DEF Spawn
    <2>2. CASE Tells(r, "ended", "unstarted") /\ UNCHANGED programVars
      BY <1>3, <2>1, <2>2 DEF AtStep, RunSteps, Over, Outcomes
    <2>3. CASE run' = [run EXCEPT ![r].busy = @ + 1] /\ UNCHANGED programVars
      BY <2>3 DEF programVars, RunnerTyped
    <2>4. CASE /\ Moves(r, "reading")
               /\ leader' = [leader EXCEPT ![r] = "running"]
               /\ UNCHANGED <<helper, reused, harmed>>
      <3>1. run'[r].at = "reading" /\ \A s \in Runs \ {r} : run'[s] = run[s]
        BY <2>4, StepTyped DEF RunSteps
      <3>2. RunnerTyped'
        BY <2>4, StepTyped DEF RunSteps, RunnerTyped
      <3> QED
        BY <2>1, <2>4, <3>1, <3>2 DEF AtStep, RunnerTyped
    <2> QED
      BY <1>5, <2>2, <2>3, <2>4 DEF Spawn
  <1>6. ASSUME NEW r \in Runs, WaitForExit(r)
        PROVE  RunnerInv'
    <2>1. run'[r].at = "finished" /\ \A s \in Runs \ {r} : run'[s] = run[s]
      BY <1>6, StepTyped DEF WaitForExit, RunSteps, Over, Outcomes
    <2>2. RunnerTyped'
      BY <1>6, StepTyped DEF WaitForExit, RunSteps, Over, Outcomes, RunnerTyped
    <2> QED
      BY <1>6, <2>1, <2>2 DEF WaitForExit, RunnerTyped, Over
  <1>7. ASSUME NEW r \in Runs, DropRun(r)
        PROVE  RunnerInv'
    <2>1. /\ run' \in [Runs -> [at : RunSteps, busy : Nat, told : Outcomes]]
          /\ run'[r].at = IF run[r].at = "spawning" THEN "ended" ELSE run[r].at
          /\ \A s \in Runs \ {r} : run'[s] = run[s]
      <3> DEFINE rec == [run[r] EXCEPT !.told = "dropped",
                                       !.at = IF @ = "spawning" THEN "ended" ELSE @]
      <3>1. run' = [run EXCEPT ![r] = rec]
        BY <1>7 DEF DropRun
      <3>2. run[r] \in [at : RunSteps, busy : Nat, told : Outcomes]
        BY DEF RunnerTyped
      <3>3. /\ rec \in [at : RunSteps, busy : Nat, told : Outcomes]
            /\ rec.at = IF run[r].at = "spawning" THEN "ended" ELSE run[r].at
        BY <3>2 DEF RunSteps, Over, Outcomes
      <3> HIDE DEF rec
      <3> QED
        BY <3>1, <3>3 DEF RunnerTyped
    <2> QED
      BY <1>7, <2>1 DEF DropRun, programVars, RunnerTyped
  <1>8. ASSUME NEW r \in Runs, Terminate(r)
        PROVE  RunnerInv'
    <2>1. run'[r].at = "reaping" /\ \A s \in Runs \ {r} : run'[s] = run[s]
      BY <1>8, StepTyped DEF Terminate, RunSteps
    <2>2. ~reused[r] /\ run[r].at = "killing"
      BY <1>8 DEF Terminate, AtStep, Over
    <2>3. RunnerTyped'
      BY <1>8, <2>2, StepTyped DEF Terminate, KillGroup, RunSteps, RunnerTyped
    <2> QED
      BY <1>8, <2>1, <2>2, <2>3 DEF Terminate, KillGroup, RunnerTyped, Over
  <1>9. ASSUME NEW r \in Runs, Reap(r)
        PROVE  RunnerInv'
    <2>1. run'[r].at = "ended" /\ \A s \in Runs \ {r} : run'[s] = run[s]
      BY <1>9, StepTyped DEF Reap, RunSteps, Over, Outcomes
    <2>2. RunnerTyped'
      BY <1>9, StepTyped DEF Reap, RunSteps, Over, Outcomes, RunnerTyped
    <2> QED
      BY <1>9, <2>1, <2>2 DEF Reap, AtStep, RunnerTyped, Over
  <1> QED
    BY <1>1, <1>2, <1>4, <1>5, <1>6, <1>7, <1>8, <1>9 DEF RunnerNext, RunnerStep

(* No kill reaches a group that is not the run's, and a run that ends without its output  *)
(* leaves nothing of its group, for any number of runs and whatever their programs do.    *)
THEOREM OnlyOwnGroups == RunnerSpec => []KillsItsOwn
  <1>1. RunnerInit => RunnerInv
    <2> SUFFICES ASSUME RunnerInit PROVE RunnerInv
      OBVIOUS
    <2>1. [at |-> "idle", busy |-> 0, told |-> "nothing"] \in
            [at : RunSteps, busy : Nat, told : Outcomes]
      BY DEF RunSteps, Outcomes
    <2>2. RunnerTyped
      BY <2>1 DEF RunnerInit, RunnerTyped
    <2> QED
      BY <2>2 DEF RunnerInit, RunnerInv, OwnNumber, Unstarted, GroupGone
  <1>2. RunnerInv => KillsItsOwn
    BY DEF RunnerInv, GroupGone, KillsItsOwn, AtStep
  <1> QED
    BY <1>1, <1>2, RunnerStepInv, PTL DEF RunnerSpec

-----------------------------------------------------------------------------
(***************************************************************************)
(* HyprlandKeys.  A request of presses that has not been handled is the    *)
(* first, and nothing was typed or is held past what the call counts; once *)
(* it is handled, at most its presses are typed and its keys held, which   *)
(* are those to be released (Counted).  While its reply is awaited, typed  *)
(* and held are what the events that took effect make of them (Awaited).   *)
(***************************************************************************)

Exchange == [events |-> DownUp(Chunk), for |-> "exchange"]

ReleaseEvents ==
    {e \in [1..Cardinality(sending.release) -> [key : sending.release, state : {"up"}]] :
        {e[i].key : i \in DOMAIN e} = sending.release}

Releases == {[events |-> e, for |-> "releasing"] : e \in ReleaseEvents}

HyprSteps == {"map", "connect", "exchange", "release", "releasing", "answered"}

HyprTyped ==
    /\ presses \in Texts
    /\ sending \in [at : HyprSteps, delivered : Nat, more : Nat,
                    release : SUBSET KeyPresses, said : BOOLEAN]
    /\ IsFiniteSet(sending.release)
    /\ held \subseteq KeyPresses /\ typed \in Nat

Early ==
    sending.at \in {"map", "connect", "exchange"} =>
        /\ sending.delivered < Len(presses) /\ sending.more = 0 /\ sending.release = {}
        /\ sending.at # "exchange" => requests = <<>> /\ held = {} /\ typed = sending.delivered

Downs(events, ok) == {i \in DOMAIN ok : ok[i] /\ events[i].state = "down"}

Awaited ==
    sending.at = "exchange" =>
        \/ requests = <<Exchange>> /\ heard = NoReply /\ held = {} /\ typed = sending.delivered
        \/ /\ requests = <<>>
           /\ \E ok \in [1..2 * Len(Chunk) -> BOOLEAN], n \in 0..2 * Len(Chunk) :
                /\ heard = <<SubSeq(ok, 1, n)>>
                /\ typed = sending.delivered + Cardinality(Downs(DownUp(Chunk), ok))
                /\ held \subseteq After(DownUp(Chunk), ok, {})

Unhandled ==
    /\ sending.delivered < Len(presses)
    /\ held = {} /\ typed = sending.delivered
    /\ sending.more = Len(Chunk) /\ sending.release = HeldAfter(Chunk)

Arrived ==
    /\ held \subseteq sending.release
    /\ typed \in sending.delivered..sending.delivered + sending.more

Counted ==
    sending.at \in {"release", "releasing", "answered"} =>
        \/ requests = <<Exchange>> /\ Unhandled
        \/ requests = <<>> /\ Arrived
        \/ /\ sending.at # "release"
           /\ \E r \in Releases : \/ requests = <<Exchange, r>> /\ Unhandled
                                  \/ requests = <<r>> /\ Arrived

Said ==
    /\ sending.at = "releasing" /\ heard # NoReply =>
         /\ requests = <<>>
         /\ ReleasedAll(heard[1]) => held = {}
    /\ sending.at = "answered" /\ ~sending.said => requests = <<>> /\ held = {}

HyprInv == HyprTyped /\ Early /\ Awaited /\ Counted /\ Said

Less == {ss \in Nat \X Nat : ss[1] < ss[2]}

(* A nonempty set of numbers has a least one. *)
LEMMA Least ==
    ASSUME NEW S \in SUBSET Nat, S # {}
    PROVE  \E i \in S : \A j \in S : i <= j
  <1>1. IsWellFoundedOn(Less, Nat)
    BY NatLessThanWellFounded DEF OpToRel, Less
  <1>2. PICK i \in S : \A j \in S : ~(<<j, i>> \in Less)
    BY <1>1, WFMin
  <1>3. \A j \in S : j < i => <<j, i>> \in Less
    BY DEF Less
  <1>4. \A j \in S : ~(j < i)
    BY <1>2, <1>3, Zenon
  <1> QED
    BY <1>4

Odds(n) == {i \in 1..n : i % 2 = 1}

(* Every other one of the numbers up to n is odd. *)
LEMMA OddsCount ==
    ASSUME NEW n \in Nat
    PROVE  IsFiniteSet(Odds(n)) /\ Cardinality(Odds(n)) = (n + 1) \div 2
  <1> DEFINE m == (n + 1) \div 2
  <1> DEFINE f == [j \in 1..m |-> 2 * j - 1]
  <1>1. m \in Nat
    OBVIOUS
  <1>2. f \in Bijection(1..m, Odds(n))
    <2>1. \A j \in 1..m : f[j] \in Odds(n)
      BY DEF Odds
    <2>2. \A j, k \in 1..m : f[j] = f[k] => j = k
      BY <1>1
    <2>3. \A i \in Odds(n) : \E j \in 1..m : f[j] = i
      <3> SUFFICES ASSUME NEW i \in Odds(n) PROVE \E j \in 1..m : f[j] = i
        OBVIOUS
      <3>1. (i + 1) \div 2 \in 1..m /\ 2 * ((i + 1) \div 2) - 1 = i
        BY DEF Odds
      <3> QED
        BY <3>1
    <2> QED
      BY <2>1, <2>2, <2>3 DEF Bijection, Injection, Surjection, IsInjective
  <1>3. IsFiniteSet(1..m) /\ Cardinality(1..m) = m
    BY <1>1, FS_Interval
  <1> QED
    BY <1>1, <1>2, <1>3, FS_Bijection DEF ExistsBijection

(* Half of a number, rounded down and up. *)
LEMMA Halves ==
    ASSUME NEW n \in Nat
    PROVE  n % 2 \in {0, 1} /\ n \div 2 \in Nat /\ (n + 1) \div 2 = (n \div 2) + (n % 2)
  OBVIOUS

(* The words before the first refusal. *)
LEMMA AcceptedIs ==
    ASSUME NEW reply \in Seq(BOOLEAN)
    PROVE  /\ Accepted(reply) \in 0..Len(reply)
           /\ \A i \in 1..Accepted(reply) : reply[i]
           /\ Accepted(reply) < Len(reply) => ~reply[Accepted(reply) + 1]
  <1> DEFINE Is(n) == (\A i \in 1..n : reply[i]) /\ (n < Len(reply) => ~reply[n + 1])
  <1> SUFFICES \E n \in 0..Len(reply) : Is(n)
    BY DEF Accepted
  <1> DEFINE no == {i \in 1..Len(reply) : ~reply[i]}
  <1>1. CASE no = {}
    <2>1. Is(Len(reply))
      BY <1>1
    <2> QED
      BY <2>1
  <1>2. CASE no # {}
    <2>1. no \in SUBSET Nat
      OBVIOUS
    <2>2. PICK i \in no : \A j \in no : i <= j
      BY <1>2, <2>1, Least
    <2>3. Is(i - 1) /\ i - 1 \in 0..Len(reply)
      BY <2>2
    <2> QED
      BY <2>3
  <1> QED
    BY <1>1, <1>2

(* The events of a chunk, and which of them press a key. *)
LEMMA ChunkEvents ==
    ASSUME NEW chunk \in Seq(KeyPresses)
    PROVE  /\ DOMAIN DownUp(chunk) = 1..2 * Len(chunk) /\ Len(DownUp(chunk)) = 2 * Len(chunk)
           /\ \A i \in 1..2 * Len(chunk) :
                /\ (i + 1) \div 2 \in 1..Len(chunk)
                /\ DownUp(chunk)[i].key = chunk[(i + 1) \div 2]
                /\ DownUp(chunk)[i].state = "down" <=> i % 2 = 1
  <1>1. Len(chunk) \in Nat
    OBVIOUS
  <1>2. DownUp(chunk) = [i \in 1..2 * Len(chunk) |->
             [key |-> chunk[(i + 1) \div 2], state |-> IF i % 2 = 1 THEN "down" ELSE "up"]]
    BY DEF DownUp
  <1>3. DOMAIN DownUp(chunk) = 1..2 * Len(chunk)
    BY <1>2
  <1>4. Len(DownUp(chunk)) = 2 * Len(chunk)
    BY <1>1, <1>3
  <1> QED
    BY <1>1, <1>2, <1>3, <1>4

(* Whatever of a chunk takes effect, no more is typed than it has presses, and only its *)
(* keys are held.                                                                       *)
LEMMA SomeTookEffect ==
    ASSUME NEW chunk \in Seq(KeyPresses), NEW ok \in [1..2 * Len(chunk) -> BOOLEAN]
    PROVE  /\ After(DownUp(chunk), ok, {}) \subseteq HeldAfter(chunk)
           /\ Cardinality(Downs(DownUp(chunk), ok)) \in 0..Len(chunk)
  <1>1. ASSUME NEW k \in After(DownUp(chunk), ok, {}) PROVE k \in HeldAfter(chunk)
    <2>1. PICK i \in DOMAIN DownUp(chunk) : DownUp(chunk)[i].key = k
      BY DEF After
    <2> QED
      BY <2>1, ChunkEvents DEF HeldAfter
  <1>2. Downs(DownUp(chunk), ok) \subseteq Odds(2 * Len(chunk))
    BY ChunkEvents DEF Downs, Odds
  <1>3. 2 * Len(chunk) \in Nat /\ (2 * Len(chunk) + 1) \div 2 = Len(chunk)
    OBVIOUS
  <1>4. Cardinality(Downs(DownUp(chunk), ok)) <= Cardinality(Odds(2 * Len(chunk)))
        /\ IsFiniteSet(Downs(DownUp(chunk), ok))
    BY <1>2, <1>3, OddsCount, FS_Subset
  <1>5. Cardinality(Downs(DownUp(chunk), ok)) \in Nat
    BY <1>4, FS_CardinalityType
  <1> QED
    BY <1>1, <1>3, <1>4, <1>5, OddsCount

(* When exactly the first n events take effect, the press of the last is held if n is   *)
(* odd, and no other.                                                                   *)
LEMMA FirstTookEffect ==
    ASSUME NEW chunk \in Seq(KeyPresses), NEW ok \in [1..2 * Len(chunk) -> BOOLEAN],
           NEW n \in 0..2 * Len(chunk), \A i \in 1..2 * Len(chunk) : ok[i] <=> i <= n
    PROVE  /\ After(DownUp(chunk), ok, {}) \subseteq
                IF n % 2 = 1 THEN {chunk[(n + 1) \div 2]} ELSE {}
           /\ Cardinality(Downs(DownUp(chunk), ok)) = (n + 1) \div 2
  <1>1. ASSUME NEW k \in After(DownUp(chunk), ok, {})
        PROVE  n % 2 = 1 /\ k = chunk[(n + 1) \div 2]
    <2> DEFINE of == {i \in DOMAIN DownUp(chunk) : ok[i] /\ DownUp(chunk)[i].key = k}
    <2>1. PICK i \in of : DownUp(chunk)[i].state = "down" /\ \A j \in of : j <= i
      BY DEF After
    <2>2. i \in 1..2 * Len(chunk) /\ i % 2 = 1 /\ i <= n /\ k = chunk[(i + 1) \div 2]
      BY <2>1, ChunkEvents
    <2> DEFINE top == 2 * Len(chunk)
    <2>3. top \in Nat /\ n \in 0..top /\ i \in 1..top
      BY <2>2
    <2> HIDE DEF top
    <2>4. i + 1 <= n => i + 1 \in 1..top /\ (i + 1 + 1) \div 2 = (i + 1) \div 2
      BY <2>2, <2>3
    <2>5. ASSUME i + 1 <= n PROVE i + 1 \in of
      <3>1. DownUp(chunk)[i + 1].key = chunk[(i + 1 + 1) \div 2] /\ ok[i + 1]
        BY <2>4, <2>5, ChunkEvents DEF top
      <3> QED
        BY <2>2, <2>4, <2>5, <3>1, ChunkEvents DEF top
    <2>6. i = n
      BY <2>1, <2>2, <2>5, <2>3
    <2> QED
      BY <2>2, <2>6
  <1>2. Downs(DownUp(chunk), ok) = Odds(n)
    BY ChunkEvents DEF Downs, Odds
  <1>3. Cardinality(Odds(n)) = (n + 1) \div 2
    BY OddsCount
  <1> QED
    BY <1>1, <1>2, <1>3

(* Events that only release: no key is pressed, and when all take effect none of them   *)
(* is held.                                                                             *)
LEMMA ReleasesOnly ==
    ASSUME NEW keys \in SUBSET KeyPresses, NEW n \in Nat,
           NEW events \in [1..n -> [key : keys, state : {"up"}]],
           NEW ok \in [DOMAIN events -> BOOLEAN], NEW before \in SUBSET KeyPresses
    PROVE  /\ After(events, ok, before) \subseteq before
           /\ Downs(events, ok) = {}
           /\ (\A i \in DOMAIN ok : ok[i]) /\ before \subseteq {events[i].key : i \in DOMAIN events}
                => After(events, ok, before) = {}
  <1>1. \A i \in DOMAIN events : events[i].state = "up"
    OBVIOUS
  <1>2. DOMAIN ok = DOMAIN events
    OBVIOUS
  <1> QED
    BY <1>1, <1>2 DEF After, Downs

LEMMA ChunkIs ==
    ASSUME HyprTyped, sending.delivered < Len(presses)
    PROVE  /\ presses \in Seq(KeyPresses) /\ Chunk \in Seq(KeyPresses)
           /\ Len(Chunk) \in 1..PressesPerBatch
           /\ sending.delivered + Len(Chunk) <= Len(presses)
           /\ HeldAfter(Chunk) \subseteq KeyPresses /\ HeldAfter(Chunk) # {}
           /\ IsFiniteSet(HeldAfter(Chunk))
  <1> DEFINE from == sending.delivered
             to == IF from + PressesPerBatch < Len(presses) THEN from + PressesPerBatch
                   ELSE Len(presses)
  <1>1. presses \in Seq(KeyPresses) /\ from \in Nat /\ PressesPerBatch \in Nat \ {0}
    BY HyprAssumption DEF HyprTyped
  <1>2. to \in from + 1..Len(presses) /\ to - from \in 1..PressesPerBatch
    BY <1>1
  <1>3. Chunk = SubSeq(presses, from + 1, to)
    BY DEF Chunk
  <1> HIDE DEF to, from
  <1>4. Chunk \in Seq(KeyPresses) /\ Len(Chunk) = to - from
    BY <1>1, <1>2, <1>3
  <1>5. /\ HeldAfter(Chunk) \subseteq KeyPresses
        /\ Chunk[1] \in HeldAfter(Chunk)
        /\ HeldAfter(Chunk) = {Chunk[i] : i \in 1..Len(Chunk)}
    BY <1>1, <1>2, <1>4 DEF HeldAfter
  <1>6. IsFiniteSet(1..Len(Chunk))
    BY <1>4, <1>2, <1>1, FS_Interval
  <1> DEFINE f == [i \in 1..Len(Chunk) |-> Chunk[i]]
  <1>7. f \in Surjection(1..Len(Chunk), HeldAfter(Chunk))
    BY <1>5 DEF Surjection
  <1>8. IsFiniteSet(HeldAfter(Chunk))
    BY <1>6, <1>7, FS_Surjection
  <1>9. from + Len(Chunk) <= Len(presses)
    BY <1>1, <1>2, <1>4
  <1> QED
    BY <1>1, <1>2, <1>4, <1>5, <1>8, <1>9 DEF from

(* The requests there can be while a call waits, for presses or for releases. *)
LEMMA QueuesAre ==
    ASSUME HyprInv, requests # <<>>
    PROVE  \/ /\ requests = <<Exchange>> \/ \E r \in Releases : requests = <<Exchange, r>>
              /\ held = {} /\ typed = sending.delivered /\ sending.delivered < Len(presses)
              /\ Head(requests) = Exchange
              /\ sending.at # "exchange" => Unhandled
           \/ /\ sending.at \in {"releasing", "answered"} /\ Arrived
              /\ \E r \in Releases : requests = <<r>>
  <1>1. sending.at \in HyprSteps
    BY DEF HyprInv, HyprTyped
  <1>2. CASE sending.at = "exchange"
    BY <1>2 DEF HyprInv, Awaited, Early
  <1>3. CASE sending.at \in {"release", "releasing", "answered"}
    BY <1>3 DEF HyprInv, Counted, Unhandled
  <1> QED
    BY <1>1, <1>2, <1>3 DEF HyprInv, Early, HyprSteps

LEMMA HandleKeeps ==
    ASSUME HyprInv, Handle
    PROVE  HyprInv'
  <1> DEFINE events == Head(requests).events
  <1>1. /\ requests # <<>> /\ requests' = Tail(requests)
        /\ sending' = sending /\ presses' = presses
    BY DEF Handle
  <1>2. PICK ok \in [DOMAIN events -> BOOLEAN] :
           /\ held' = After(events, ok, held)
           /\ typed' = typed + Cardinality(Downs(events, ok))
           /\ IF Len(requests) = 1 /\ sending.at = Head(requests).for
              THEN \E n \in 0..Len(events) : heard' = <<SubSeq(ok, 1, n)>>
              ELSE heard' = heard
    BY DEF Handle, Downs
  <1>3. Chunk' = Chunk /\ Exchange' = Exchange /\ Releases' = Releases
    BY <1>1 DEF Chunk, Exchange, Releases, ReleaseEvents
  <1> HIDE DEF events
  <1>4. /\ HyprTyped /\ sending.at \in HyprSteps
        /\ sending.delivered \in Nat /\ sending.more \in Nat /\ typed \in Nat
        /\ sending.release \in SUBSET KeyPresses /\ IsFiniteSet(sending.release)
        /\ held \in SUBSET KeyPresses
    BY DEF HyprInv, HyprTyped
  <1>5. CASE Head(requests) = Exchange
    <2>1. /\ requests = <<Exchange>> \/ \E r \in Releases : requests = <<Exchange, r>>
          /\ held = {} /\ typed = sending.delivered /\ sending.delivered < Len(presses)
          /\ sending.at # "exchange" => Unhandled
      <3>1. \A r \in Releases : r.for = "releasing" /\ Exchange.for = "exchange"
        BY DEF Releases, Exchange
      <3> QED
        BY <1>1, <1>5, <3>1, QueuesAre
    <2>2. /\ Chunk \in Seq(KeyPresses) /\ Len(Chunk) \in Nat
          /\ HeldAfter(Chunk) \subseteq KeyPresses
      BY <1>4, <2>1, ChunkIs, HyprAssumption
    <2>3. /\ events = DownUp(Chunk) /\ DOMAIN events = 1..2 * Len(Chunk)
          /\ Len(events) = 2 * Len(Chunk)
      BY <1>5, <2>2, ChunkEvents DEF events, Exchange
    <2>4. /\ ok \in [1..2 * Len(Chunk) -> BOOLEAN]
          /\ held' = After(DownUp(Chunk), ok, {})
          /\ typed' = sending.delivered + Cardinality(Downs(DownUp(Chunk), ok))
      BY <1>2, <2>1, <2>3
    <2>5. /\ held' \subseteq HeldAfter(Chunk)
          /\ typed' \in sending.delivered..sending.delivered + Len(Chunk)
      BY <2>2, <2>4, <1>4, SomeTookEffect
    <2>6. HyprTyped'
      BY <1>1, <1>4, <2>2, <2>5 DEF HyprTyped
    <2>7. Early'
      BY <1>1, <2>1, QueuesAre DEF HyprInv, Early
    <2>8. CASE sending.at = "exchange"
      <3>1. requests = <<Exchange>> /\ heard = NoReply
        BY <1>1, <2>8, <2>1 DEF HyprInv, Awaited
      <3>2. PICK n \in 0..2 * Len(Chunk) : heard' = <<SubSeq(ok, 1, n)>>
        BY <1>2, <2>3, <2>8, <3>1 DEF Exchange
      <3>3. requests' = <<>>
        BY <1>1, <3>1
      <3>4. Awaited'
        BY <1>1, <1>3, <2>4, <3>2, <3>3 DEF Awaited
      <3>5. Counted' /\ Said'
        BY <1>1, <2>8 DEF Counted, Said
      <3> QED
        BY <2>6, <2>7, <3>4, <3>5 DEF HyprInv
    <2>9. CASE sending.at # "exchange"
      <3>1. Unhandled /\ sending.at \in {"release", "releasing", "answered"}
        BY <1>1, <2>1, <2>9, <1>4 DEF HyprInv, Early, HyprSteps
      <3>2. Arrived'
        BY <1>1, <2>5, <3>1 DEF Unhandled, Arrived
      <3>3. requests' = <<>> \/ \E r \in Releases : requests' = <<r>>
        <4>1. CASE requests = <<Exchange>>
          BY <1>1, <4>1
        <4>2. ASSUME NEW r \in Releases, requests = <<Exchange, r>> PROVE requests' = <<r>>
          BY <1>1, <4>2
        <4> QED
          BY <2>1, <4>1, <4>2
      <3>4. ASSUME sending.at = "release" PROVE requests' = <<>>
        <4>1. requests = <<Exchange>>
          BY <1>1, <3>4 DEF HyprInv, Counted
        <4> QED
          BY <1>1, <4>1
      <3>5. Counted'
        BY <1>1, <1>3, <3>1, <3>2, <3>3, <3>4 DEF Counted
      <3>6. heard' = heard
        BY <1>2, <2>9, <1>5 DEF Exchange
      <3>7. Said'
        BY <1>1, <3>1, <3>6 DEF HyprInv, Said
      <3>8. Awaited'
        BY <1>1, <2>9 DEF Awaited
      <3> QED
        BY <2>6, <2>7, <3>5, <3>7, <3>8 DEF HyprInv
    <2> QED
      BY <2>8, <2>9
  <1>6. CASE Head(requests) # Exchange
    <2>1. /\ sending.at \in {"releasing", "answered"} /\ Arrived
          /\ \E r \in Releases : requests = <<r>>
      BY <1>1, <1>6, QueuesAre
    <2>2. PICK r \in Releases : requests = <<r>>
      BY <2>1
    <2> DEFINE size == Cardinality(sending.release)
    <2>3. /\ size \in Nat
          /\ events \in [1..size -> [key : sending.release, state : {"up"}]]
          /\ {events[i].key : i \in DOMAIN events} = sending.release
          /\ r.for = "releasing"
      BY <1>4, <2>2, FS_CardinalityType DEF events, Releases, ReleaseEvents
    <2> HIDE DEF size
    <2>4. /\ held' \subseteq held /\ Downs(events, ok) = {}
          /\ (\A i \in DOMAIN ok : ok[i]) /\ held \subseteq sending.release => held' = {}
      BY <1>2, <1>4, <2>3, ReleasesOnly
    <2>5. typed' = typed
      BY <1>2, <1>4, <2>4, FS_EmptySet
    <2>6. requests' = <<>>
      BY <1>1, <2>2
    <2>7. HyprTyped'
      BY <1>1, <1>4, <2>4, <2>5 DEF HyprTyped
    <2>8. Arrived'
      BY <1>1, <2>1, <2>4, <2>5 DEF Arrived
    <2>9. Early' /\ Awaited' /\ Counted'
      BY <1>1, <2>1, <2>6, <2>8 DEF Early, Awaited, Counted
    <2>10. ASSUME sending.at = "releasing", ReleasedAll(heard[1])'
           PROVE  held' = {}
      <3>1. PICK n \in 0..size : heard' = <<SubSeq(ok, 1, n)>>
        BY <1>2, <2>2, <2>3, <2>10
      <3>2. ok \in Seq(BOOLEAN) /\ Len(ok) = size /\ DOMAIN ok = 1..size
        <4>1. DOMAIN events = 1..size
          BY <2>3
        <4>2. ok \in [1..size -> BOOLEAN]
          BY <1>2, <4>1
        <4> QED
          BY <2>3, <4>2
      <3>3. /\ Len(SubSeq(ok, 1, n)) = n
            /\ \A i \in 1..n : SubSeq(ok, 1, n)[i] = ok[i]
        BY <2>3, <3>1, <3>2
      <3>4. heard'[1] = SubSeq(ok, 1, n) /\ DOMAIN SubSeq(ok, 1, n) = 1..n
        BY <3>1, <3>2, <2>3
      <3>5. n = size /\ \A i \in 1..n : SubSeq(ok, 1, n)[i]
        BY <1>1, <2>10, <3>3, <3>4 DEF ReleasedAll, size
      <3> QED
        BY <2>1, <2>4, <1>2, <3>2, <3>3, <3>5 DEF Arrived
    <2>11. Said'
      <3>1. sending.at = "answered" => sending.said
        BY <1>1 DEF HyprInv, Said
      <3> QED
        BY <1>1, <2>6, <2>10, <3>1 DEF Said
    <2> QED
      BY <2>7, <2>9, <2>11 DEF HyprInv
  <1> QED
    BY <1>5, <1>6

(* What is done with a request whose outcome is known: the keys it may have left held   *)
(* are to be released.                                                                  *)
LEMMA ReleaseKeeps ==
    ASSUME HyprTyped, requests = <<>>,
           UNCHANGED <<presses, requests, held, typed>>,
           NEW keys \in SUBSET KeyPresses, IsFiniteSet(keys),
           NEW delivered \in Nat, NEW more \in Nat, Release(keys, delivered, more),
           held \subseteq keys, typed \in delivered..delivered + more
    PROVE  HyprInv'
  <1>1. /\ sending' \in [at : HyprSteps, delivered : Nat, more : Nat,
                         release : SUBSET KeyPresses, said : BOOLEAN]
        /\ sending'.at = IF keys = {} THEN "answered" ELSE "release"
        /\ sending'.delivered = delivered /\ sending'.more = more /\ sending'.release = keys
    BY DEF HyprTyped, Release, HyprSteps
  <1>2. HyprTyped'
    BY <1>1 DEF HyprTyped
  <1>3. Early' /\ Awaited' /\ Said'
    BY <1>1 DEF Early, Awaited, Said
  <1>4. Counted'
    BY <1>1 DEF Counted, Arrived
  <1> QED
    BY <1>2, <1>3, <1>4 DEF HyprInv

LEMMA ReadReplyKeeps ==
    ASSUME HyprInv, ReadReply
    PROVE  HyprInv'
  <1>1. /\ sending.at = "exchange" /\ heard # NoReply
        /\ presses' = presses /\ requests' = requests /\ heard' = heard
        /\ held' = held /\ typed' = typed
    BY DEF ReadReply
  <1>2. /\ HyprTyped /\ sending.delivered < Len(presses) /\ sending.more = 0
        /\ sending.release = {} /\ sending.delivered \in Nat
        /\ sending \in [at : HyprSteps, delivered : Nat, more : Nat,
                        release : SUBSET KeyPresses, said : BOOLEAN]
    BY <1>1 DEF HyprInv, Early, HyprTyped
  <1>3. PICK ok \in [1..2 * Len(Chunk) -> BOOLEAN], m \in 0..2 * Len(Chunk) :
           /\ requests = <<>> /\ heard = <<SubSeq(ok, 1, m)>>
           /\ typed = sending.delivered + Cardinality(Downs(DownUp(Chunk), ok))
           /\ held \subseteq After(DownUp(Chunk), ok, {})
    BY <1>1 DEF HyprInv, Awaited
  <1> DEFINE size == Len(Chunk)
             reply == heard[1]
             n == Accepted(reply)
             done == sending.delivered + n \div 2
  <1>4. /\ Chunk \in Seq(KeyPresses) /\ size \in Nat /\ size > 0
        /\ sending.delivered + size <= Len(presses)
        /\ HeldAfter(Chunk) \subseteq KeyPresses /\ HeldAfter(Chunk) # {}
        /\ IsFiniteSet(HeldAfter(Chunk))
    BY <1>2, ChunkIs, HyprAssumption
  <1>5. /\ reply = SubSeq(ok, 1, m) /\ reply \in Seq(BOOLEAN) /\ Len(reply) = m
        /\ \A i \in 1..m : reply[i] = ok[i]
    <2>1. reply = SubSeq(ok, 1, m)
      BY <1>3
    <2>2. 2 * size \in Nat /\ ok \in Seq(BOOLEAN) /\ Len(ok) = 2 * size
      BY <1>4
    <2> HIDE DEF reply, size
    <2> QED
      BY <1>4, <2>1, <2>2 DEF size
  <1>6. /\ n \in 0..m
        /\ \A i \in 1..n : reply[i]
    BY <1>5, AcceptedIs
  <1>7. held \subseteq HeldAfter(Chunk)
        /\ typed \in sending.delivered..sending.delivered + size
    BY SMTT(30), <1>2, <1>3, <1>4, SomeTookEffect
  <1>8. /\ ~Exact(reply) => Release(HeldAfter(Chunk), sending.delivered, size)
        /\ Exact(reply) /\ n < Len(reply) =>
             Release(IF n % 2 = 1 THEN {Chunk[(n + 1) \div 2]} ELSE {}, done, n % 2)
        /\ Exact(reply) /\ ~(n < Len(reply)) =>
             sending' = [sending EXCEPT !.delivered = done,
                            !.at = IF done = Len(presses) THEN "answered" ELSE "connect"]
    BY DEF ReadReply
  <1>9. ASSUME Exact(reply)
        PROVE  /\ m = 2 * size
               /\ held \subseteq IF n % 2 = 1 THEN {Chunk[(n + 1) \div 2]} ELSE {}
               /\ typed = sending.delivered + (n + 1) \div 2
    <2>1. m = 2 * size
      BY <1>5, <1>9 DEF Exact
    <2>2. \A i \in 1..m : i > n => ~reply[i]
      BY <1>5, <1>9 DEF Exact
    <2>3. \A i \in 1..m : reply[i] <=> i <= n
      <3> HIDE DEF n, reply
      <3> QED
        BY <1>4, <1>6, <2>1, <2>2
    <2>4. n \in 0..2 * Len(Chunk) /\ \A i \in 1..2 * Len(Chunk) : ok[i] <=> i <= n
      BY <2>1, <2>3, <1>5, <1>6
    <2> HIDE DEF n
    <2> QED
      BY <1>3, <1>4, <2>1, <2>4, FirstTookEffect
  <1> HIDE DEF n, reply, done, size
  <1>10. CASE ~Exact(reply)
    BY <1>1, <1>3, <1>4, <1>7, <1>8, <1>10, <1>2, ReleaseKeeps DEF size
  <1>11. CASE Exact(reply) /\ n < Len(reply)
    <2> DEFINE keys == IF n % 2 = 1 THEN {Chunk[(n + 1) \div 2]} ELSE {}
    <2>1. m = 2 * size /\ typed = sending.delivered + (n + 1) \div 2
          /\ held \subseteq keys
      BY <1>9, <1>11
    <2>2. n \in Nat /\ n < 2 * size
      BY <1>4, <1>5, <1>6, <1>11, <2>1
    <2>3. /\ n % 2 \in Nat /\ n \div 2 \in Nat
          /\ (n + 1) \div 2 = (n \div 2) + (n % 2)
      BY <2>2, Halves
    <2>4. done \in Nat /\ typed = done + (n % 2)
      BY <1>2, <2>1, <2>3 DEF done
    <2>5. keys \in SUBSET KeyPresses /\ IsFiniteSet(keys)
      <3>1. CASE n % 2 = 1
        <4>1. (n + 1) \div 2 \in 1..size
          BY <1>4, <2>2, <3>1
        <4>2. Chunk[(n + 1) \div 2] \in KeyPresses
          BY <1>4, <4>1 DEF size
        <4> QED
          BY <3>1, <4>2, FS_Singleton
      <3>2. CASE n % 2 # 1
        BY <3>2, FS_EmptySet
      <3> QED
        BY <3>1, <3>2
    <2>6. Release(keys, done, n % 2)
      BY <1>8, <1>11
    <2>7. typed \in done..done + (n % 2) /\ UNCHANGED <<presses, requests, held, typed>>
      BY <1>1, <2>3, <2>4
    <2> HIDE DEF keys
    <2> QED
      BY <1>2, <1>3, <2>1, <2>3, <2>4, <2>5, <2>6, <2>7, ReleaseKeeps
  <1>12. CASE Exact(reply) /\ ~(n < Len(reply))
    <2>1. n = 2 * size
      BY <1>4, <1>5, <1>6, <1>9, <1>12
    <2>2. n = 2 * size /\ done = sending.delivered + size /\ done \in Nat
      BY <1>2, <1>4, <2>1 DEF done
    <2>3. held = {} /\ typed = done
      <3>1. n % 2 = 0 /\ (n + 1) \div 2 = size
        BY <1>4, <2>1
      <3> QED
        BY <1>9, <1>12, <2>2, <3>1
    <2>4. sending' = [sending EXCEPT !.delivered = done,
                         !.at = IF done = Len(presses) THEN "answered" ELSE "connect"]
      BY <1>8, <1>12
    <2>5. /\ sending' \in [at : HyprSteps, delivered : Nat, more : Nat,
                           release : SUBSET KeyPresses, said : BOOLEAN]
          /\ sending'.at = IF done = Len(presses) THEN "answered" ELSE "connect"
          /\ sending'.delivered = done /\ sending'.more = 0 /\ sending'.release = {}
      BY <1>2, <2>2, <2>4 DEF HyprSteps
    <2>6. HyprTyped'
      BY <1>1, <1>2, <2>5, FS_EmptySet DEF HyprTyped
    <2>7. Early'
      BY <1>1, <1>3, <1>4, <2>2, <2>3, <2>5, <1>2, HyprAssumption DEF Early, HyprTyped
    <2>8. Awaited' /\ Said'
      BY <1>1, <1>3, <2>3, <2>5 DEF Awaited, Said
    <2>9. Counted'
      BY <1>1, <1>3, <2>2, <2>3, <2>5 DEF Counted, Arrived
    <2> QED
      BY <2>6, <2>7, <2>8, <2>9 DEF HyprInv
  <1> QED
    BY <1>10, <1>11, <1>12

LEMMA HyprInitInv == HyprInit => HyprInv
  <1> SUFFICES ASSUME HyprInit PROVE HyprInv
    OBVIOUS
  <1>1. Len(presses) \in Nat \ {0}
    <2>1. presses \in Seq(KeyPresses) /\ presses # <<>>
      BY HyprAssumption DEF HyprInit
    <2> QED
      BY <2>1
  <1>2. HyprTyped
    BY FS_EmptySet DEF HyprInit, HyprTyped, HyprSteps
  <1>3. Early /\ Awaited /\ Counted /\ Said
    BY <1>1 DEF HyprInit, Early, Awaited, Counted, Said
  <1> QED
    BY <1>2, <1>3 DEF HyprInv

LEMMA AppendToOne ==
    ASSUME NEW a, NEW b
    PROVE  Append(<<a>>, b) = <<a, b>>
  <1> DEFINE s == Append(<<a>>, b)
             t == <<a, b>>
             S == {a, b}
  <1>1. <<a>> \in Seq(S) /\ Len(<<a>>) = 1 /\ <<a>>[1] = a
    OBVIOUS
  <1>2. s \in Seq(S) /\ Len(s) = 2 /\ s[1] = a /\ s[2] = b
    BY <1>1
  <1>3. t \in Seq(S) /\ Len(t) = 2 /\ t[1] = a /\ t[2] = b
    OBVIOUS
  <1> HIDE DEF s, t, S
  <1>4. \A i \in 1..2 : s[i] = t[i]
    BY <1>2, <1>3
  <1>5. s = t
    BY <1>2, <1>3, <1>4, SeqEqual
  <1> QED
    BY <1>5 DEF s, t

LEMMA SendReleaseKeeps ==
    ASSUME HyprInv, SendRelease
    PROVE  HyprInv'
  <1>1. /\ sending.at = "release"
        /\ presses' = presses /\ held' = held /\ typed' = typed
    BY DEF SendRelease
  <1>2. /\ sending \in [at : HyprSteps, delivered : Nat, more : Nat,
                        release : SUBSET KeyPresses, said : BOOLEAN]
        /\ HyprTyped
        /\ \/ requests = <<Exchange>> /\ Unhandled
           \/ requests = <<>> /\ Arrived
    BY <1>1 DEF HyprInv, HyprTyped, Counted
  <1>3. CASE \E events \in ReleaseEvents : Sends(events, "releasing")
    <2>1. PICK events \in ReleaseEvents : Sends(events, "releasing")
      BY <1>3
    <2> DEFINE r == [events |-> events, for |-> "releasing"]
    <2>2. r \in Releases
      BY DEF Releases
    <2>3. /\ requests' = Append(requests, r) /\ heard' = NoReply
          /\ sending' = [sending EXCEPT !.at = "releasing"]
      BY <2>1 DEF Sends
    <2> HIDE DEF r
    <2>4. /\ sending' \in [at : HyprSteps, delivered : Nat, more : Nat,
                           release : SUBSET KeyPresses, said : BOOLEAN]
          /\ sending'.at = "releasing" /\ sending'.delivered = sending.delivered
          /\ sending'.more = sending.more /\ sending'.release = sending.release
      BY <1>2, <2>3 DEF HyprSteps
    <2>5. HyprTyped'
      BY <1>1, <1>2, <2>4 DEF HyprTyped
    <2>6. Early' /\ Awaited' /\ Said'
      BY <2>3, <2>4 DEF Early, Awaited, Said
    <2>7. Chunk' = Chunk /\ Exchange' = Exchange /\ Releases' = Releases
      BY <1>1, <2>4 DEF Chunk, Exchange, Releases, ReleaseEvents
    <2>8. Counted'
      <3>1. CASE requests = <<Exchange>> /\ Unhandled
        <4>1. requests' = <<Exchange, r>>
          BY <2>3, <3>1, AppendToOne, Zenon
        <4>2. Unhandled'
          BY <1>1, <2>4, <2>7, <3>1 DEF Unhandled
        <4> QED
          BY <2>2, <2>4, <2>7, <4>1, <4>2 DEF Counted
      <3>2. CASE requests = <<>> /\ Arrived
        <4>1. requests' = <<r>>
          BY <2>3, <3>2
        <4>2. Arrived'
          BY <1>1, <2>4, <3>2 DEF Arrived
        <4> QED
          BY <2>2, <2>4, <2>7, <4>1, <4>2 DEF Counted
      <3> QED
        BY <1>2, <3>1, <3>2
    <2> QED
      BY <2>5, <2>6, <2>8 DEF HyprInv
  <1>4. CASE /\ sending' = [sending EXCEPT !.at = "answered", !.said = TRUE]
             /\ UNCHANGED <<requests, heard>>
    <2>1. /\ sending' \in [at : HyprSteps, delivered : Nat, more : Nat,
                           release : SUBSET KeyPresses, said : BOOLEAN]
          /\ sending'.at = "answered" /\ sending'.delivered = sending.delivered
          /\ sending'.more = sending.more /\ sending'.release = sending.release
          /\ sending'.said
      BY <1>2, <1>4 DEF HyprSteps
    <2>2. HyprTyped'
      BY <1>1, <1>2, <2>1 DEF HyprTyped
    <2>3. Early' /\ Awaited' /\ Said'
      BY <2>1 DEF Early, Awaited, Said
    <2>4. Chunk' = Chunk /\ Exchange' = Exchange
      BY <1>1, <2>1 DEF Chunk, Exchange
    <2>5. Counted'
      BY <1>1, <1>2, <1>4, <2>1, <2>4 DEF Counted, Unhandled, Arrived
    <2> QED
      BY <2>2, <2>3, <2>5 DEF HyprInv
  <1> QED
    BY <1>3, <1>4 DEF SendRelease, ReleaseEvents

LEMMA ReadReleaseKeeps ==
    ASSUME HyprInv, ReadRelease
    PROVE  HyprInv'
  <1>1. /\ sending.at = "releasing"
        /\ presses' = presses /\ held' = held /\ typed' = typed /\ requests' = requests
        /\ sending' = [sending EXCEPT !.at = "answered",
                          !.said = heard = NoReply \/ ~ReleasedAll(heard[1])]
    BY DEF ReadRelease
  <1>2. /\ sending \in [at : HyprSteps, delivered : Nat, more : Nat,
                        release : SUBSET KeyPresses, said : BOOLEAN]
        /\ HyprTyped
    BY DEF HyprInv, HyprTyped
  <1> DEFINE unsure == heard = NoReply \/ ~ReleasedAll(heard[1])
  <1>3. unsure \in BOOLEAN
    BY DEF ReleasedAll
  <1> HIDE DEF unsure
  <1>4. sending' = [sending EXCEPT !.at = "answered", !.said = unsure]
    BY <1>1 DEF unsure
  <1>5. /\ sending' \in [at : HyprSteps, delivered : Nat, more : Nat,
                         release : SUBSET KeyPresses, said : BOOLEAN]
        /\ sending'.at = "answered" /\ sending'.delivered = sending.delivered
        /\ sending'.more = sending.more /\ sending'.release = sending.release
        /\ sending'.said = unsure
    BY <1>2, <1>3, <1>4 DEF HyprSteps
  <1>6. HyprTyped'
    BY <1>1, <1>2, <1>5 DEF HyprTyped
  <1>7. Early' /\ Awaited'
    BY <1>5 DEF Early, Awaited
  <1>8. Chunk' = Chunk /\ Exchange' = Exchange /\ Releases' = Releases
    BY <1>1, <1>5 DEF Chunk, Exchange, Releases, ReleaseEvents
  <1>9. Counted'
    BY <1>1, <1>5, <1>8 DEF HyprInv, Counted, Unhandled, Arrived
  <1>10. ~unsure => requests = <<>> /\ held = {}
    BY <1>1 DEF HyprInv, Said, unsure
  <1>11. Said'
    BY <1>1, <1>5, <1>10 DEF Said
  <1> QED
    BY <1>6, <1>7, <1>9, <1>11 DEF HyprInv

(* A call that sends nothing goes on, or ends with nothing delivered. *)
LEMMA OpeningKeeps ==
    ASSUME HyprInv, sending.at \in {"map", "connect"},
           UNCHANGED <<presses, requests, heard, held, typed>>,
           \/ sending' = [sending EXCEPT !.at = "connect"]
           \/ sending' = [sending EXCEPT !.at = "answered"]
    PROVE  HyprInv'
  <1>1. /\ HyprTyped /\ requests = <<>> /\ held = {} /\ typed = sending.delivered
        /\ sending \in [at : HyprSteps, delivered : Nat, more : Nat,
                        release : SUBSET KeyPresses, said : BOOLEAN]
        /\ sending.delivered < Len(presses) /\ sending.more = 0 /\ sending.release = {}
    BY DEF HyprInv, HyprTyped, Early
  <1>2. /\ sending' \in [at : HyprSteps, delivered : Nat, more : Nat,
                         release : SUBSET KeyPresses, said : BOOLEAN]
        /\ sending'.at \in {"connect", "answered"}
        /\ sending'.delivered = sending.delivered
        /\ sending'.more = 0 /\ sending'.release = {}
    BY <1>1 DEF HyprSteps
  <1>3. HyprTyped'
    BY <1>1, <1>2, FS_EmptySet DEF HyprTyped
  <1>4. Early'
    BY <1>1, <1>2 DEF Early
  <1>5. Awaited' /\ Said'
    BY <1>1, <1>2 DEF Awaited, Said
  <1>6. Counted'
    BY <1>1, <1>2 DEF Counted, Arrived
  <1> QED
    BY <1>3, <1>4, <1>5, <1>6 DEF HyprInv

LEMMA HyprStep == HyprInv /\ [HyprNext]_hyprVars => HyprInv'
  <1> SUFFICES ASSUME HyprInv, [HyprNext]_hyprVars PROVE HyprInv'
    OBVIOUS
  <1>1. CASE Handle
    BY <1>1, HandleKeeps
  <1>2. CASE WindowCloses
    <2>1. /\ UNCHANGED <<presses, sending, requests, heard, typed>> /\ held' = {}
      BY <1>2 DEF WindowCloses
    <2>2. Chunk' = Chunk /\ Exchange' = Exchange /\ Releases' = Releases
      BY <2>1 DEF Chunk, Exchange, Releases, ReleaseEvents
    <2>3. HyprTyped' /\ Early' /\ Said'
      BY <2>1 DEF HyprInv, HyprTyped, Early, Said
    <2>4. Awaited'
      BY <2>1, <2>2 DEF HyprInv, Awaited
    <2>5. Counted'
      BY <2>1, <2>2 DEF HyprInv, Counted, Unhandled, Arrived
    <2> QED
      BY <2>3, <2>4, <2>5 DEF HyprInv
  <1>3. CASE MapPresses
    <2>1. /\ sending.at = "map" /\ UNCHANGED <<presses, requests, heard, held, typed>>
          /\ \/ sending' = [sending EXCEPT !.at = "connect"]
             \/ sending' = [sending EXCEPT !.at = "answered"]
      BY <1>3 DEF MapPresses
    <2> QED
      BY <2>1, OpeningKeeps
  <1>4. CASE Connect
    <2>1. /\ sending.at = "connect" /\ UNCHANGED <<presses, held, typed>>
      BY <1>4 DEF Connect
    <2>2. CASE Sends(DownUp(Chunk), "exchange")
      <3>1. /\ requests = <<>> /\ held = {} /\ typed = sending.delivered
            /\ sending.delivered < Len(presses) /\ HyprTyped
            /\ sending \in [at : HyprSteps, delivered : Nat, more : Nat,
                            release : SUBSET KeyPresses, said : BOOLEAN]
            /\ sending.more = 0 /\ sending.release = {}
        BY <2>1 DEF HyprInv, Early, HyprTyped
      <3>2. /\ requests' = <<Exchange>> /\ heard' = NoReply
            /\ sending' = [sending EXCEPT !.at = "exchange"]
        BY <2>2, <3>1 DEF Sends, Exchange
      <3>3. /\ sending' \in [at : HyprSteps, delivered : Nat, more : Nat,
                             release : SUBSET KeyPresses, said : BOOLEAN]
            /\ sending'.at = "exchange" /\ sending'.delivered = sending.delivered
            /\ sending'.more = 0 /\ sending'.release = {}
        BY <3>1, <3>2 DEF HyprSteps
      <3>4. Exchange' = Exchange
        BY <2>1, <3>3 DEF Exchange, Chunk
      <3>5. HyprTyped' /\ Early'
        BY <2>1, <3>1, <3>3, FS_EmptySet DEF HyprTyped, Early
      <3>6. Awaited'
        BY <2>1, <3>1, <3>2, <3>3, <3>4 DEF Awaited
      <3>7. Counted' /\ Said'
        BY <3>3 DEF Counted, Said
      <3> QED
        BY <3>5, <3>6, <3>7 DEF HyprInv
    <2>3. CASE sending' = [sending EXCEPT !.at = "answered"] /\ UNCHANGED <<requests, heard>>
      BY <2>1, <2>3, OpeningKeeps
    <2> QED
      BY <1>4, <2>2, <2>3 DEF Connect
  <1>5. CASE ExchangeFails
    <2>1. /\ sending.at = "exchange" /\ heard = NoReply
          /\ UNCHANGED <<presses, requests, heard, held, typed>>
          /\ Release(HeldAfter(Chunk), sending.delivered, Len(Chunk))
      BY <1>5 DEF ExchangeFails
    <2>2. /\ HyprTyped /\ sending.delivered < Len(presses)
          /\ sending \in [at : HyprSteps, delivered : Nat, more : Nat,
                          release : SUBSET KeyPresses, said : BOOLEAN]
      BY <2>1 DEF HyprInv, Early, HyprTyped
    <2>3. requests = <<Exchange>> /\ held = {} /\ typed = sending.delivered
      BY <2>1 DEF HyprInv, Awaited, NoReply
    <2>4. /\ Len(Chunk) \in Nat /\ HeldAfter(Chunk) \in SUBSET KeyPresses
          /\ HeldAfter(Chunk) # {} /\ IsFiniteSet(HeldAfter(Chunk))
      BY <2>2, ChunkIs, HyprAssumption
    <2>5. /\ sending' \in [at : HyprSteps, delivered : Nat, more : Nat,
                           release : SUBSET KeyPresses, said : BOOLEAN]
          /\ sending'.at = "release" /\ sending'.delivered = sending.delivered
          /\ sending'.more = Len(Chunk) /\ sending'.release = HeldAfter(Chunk)
      BY <2>1, <2>2, <2>4 DEF Release, HyprSteps
    <2>6. HyprTyped' /\ Early' /\ Awaited' /\ Said'
      BY <2>1, <2>2, <2>4, <2>5 DEF HyprTyped, Early, Awaited, Said
    <2>7. Chunk' = Chunk /\ Exchange' = Exchange
      BY <2>1, <2>5 DEF Chunk, Exchange
    <2>8. Unhandled' /\ requests' = <<Exchange>>
      BY <2>1, <2>2, <2>3, <2>5, <2>7 DEF Unhandled
    <2>9. Counted'
      BY <2>7, <2>8 DEF Counted
    <2> QED
      BY <2>6, <2>9 DEF HyprInv
  <1>6. CASE ReadReply
    BY <1>6, ReadReplyKeeps
  <1>7. CASE SendRelease
    BY <1>7, SendReleaseKeeps
  <1>8. CASE ReadRelease
    BY <1>8, ReadReleaseKeeps
  <1>9. CASE UNCHANGED hyprVars
    <2>1. UNCHANGED <<presses, sending, requests, heard, held, typed>>
      BY <1>9 DEF hyprVars
    <2>2. Chunk' = Chunk /\ Exchange' = Exchange /\ Releases' = Releases
      BY <2>1 DEF Chunk, Exchange, Releases, ReleaseEvents
    <2>3. HyprTyped' /\ Early' /\ Said'
      BY <2>1 DEF HyprInv, HyprTyped, Early, Said, ReleasedAll
    <2>4. Awaited' /\ Counted'
      BY <2>1, <2>2 DEF HyprInv, Awaited, Counted, Unhandled, Arrived
    <2> QED
      BY <2>3, <2>4 DEF HyprInv
  <1> QED
    BY <1>1, <1>2, <1>3, <1>4, <1>5, <1>6, <1>7, <1>8, <1>9 DEF HyprNext

(* HyprAnswerIsTrue for any texts, chunks, replies and delays (send_key_events and      *)
(* release_held_keys of hyprland_input.rs): the keys that may be down are told, and the *)
(* presses that reached the window are between the two numbers of the answer.           *)
THEOREM HyprAnswersTruly == HyprSpec => []HyprAnswerIsTrue
  <1>1. HyprInv => HyprAnswerIsTrue
    <2> SUFFICES ASSUME HyprInv, sending.at = "answered", requests = <<>>
                 PROVE  /\ held # {} => sending.said
                        /\ typed \in sending.delivered..sending.delivered + sending.more
      BY DEF HyprAnswerIsTrue
    <2>1. Arrived
      BY DEF HyprInv, Counted
    <2> QED
      BY <2>1 DEF HyprInv, Said, Arrived
  <1> QED
    BY <1>1, HyprInitInv, HyprStep, PTL DEF HyprSpec

(***************************************************************************)
(* IpcWindows, for any sessions, windows and displays.                     *)
(*                                                                         *)
(* What a request selects is the window that was listed or, of ids that    *)
(* come again, a later one once that window has closed: while it is open   *)
(* it has the id of the call (HasId), and no other open one does.  Of the  *)
(* other ids, one that is selected was counted before the listing          *)
(* (IdWasGiven) and one that is counted later is greater; the two kinds    *)
(* are on either side of ContainerBase.  The session is the same because   *)
(* one that ends does not come back (NamesAreNew).                         *)
(***************************************************************************)
WindowType == [born : 1..MaxBorn, x11 : 0..MaxBorn, con : 1..MaxBorn]
AskType == [at : {"idle", "listed", "second", "done"}, session : Sessions \cup {NoSession},
            window : Nat, id : Nat, answer : {"none", "ok", "failed"}]

IpcTyped ==
    /\ kind \in Ipc /\ socketVar \in Sessions \cup {NoSession}
    /\ sockets \in Seq(Sessions) /\ live \subseteq Sessions
    /\ windows \in [Sessions -> SUBSET WindowType]
    /\ counted \in [Sessions -> Nat]
    /\ born \in 0..MaxBorn /\ over \subseteq Sessions
    /\ ask \in AskType

\* A session that has ended does not come back, and a socket is of one that has started.
NamesAreNew == live \cap over = {} /\ SocketFiles \subseteq live \cup over

\* The ids of the windows of a session that are open differ.
X11Ids(s) ==
    /\ \A w \in windows[s] : w.born <= born /\ (kind = "i3" => w.x11 # 0)
    /\ \A v, w \in windows[s] : v.x11 # 0 /\ v.x11 = w.x11 => v = w
    /\ \A v, w \in windows[s] : v.born = w.born => v = w
ContainerIds(s) ==
    /\ counted[s] <= born
    /\ kind \in {"niri", "sway"} => \A w \in windows[s] : w.con <= counted[s]
    /\ kind # "i3" => \A v, w \in windows[s] : v.con = w.con => v = w

\* The id of the call was given before now; the window listed has it while it is open, and
\* what it selects is that window or a later one.
IdWasGiven(s) ==
    /\ ask.window <= born
    /\ kind = "niri" => ask.id <= counted[s]
    /\ kind \in {"i3", "sway"} =>
        \/ ask.id \in 1..MaxBorn
        \/ kind = "sway" /\ ask.id >= ContainerBase /\ ask.id <= ContainerBase + counted[s]
HasId(s) == \A w \in windows[s] : w.born = ask.window => Selects(w, ask.id)
IdIsMeant(s) == HasId(s) /\ \A w \in windows[s] : Selects(w, ask.id) => IsMeant(s, w.born)

Asked ==
    IF ask.at = "idle" THEN ask = NoAsk /\ raised = {}
    ELSE /\ ask.session \in live \cup over
         /\ kind \in {"niri", "hyprland"} /\ socketVar # NoSession => ask.session = socketVar
         /\ IdWasGiven(ask.session) /\ IdIsMeant(ask.session)
         /\ ask.at # "done" => ask.answer = "none"

IpcInv ==
    /\ IpcTyped /\ NamesAreNew /\ Asked /\ FocusesWhatWasListed
    /\ \A s \in Sessions : X11Ids(s) /\ ContainerIds(s)

LEMMA SessionIs ==
    /\ kind = "niri" => SessionNow = NiriSession
    /\ kind \in {"i3", "sway"} => SessionNow = I3Session
    /\ kind = "hyprland" => SessionNow = HyprSession
<1>1. CASE kind = "niri" BY <1>1, Zenon DEF SessionNow
<1>2. CASE kind \in {"i3", "sway"} BY <1>2, Zenon DEF SessionNow
<1>3. CASE kind = "hyprland" BY <1>3, Zenon DEF SessionNow
<1> QED BY <1>1, <1>2, <1>3

\* A request goes to the session that is named, if it runs.
LEMMA GoesToNamed ==
    ASSUME IpcInv, SessionNow \in live, ask.at # "idle"
    PROVE  /\ SessionNow \in Sessions
           /\ SessionIsNamed => SessionNow = ask.session
<1>1. SessionNow \in Sessions /\ SessionNow # NoSession
  BY IpcAssumption DEF IpcInv, IpcTyped
<1>2. CASE kind = "niri" /\ socketVar # NoSession
  BY <1>1, <1>2, SessionIs DEF NiriSession, IpcInv, Asked
<1>3. CASE kind \in {"i3", "sway"} /\ socketVar = ask.session /\ socketVar \in SocketFiles
  BY <1>1, <1>3, SessionIs DEF I3Session
<1>4. CASE kind = "hyprland" /\ socketVar # NoSession
  BY <1>1, <1>4, SessionIs DEF HyprSession, IpcInv, Asked
<1> QED BY <1>1, <1>2, <1>3, <1>4 DEF SessionIsNamed

LEMMA FocusIsMeant ==
    ASSUME IpcInv, SessionNow \in live, ask.at # "idle", Focuses
    PROVE  /\ SessionIsNamed => \A r \in raised' : IsMeant(r[1], r[2])
           /\ raised # {} => raised' # {}
           /\ Selected(SessionNow, ask.id) # {} => raised' # {}
<1>1. SessionIsNamed =>
        \A w \in Selected(SessionNow, ask.id) : IsMeant(SessionNow, w.born)
  BY GoesToNamed DEF Selected, IpcInv, Asked, IdIsMeant
<1>2. raised' = raised \cup {<<SessionNow, w.born>> : w \in Selected(SessionNow, ask.id)}
  BY DEF Focuses
<1>3. SessionIsNamed => \A r \in raised : IsMeant(r[1], r[2])
  BY DEF IpcInv, FocusesWhatWasListed
<1>4. SessionIsNamed => \A r \in raised' : IsMeant(r[1], r[2])
  <2> SUFFICES ASSUME SessionIsNamed, NEW r \in raised' PROVE IsMeant(r[1], r[2])
    OBVIOUS
  <2>1. CASE r \in raised BY <1>3, <2>1
  <2>2. ASSUME NEW w \in Selected(SessionNow, ask.id), r = <<SessionNow, w.born>>
        PROVE  IsMeant(r[1], r[2])
    <3>1. r[1] = SessionNow /\ r[2] = w.born BY <2>2
    <3> QED BY <1>1, <3>1
  <2> QED BY <1>2, <2>1, <2>2
<1>5. ASSUME NEW w \in Selected(SessionNow, ask.id) PROVE <<SessionNow, w.born>> \in raised'
  BY <1>2
<1> QED BY <1>2, <1>4, <1>5, Zenon

\* What a step of a call leaves alone.
LEMMA CallKeeps ==
    ASSUME IpcInv, UNCHANGED ipcSessionVars, ask.at # "idle", ask'.at # "idle", ask' \in AskType,
           ask'.session = ask.session, ask'.window = ask.window, ask'.id = ask.id,
           ask'.at # "done" => ask'.answer = "none",
           SessionIsNamed => \A r \in raised' : IsMeant(r[1], r[2]),
           ask'.answer = "ok" /\ kind # "niri" => raised' # {}
    PROVE  IpcInv'
<1> USE DEF IpcInv, ipcSessionVars
<1>1. IpcTyped' BY DEF IpcTyped
<1>2. NamesAreNew' BY DEF NamesAreNew, SocketFiles
<1>3. Asked'
  <2>1. /\ ask.session \in live \cup over
        /\ kind \in {"niri", "hyprland"} /\ socketVar # NoSession => ask.session = socketVar
        /\ IdWasGiven(ask.session) /\ IdIsMeant(ask.session)
    BY DEF Asked
  <2>2. (IdWasGiven(ask.session) /\ IdIsMeant(ask.session))'
    BY <2>1 DEF IdWasGiven, IdIsMeant, Selects, HasId, IsMeant, IdComesAgain, Open
  <2> QED BY <2>1, <2>2 DEF Asked
<1>4. SessionIsNamed' => SessionIsNamed BY DEF SessionIsNamed, SocketFiles
<1>5. FocusesWhatWasListed' BY <1>4 DEF FocusesWhatWasListed, IsMeant, IdComesAgain, Open
<1>6. \A s \in Sessions : (X11Ids(s) /\ ContainerIds(s))' BY DEF X11Ids, ContainerIds
<1> QED BY <1>1, <1>2, <1>3, <1>5, <1>6

LEMMA FocusLostKeeps == ASSUME IpcInv, FocusLost PROVE IpcInv'
<1>1. ask \in AskType /\ ask.at \in {"listed", "second"} /\ ask.answer = "none"
  BY DEF FocusLost, IpcInv, IpcTyped, Asked
<1>2. \/ ask' = [ask EXCEPT !.at = "second"]
      \/ ask' = [ask EXCEPT !.at = "done", !.answer = "failed"]
  BY DEF FocusLost, IpcDone
<1>3. /\ ask' \in AskType /\ ask'.at # "idle" /\ ask'.session = ask.session
      /\ ask'.window = ask.window /\ ask'.id = ask.id
      /\ ask'.at # "done" => ask'.answer = "none"
      /\ ask'.answer # "ok"
  BY <1>1, <1>2 DEF AskType
<1>4. SessionIsNamed => \A r \in raised' : IsMeant(r[1], r[2])
  BY <1>1, FocusIsMeant DEF FocusLost, IpcInv, FocusesWhatWasListed
<1> QED BY <1>1, <1>3, <1>4, CallKeeps DEF FocusLost

LEMMA FocusRepliedKeeps == ASSUME IpcInv, FocusReplied PROVE IpcInv'
<1>1. ask \in AskType /\ ask.at \in {"listed", "second"} /\ ask.answer = "none"
  BY DEF FocusReplied, IpcInv, IpcTyped, Asked
<1>2. \/ Focuses /\ Accepts /\ ask' = [ask EXCEPT !.at = "done", !.answer = "ok"]
      \/ /\ UNCHANGED raised
         /\ \/ ask' = [ask EXCEPT !.at = "second"]
            \/ ask' = [ask EXCEPT !.at = "done", !.answer = "failed"]
  BY DEF FocusReplied, IpcDone
<1>3. /\ ask' \in AskType /\ ask'.at # "idle" /\ ask'.session = ask.session
      /\ ask'.window = ask.window /\ ask'.id = ask.id
      /\ ask'.at # "done" => ask'.answer = "none"
      /\ ask'.answer = "ok" => Focuses /\ Accepts
  BY ZenonT(60), <1>1, <1>2 DEF AskType
<1>4. SessionIsNamed => \A r \in raised' : IsMeant(r[1], r[2])
  BY <1>1, <1>2, FocusIsMeant DEF FocusReplied, IpcInv, FocusesWhatWasListed
<1>5. Focuses /\ Accepts /\ kind # "niri" => raised' # {}
  BY <1>1, FocusIsMeant DEF FocusReplied, Accepts
<1> QED BY <1>1, <1>3, <1>4, <1>5, CallKeeps DEF FocusReplied

LEMMA IpcListKeeps == ASSUME IpcInv, IpcList PROVE IpcInv'
<1> USE DEF IpcInv
<1>1. PICK w \in windows[SessionNow] :
        ask' = [ask EXCEPT !.at = "listed", !.session = SessionNow, !.window = w.born,
                           !.id = IdOfWindow(w)]
  BY DEF IpcList
<1>0. PICK s : s = SessionNow OBVIOUS
<1>2. /\ ask = NoAsk /\ raised = {} /\ raised' = {} /\ UNCHANGED ipcSessionVars
      /\ s \in live /\ s \in Sessions /\ w \in windows[s] /\ w \in WindowType
      /\ s # NoSession
  BY <1>0, <1>1, IpcAssumption DEF IpcList, Asked, IpcTyped
<1>3. IdOfWindow(w) \in Nat BY <1>2, IpcAssumption DEF IdOfWindow, WindowType
<1>4. /\ ask' \in AskType /\ ask'.at = "listed" /\ ask'.session = s /\ ask'.window = w.born
      /\ ask'.id = IdOfWindow(w) /\ ask'.answer = "none"
  <2>1. ask = [at |-> "idle", session |-> NoSession, window |-> 0, id |-> 0, answer |-> "none"]
    BY <1>2 DEF NoAsk
  <2>2. w.born \in Nat BY <1>2 DEF WindowType
  <2>3. ask' = [at |-> "listed", session |-> s, window |-> w.born, id |-> IdOfWindow(w),
                answer |-> "none"]
    BY <1>0, <1>1, <2>1
  <2> QED BY <1>2, <1>3, <2>2, <2>3 DEF AskType
<1>5. IpcTyped' BY <1>2, <1>4 DEF IpcTyped, ipcSessionVars
<1>6. NamesAreNew' BY <1>2 DEF NamesAreNew, SocketFiles, ipcSessionVars
<1>7. kind \in {"niri", "hyprland"} /\ socketVar # NoSession => s = socketVar
  BY <1>0, <1>2, SessionIs DEF NiriSession, HyprSession
<1>8. X11Ids(s) /\ ContainerIds(s) BY <1>2
<1>9. /\ windows[s] \subseteq WindowType /\ counted[s] \in Nat
      /\ born \in Nat /\ born <= MaxBorn
  BY <1>2, IpcAssumption DEF IpcTyped
<1>10. IdWasGiven(s)' /\ IdIsMeant(s)'
  <2>0. ask'.window <= born' BY <1>2, <1>4, <1>8 DEF X11Ids, ipcSessionVars
  <2>1. CASE kind \in {"niri", "hyprland"}
    <3>1. ask'.id = w.con BY <1>4, <2>1 DEF IdOfWindow
    <3>2. IdWasGiven(s)'
      BY <1>2, <1>8, <2>0, <2>1, <3>1 DEF IdWasGiven, ContainerIds, ipcSessionVars
    <3>3. \A v \in windows[s] : Selects(v, ask.id)' <=> v = w
      BY <1>2, <1>8, <2>1, <3>1 DEF Selects, ContainerIds, ipcSessionVars
    <3> QED BY <1>2, <1>4, <1>8, <3>2, <3>3 DEF IdIsMeant, HasId, IsMeant, X11Ids, ipcSessionVars
  <2>2. CASE kind \in {"i3", "sway"} /\ w.x11 # 0
    <3>1. ask'.id = w.x11 /\ w.x11 \in 1..MaxBorn /\ ~(w.x11 >= ContainerBase)
      BY <1>2, <1>4, <2>2, IpcAssumption DEF IdOfWindow, WindowType
    <3>2. IdWasGiven(s)' BY <1>2, <2>0, <2>2, <3>1 DEF IdWasGiven, ipcSessionVars
    <3>3. \A v \in windows[s] : v.x11 = w.x11 => v = w
      BY <1>2, <1>8, <2>2 DEF X11Ids
    <3>4. \A v \in windows[s] : Selects(v, ask.id)' <=> v = w
      BY <1>2, <2>2, <3>1, <3>3 DEF Selects, ipcSessionVars
    <3> QED BY <1>2, <1>4, <1>8, <3>2, <3>4 DEF IdIsMeant, HasId, IsMeant, X11Ids, ipcSessionVars
  <2>3. CASE kind \in {"i3", "sway"} /\ w.x11 = 0
    <3>1. kind = "sway" BY <1>2, <1>8, <2>3 DEF X11Ids
    <3>2. ask'.id = ContainerBase + w.con BY <1>4, <2>3 DEF IdOfWindow
    <3>3. w.con <= counted[s] /\ w.con \in Nat
      BY <1>2, <1>8, <1>9, <3>1 DEF ContainerIds, WindowType
    <3>4. IdWasGiven(s)'
      BY <1>2, <1>9, <2>0, <3>1, <3>2, <3>3, IpcAssumption DEF IdWasGiven, ipcSessionVars
    <3>5. ask'.id >= ContainerBase /\ ask'.id - ContainerBase = w.con
      BY <3>2, <3>3, IpcAssumption
    <3>6. \A v \in windows[s] : v.con = w.con => v = w
      BY <1>2, <1>8, <3>1 DEF ContainerIds
    <3>7. \A v \in windows[s] : Selects(v, ask.id)' <=> v = w
      BY <1>2, <3>1, <3>5, <3>6 DEF Selects, ipcSessionVars
    <3> QED BY <1>2, <1>4, <1>8, <3>4, <3>7 DEF IdIsMeant, HasId, IsMeant, X11Ids, ipcSessionVars
  <2> QED BY <2>1, <2>2, <2>3 DEF IpcTyped, Ipc
<1>11. Asked' BY <1>2, <1>4, <1>7, <1>10 DEF Asked, ipcSessionVars
<1>12. FocusesWhatWasListed' BY <1>2, <1>4 DEF FocusesWhatWasListed
<1>13. \A t \in Sessions : (X11Ids(t) /\ ContainerIds(t))'
  BY <1>2 DEF X11Ids, ContainerIds, ipcSessionVars
<1> QED BY <1>5, <1>6, <1>11, <1>12, <1>13

LEMMA WindowOpensKeeps == ASSUME IpcInv, NEW s \in Sessions, WindowOpens(s) PROVE IpcInv'
<1> USE DEF IpcInv
<1>1. PICK x11 \in 0..MaxBorn, c \in 1..MaxBorn :
        /\ kind \in {"niri", "hyprland"} => x11 = 0
        /\ kind = "i3" => x11 # 0 /\ c = 1
        /\ \A w \in windows[s] : x11 = 0 \/ w.x11 # x11
        /\ kind = "hyprland" => \A w \in windows[s] : w.con # c
        /\ kind \in {"niri", "sway"} => c = counted[s] + 1
        /\ counted' = [counted EXCEPT ![s] = @ + 1]
        /\ windows' = [windows EXCEPT ![s] = @ \cup {[born |-> born', x11 |-> x11, con |-> c]}]
  BY DEF WindowOpens
<1>2. /\ s \in live /\ born < MaxBorn /\ born' = born + 1 /\ born \in Nat
      /\ UNCHANGED <<kind, socketVar, live, sockets, over, turns, ask, raised>>
  BY IpcAssumption DEF WindowOpens, IpcTyped
<1>3. counted[s] \in Nat /\ counted[s] <= born
  BY DEF IpcTyped, ContainerIds
<1>4. /\ counted' \in [Sessions -> Nat] /\ counted'[s] = counted[s] + 1
      /\ \A t \in Sessions : t # s => counted'[t] = counted[t]
  BY <1>1, <1>3 DEF IpcTyped
<1>5. PICK n : n = [born |-> born + 1, x11 |-> x11, con |-> c]
  OBVIOUS
<1>6. n \in WindowType BY <1>2, <1>5, IpcAssumption DEF WindowType
<1>7. /\ windows'[s] = windows[s] \cup {n}
      /\ \A t \in Sessions : t # s => windows'[t] = windows[t]
      /\ windows' \in [Sessions -> SUBSET WindowType]
  BY <1>1, <1>2, <1>5, <1>6 DEF IpcTyped
<1>8. IpcTyped' BY <1>2, <1>4, <1>7, IpcAssumption DEF IpcTyped
<1>9. NamesAreNew' BY <1>2 DEF NamesAreNew, SocketFiles
<1>10. (X11Ids(s) /\ ContainerIds(s))'
  <2>1. X11Ids(s) /\ ContainerIds(s) /\ windows[s] \subseteq WindowType BY DEF IpcTyped
  <2>2. X11Ids(s)'
    <3>1. \A w \in windows[s] : w.x11 \in Nat /\ w.born \in Nat /\ w.born <= born
      BY <2>1 DEF X11Ids, WindowType
    <3>2. /\ n.x11 = x11 /\ n.born = born + 1 /\ (kind = "i3" => n.x11 # 0)
          /\ \A w \in windows[s] : n.x11 = 0 \/ w.x11 # n.x11
      BY <1>1, <1>5
    <3>3. \A w \in windows'[s] : w.born <= born' /\ (kind = "i3" => w.x11 # 0)
      BY <1>2, <1>7, <2>1, <3>1, <3>2 DEF X11Ids
    <3>4. \A v, w \in windows'[s] : v.x11 # 0 /\ v.x11 = w.x11 => v = w
      BY <1>7, <2>1, <3>1, <3>2 DEF X11Ids
    <3>5. \A v, w \in windows'[s] : v.born = w.born => v = w
      BY <1>2, <1>7, <2>1, <3>1, <3>2 DEF X11Ids
    <3> QED BY <1>2, <3>3, <3>4, <3>5 DEF X11Ids
  <2>3. ContainerIds(s)'
    <3>1. \A w \in windows[s] : w.con \in Nat /\ (kind \in {"niri", "sway"} => w.con <= counted[s])
      BY <2>1 DEF ContainerIds, WindowType
    <3>2. n.con = c /\ (kind \in {"niri", "sway"} => n.con = counted[s] + 1) BY <1>1, <1>5
    <3>3. kind \in {"niri", "sway"} => \A w \in windows'[s] : w.con <= counted'[s]
      BY <1>3, <1>4, <1>7, <3>1, <3>2
    <3>4. kind # "i3" => \A w \in windows[s] : w.con # n.con
      BY <1>1, <1>3, <3>1, <3>2 DEF IpcTyped, Ipc
    <3>5. kind # "i3" => \A v, w \in windows'[s] : v.con = w.con => v = w
      BY <1>7, <2>1, <3>4 DEF ContainerIds
    <3> QED BY <1>2, <1>3, <1>4, <3>3, <3>5 DEF ContainerIds
  <2> QED BY <2>2, <2>3
<1>11. \A t \in Sessions : t # s => (X11Ids(t) /\ ContainerIds(t))'
  <2> SUFFICES ASSUME NEW t \in Sessions, t # s PROVE (X11Ids(t) /\ ContainerIds(t))'
    OBVIOUS
  <2>1. /\ windows'[t] = windows[t] /\ counted'[t] = counted[t] /\ kind' = kind
        /\ counted[t] \in Nat /\ windows[t] \subseteq WindowType
    BY <1>2, <1>4, <1>7 DEF IpcTyped
  <2>2. \A w \in windows[t] : w.born \in Nat BY <2>1 DEF WindowType
  <2> QED BY <1>2, <2>1, <2>2 DEF X11Ids, ContainerIds
<1>14. ASSUME ask.at # "idle" PROVE UNCHANGED Open(ask.session, ask.window)
  <2>1. IdWasGiven(ask.session) BY <1>14 DEF Asked
  <2>2. n.born # ask.window
    BY <1>2, <1>5, <2>1 DEF IdWasGiven, IpcTyped, AskType
  <2>3. CASE ask.session = s BY <1>2, <1>7, <2>2, <2>3 DEF Open
  <2>4. CASE ask.session # s /\ ask.session \in Sessions BY <1>2, <1>7, <2>4 DEF Open
  <2>5. ask.session \in Sessions BY <1>14 DEF Asked, IpcTyped
  <2> QED BY <2>3, <2>4, <2>5
<1>12. Asked'
  <2>1. CASE ask.at = "idle" BY <1>2, <2>1 DEF Asked
  <2>2. CASE ask.at # "idle"
    <3>1. /\ ask.session \in live \cup over
          /\ kind \in {"niri", "hyprland"} /\ socketVar # NoSession => ask.session = socketVar
          /\ IdWasGiven(ask.session) /\ IdIsMeant(ask.session)
          /\ ask.at # "done" => ask.answer = "none"
      BY <2>2 DEF Asked
    <3>0. \A m : IsMeant(ask.session, m)' <=> IsMeant(ask.session, m)
      BY <1>2, <1>14, <2>2 DEF IsMeant, IdComesAgain
    <3>2. ASSUME ask.session # s
          PROVE  (IdWasGiven(ask.session) /\ IdIsMeant(ask.session))'
      <4>1. windows'[ask.session] = windows[ask.session] /\ counted'[ask.session] = counted[ask.session]
        BY <1>4, <1>7, <3>1, <3>2 DEF IpcTyped
      <4>2. ask.window \in Nat BY DEF IpcTyped, AskType
      <4> QED BY <1>2, <3>0, <3>1, <3>2, <4>1, <4>2 DEF IdWasGiven, IdIsMeant, HasId, Selects
    <3>3. ASSUME ask.session = s
          PROVE  (IdWasGiven(ask.session) /\ IdIsMeant(ask.session))'
      <4>1. /\ ask.id \in Nat /\ ask.window \in Nat /\ IdWasGiven(s) /\ IdIsMeant(s)
            /\ kind \in {"niri", "i3", "sway", "hyprland"} /\ born <= MaxBorn
        BY <3>1, <3>3 DEF IpcTyped, AskType, Ipc
      <4>2. n.born = born + 1 /\ ask.window <= born BY <1>5, <4>1 DEF IdWasGiven
      <4>3. ASSUME Selects(n, ask.id) PROVE IsMeant(s, n.born)
        <5>1. IdComesAgain
          BY <1>1, <1>2, <1>3, <1>5, <4>1, <4>3, IpcAssumption DEF Selects, IdWasGiven, IdComesAgain
        <5>2. \A w \in windows[s] : ~Selects(w, ask.id)
          BY <1>1, <1>5, <4>1, <4>3, <5>1, IpcAssumption DEF Selects, IdComesAgain, IdWasGiven
        <5>3. ~Open(s, ask.window) BY <4>1, <5>2 DEF Open, IdIsMeant, HasId
        <5>4. n.born > ask.window BY <1>2, <4>1, <4>2
        <5> QED BY <3>3, <5>1, <5>3, <5>4 DEF IsMeant
      <4>4. HasId(s)'
        <5>1. n.born # ask.window BY <1>2, <4>1, <4>2
        <5> QED BY <1>2, <1>7, <4>1, <5>1 DEF HasId, IdIsMeant, Selects
      <4>5. \A w \in windows'[s] : Selects(w, ask.id) => IsMeant(s, w.born)
        BY <1>7, <4>1, <4>3 DEF IdIsMeant
      <4>6. IdIsMeant(s)' BY <1>2, <3>0, <3>3, <4>4, <4>5 DEF IdIsMeant, Selects
      <4>7. IdWasGiven(s)' BY <1>2, <1>3, <1>4, <4>1, <4>2, IpcAssumption DEF IdWasGiven
      <4> QED BY <1>2, <3>3, <4>6, <4>7
    <3> QED BY <1>2, <2>2, <3>1, <3>2, <3>3 DEF Asked
  <2> QED BY <2>1, <2>2
<1>13. FocusesWhatWasListed'
  <2>1. CASE ask.at = "idle"
    BY <1>2, <2>1 DEF Asked, FocusesWhatWasListed, NoAsk
  <2>2. CASE ask.at # "idle"
    <3>1. \A t, m : IsMeant(t, m)' <=> IsMeant(t, m)
      BY <1>2, <1>14, <2>2 DEF IsMeant, IdComesAgain
    <3>2. SessionIsNamed' <=> SessionIsNamed BY <1>2 DEF SessionIsNamed, SocketFiles
    <3> QED BY <1>2, <3>1, <3>2 DEF FocusesWhatWasListed
  <2> QED BY <2>1, <2>2
<1> QED BY <1>8, <1>9, <1>10, <1>11, <1>12, <1>13

\* Windows only go, and sessions keep their names.
LEMMA FewerKeep ==
    ASSUME IpcInv, UNCHANGED <<kind, socketVar, born, counted, ask, raised>>,
           windows' \in [Sessions -> SUBSET WindowType],
           \A t \in Sessions : windows'[t] \subseteq windows[t],
           sockets' \in Seq(Sessions), live' \subseteq Sessions, over' \subseteq Sessions,
           NamesAreNew', live \cup over \subseteq live' \cup over',
           SocketFiles' \cap (live \cup over) \subseteq SocketFiles
    PROVE  IpcInv'
<1> USE DEF IpcInv
<1>1. IpcTyped' BY DEF IpcTyped
<1>2. \A s \in Sessions : (X11Ids(s) /\ ContainerIds(s))' BY DEF X11Ids, ContainerIds
<1>3. CASE ask.at = "idle"
  <2>1. Asked' BY <1>3 DEF Asked
  <2>2. FocusesWhatWasListed' BY <1>3 DEF Asked, FocusesWhatWasListed, NoAsk
  <2> QED BY <1>1, <1>2, <2>1, <2>2
<1>4. CASE ask.at # "idle"
  <2>1. /\ ask.session \in live \cup over
        /\ kind \in {"niri", "hyprland"} /\ socketVar # NoSession => ask.session = socketVar
        /\ IdWasGiven(ask.session) /\ IdIsMeant(ask.session)
        /\ ask.at # "done" => ask.answer = "none"
    BY <1>4 DEF Asked
  <2>6. \A t, m : IsMeant(t, m) => IsMeant(t, m)'
    <3>1. ask.session \in Sessions BY <2>1 DEF IpcTyped
    <3>2. Open(ask.session, ask.window)' => Open(ask.session, ask.window) BY <3>1 DEF Open
    <3> QED BY <3>2 DEF IsMeant, IdComesAgain
  <2>2. (IdWasGiven(ask.session) /\ IdIsMeant(ask.session))'
    BY <2>1, <2>6 DEF IdWasGiven, IdIsMeant, HasId, Selects, IpcTyped
  <2>3. Asked' BY <1>4, <2>1, <2>2 DEF Asked
  <2>4. SessionIsNamed' => SessionIsNamed BY <2>1 DEF SessionIsNamed
  <2>5. FocusesWhatWasListed' BY <2>4, <2>6 DEF FocusesWhatWasListed
  <2> QED BY <1>1, <1>2, <2>3, <2>5
<1> QED BY <1>3, <1>4

LEMMA IpcClosesKeeps == ASSUME IpcInv, NEW s \in Sessions, IpcCloses(s) PROVE IpcInv'
<1>1. PICK w \in windows[s] : windows' = [windows EXCEPT ![s] = @ \ {w}] BY DEF IpcCloses
<1>2. /\ windows' \in [Sessions -> SUBSET WindowType]
      /\ \A t \in Sessions : windows'[t] \subseteq windows[t]
  BY <1>1 DEF IpcInv, IpcTyped
<1>3. UNCHANGED <<kind, socketVar, live, sockets, born, counted, over, turns, ask, raised>>
  BY DEF IpcCloses
<1> QED BY <1>2, <1>3, FewerKeep DEF IpcInv, IpcTyped, NamesAreNew, SocketFiles

LEMMA SessionStartsKeeps == ASSUME IpcInv, NEW s \in Sessions, SessionStarts(s) PROVE IpcInv'
<1>1. /\ s \notin live \cup over /\ live' = live \cup {s} /\ sockets' = <<s>> \o sockets
      /\ UNCHANGED <<kind, socketVar, windows, born, counted, over, ask, raised>>
  BY DEF SessionStarts
<1>2. sockets \in Seq(Sessions) BY DEF IpcInv, IpcTyped
<1>3. sockets' \in Seq(Sessions) BY <1>1, <1>2
<1>4. SocketFiles' \subseteq SocketFiles \cup {s} BY <1>1, <1>2 DEF SocketFiles
<1>5. live' \subseteq Sessions /\ NamesAreNew' BY <1>1, <1>4 DEF IpcInv, IpcTyped, NamesAreNew
<1> QED BY <1>1, <1>3, <1>4, <1>5, FewerKeep DEF IpcInv, IpcTyped

(* What two sequences hold together, one of them held.                     *)
LEMMA OneOfTwo ==
  ASSUME NEW S, NEW a \in Seq(S), NEW b \in Seq(S)
  PROVE  /\ a \o b \in Seq(S)
         /\ \A k \in 1..Len(a \o b) :
               \/ \E m \in 1..Len(a) : (a \o b)[k] = a[m]
               \/ \E m \in 1..Len(b) : (a \o b)[k] = b[m]
<1>1. /\ a \o b \in Seq(S) /\ Len(a \o b) = Len(a) + Len(b)
      /\ \A k \in 1..(Len(a) + Len(b)) :
           (a \o b)[k] = IF k <= Len(a) THEN a[k] ELSE b[k - Len(a)]
  BY ConcatProperties
<1>2. PICK c, la, lb : c = a \o b /\ la = Len(a) /\ lb = Len(b) OBVIOUS
<1>3. la \in Nat /\ lb \in Nat BY <1>2
<1>4. ASSUME NEW k \in 1..(la + lb)
      PROVE  (\E m \in 1..la : c[k] = a[m]) \/ (\E m \in 1..lb : c[k] = b[m])
  <2>1. c[k] = IF k <= la THEN a[k] ELSE b[k - la] BY <1>1, <1>2
  <2>2. k \in 1..la \/ (~(k <= la) /\ k - la \in 1..lb) BY <1>3
  <2> QED BY <1>3, <2>1, <2>2
<1> QED BY <1>1, <1>2, <1>4

(* What is left of a sequence without its i-th member holds nothing new.    *)
LEMMA WithoutOne ==
  ASSUME NEW S, NEW q \in Seq(S), NEW i \in 1..Len(q)
  PROVE  LET r == SubSeq(q, 1, i - 1) \o SubSeq(q, i + 1, Len(q)) IN
         r \in Seq(S) /\ \A k \in 1..Len(r) : \E m \in 1..Len(q) : r[k] = q[m]
<1>1. PICK a, b : a = SubSeq(q, 1, i - 1) /\ b = SubSeq(q, i + 1, Len(q)) OBVIOUS
<1>2. Len(q) \in Nat OBVIOUS
<1>3. a \in Seq(S) /\ Len(a) = i - 1 /\ \A k \in 1..(i - 1) : a[k] = q[k] BY <1>1, <1>2
<1>4. /\ b \in Seq(S) /\ Len(b) = Len(q) - i
      /\ \A k \in 1..(Len(q) - i) : b[k] = q[k + i]
  BY <1>1, <1>2
<1>5. \A m \in 1..Len(a) : a[m] = q[m] /\ m \in 1..Len(q) BY <1>2, <1>3
<1>6. \A m \in 1..Len(b) : b[m] = q[m + i] /\ m + i \in 1..Len(q) BY <1>2, <1>4
<1>7. /\ a \o b \in Seq(S)
      /\ \A k \in 1..Len(a \o b) :
            \/ \E m \in 1..Len(a) : (a \o b)[k] = a[m]
            \/ \E m \in 1..Len(b) : (a \o b)[k] = b[m]
  <2>1. a \in Seq(S) /\ b \in Seq(S) BY <1>3, <1>4
  <2> QED BY <2>1, OneOfTwo
<1>8. \A k \in 1..Len(a \o b) : \E m \in 1..Len(q) : (a \o b)[k] = q[m]
  BY <1>5, <1>6, <1>7
<1> QED BY <1>1, <1>7, <1>8

LEMMA SessionEndsKeeps == ASSUME IpcInv, NEW s \in Sessions, SessionEnds(s) PROVE IpcInv'
<1>1. /\ s \in live /\ live' = live \ {s} /\ over' = over \cup {s}
      /\ windows' = [windows EXCEPT ![s] = {}]
      /\ UNCHANGED <<kind, socketVar, born, counted, ask, raised>>
  BY DEF SessionEnds
<1>2. sockets \in Seq(Sessions) BY DEF IpcInv, IpcTyped
<1>3. sockets' \in Seq(Sessions) /\ SocketFiles' \subseteq SocketFiles
  <2>1. CASE UNCHANGED sockets BY <1>2, <2>1 DEF SocketFiles
  <2>2. ASSUME NEW i \in DOMAIN sockets,
               sockets' = SubSeq(sockets, 1, i - 1) \o SubSeq(sockets, i + 1, Len(sockets))
        PROVE  sockets' \in Seq(Sessions) /\ SocketFiles' \subseteq SocketFiles
    <3>1. i \in 1..Len(sockets) BY <1>2
    <3>2. /\ sockets' \in Seq(Sessions)
          /\ \A k \in 1..Len(sockets') : \E m \in 1..Len(sockets) : sockets'[k] = sockets[m]
      <4>1. PICK q : q = sockets OBVIOUS
      <4>2. q \in Seq(Sessions) /\ i \in 1..Len(q) BY <1>2, <3>1, <4>1
      <4>3. LET r == SubSeq(q, 1, i - 1) \o SubSeq(q, i + 1, Len(q)) IN
            r \in Seq(Sessions) /\ \A k \in 1..Len(r) : \E m \in 1..Len(q) : r[k] = q[m]
        BY <4>2, WithoutOne, Zenon
      <4> QED BY <2>2, <4>1, <4>3
    <3> QED BY <1>2, <3>2 DEF SocketFiles
  <2> QED BY <2>1, <2>2 DEF SessionEnds
<1>4. /\ windows' \in [Sessions -> SUBSET WindowType]
      /\ \A t \in Sessions : windows'[t] \subseteq windows[t]
  BY <1>1 DEF IpcInv, IpcTyped
<1>5. live' \subseteq Sessions /\ over' \subseteq Sessions /\ NamesAreNew'
  BY <1>1, <1>3 DEF IpcInv, IpcTyped, NamesAreNew
<1> QED BY <1>1, <1>3, <1>4, <1>5, FewerKeep

LEMMA IpcInitInv == IpcInit => IpcInv
<1> SUFFICES ASSUME IpcInit PROVE IpcInv OBVIOUS
<1>1. PICK s \in Sessions : live = {s} /\ sockets = <<s>> BY DEF IpcInit
<1>2. IpcTyped BY <1>1, IpcAssumption DEF IpcInit, IpcTyped, NoAsk, AskType
<1>3. NamesAreNew BY <1>1 DEF IpcInit, NamesAreNew, SocketFiles
<1>4. Asked BY DEF IpcInit, Asked, NoAsk
<1>5. FocusesWhatWasListed BY DEF IpcInit, FocusesWhatWasListed, NoAsk
<1>6. \A t \in Sessions : X11Ids(t) /\ ContainerIds(t) BY DEF IpcInit, X11Ids, ContainerIds
<1> QED BY <1>2, <1>3, <1>4, <1>5, <1>6 DEF IpcInv

LEMMA IpcStep == IpcInv /\ [IpcNext]_ipcVars => IpcInv'
<1> SUFFICES ASSUME IpcInv, [IpcNext]_ipcVars PROVE IpcInv' OBVIOUS
<1>1. CASE IpcList BY <1>1, IpcListKeeps
<1>2. CASE FocusLost BY <1>2, FocusLostKeeps
<1>3. CASE FocusReplied BY <1>3, FocusRepliedKeeps
<1>4. ASSUME NEW s \in Sessions, WindowOpens(s) PROVE IpcInv' BY <1>4, WindowOpensKeeps
<1>5. ASSUME NEW s \in Sessions, IpcCloses(s) PROVE IpcInv' BY <1>5, IpcClosesKeeps
<1>6. ASSUME NEW s \in Sessions, SessionStarts(s) PROVE IpcInv' BY <1>6, SessionStartsKeeps
<1>7. ASSUME NEW s \in Sessions, SessionEnds(s) PROVE IpcInv' BY <1>7, SessionEndsKeeps
<1>8. CASE UNCHANGED ipcVars
  BY <1>8, FewerKeep DEF ipcVars, ipcSessionVars, IpcInv, IpcTyped, NamesAreNew, SocketFiles
<1> QED BY <1>1, <1>2, <1>3, <1>4, <1>5, <1>6, <1>7, <1>8 DEF IpcNext

\* FocusesWhatWasListed: where a variable names the session, a call focuses the window it
\* listed and, unless that one has closed and its id was given to a later window, no other,
\* however many windows and sessions come and go between its requests; and a success of any
\* compositor but niri focused one.
THEOREM ListedIsFocused == IpcSpec => []FocusesWhatWasListed
<1>1. IpcInv => FocusesWhatWasListed BY DEF IpcInv
<1> QED BY <1>1, IpcInitInv, IpcStep, PTL DEF IpcSpec
=============================================================================
