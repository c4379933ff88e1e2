----------------------------- MODULE InputRoutes -----------------------------
(***************************************************************************)
(* The route one input call takes (server.rs: dispatch_click, scroll,      *)
(* drag, press_key and type_text).  A call focuses its window, then asks   *)
(* one way of sending input after the other; the first that can be used    *)
(* sends it.  The input operation lock lets one call at a time through:    *)
(* InputOperations models the lock, this module what a call does under it. *)
(*                                                                         *)
(* The user does not touch the desktop during a call: a window comes to    *)
(* the front because it is focused or a consent dialog opens and closes.   *)
(***************************************************************************)
EXTENDS Naturals, FiniteSets

CONSTANTS
    Hosts,      \* the sessions, settings and programs the server may meet
    Windows,
    NoWindow,   \* no window
    Field,      \* what has the keyboard focus in each window
    Requests,   \* the calls considered
    ScreenshotPrompts, \* a capture may ask the user for consent
    MaxCalls,   \* bound on the calls
    MaxMoves  \* bound on what changes around them

Tools == {"click", "scroll", "drag", "press_key", "type_text"}
Pointer == {"click", "scroll", "drag"}
Host == [session : {"wayland", "x11", "mixed"}, \* mixed: X11 with WAYLAND_DISPLAY set
         desktop : {"kde", "cosmic", "gnome", "hyprland", "sway"},
         force : {"none", "ydotool", "portal", "xdotool"}, \* COMPUTER_USE_LINUX_FORCE_*
         background : BOOLEAN, pixelflux : BOOLEAN, xdotool : BOOLEAN, wtype : BOOLEAN,
         portal : BOOLEAN]
Request == [tool : Tools, target : Windows \cup {NoWindow},
            on : {"point", "relative", "element", "primary", "atspi", "nothing"},
            kind : {"plain", "extra", "unicode", "long"}]

ASSUME RouteAssumption ==
    /\ NoWindow \notin Windows
    /\ Windows # {}
    /\ Hosts \subseteq Host
    /\ Requests \subseteq Request
    /\ \A r \in Requests : r.tool \notin Pointer => r.on = "nothing" \* keys have no place
    /\ Field \in [Windows -> {"password", "plain", "ambiguous"}]
    /\ ScreenshotPrompts \in BOOLEAN
    /\ MaxCalls \in Nat
    /\ MaxMoves \in Nat

VARIABLES
    host,     \* the environment of the server
    front,    \* the window that input without an address reaches
    daemon,   \* ydotoold answers on its socket
    device,   \* the uinput pointer: "none", "fits" the latest capture, or "stale"
    space,    \* desktop_size is cached
    pointer,  \* the portal pointer session: "none", "open" or "closed" by the desktop
    keyboard, \* the portal keyboard session
    call,     \* the call and how far it is
    effect,   \* what has reached the desktop, which only the properties read
    calls,
    moves

sessionVars == <<device, space, pointer, keyboard>>
deskVars == <<front, daemon>>
boundVars == <<host, calls, moves>>
routeVars == <<host, front, daemon, device, space, pointer, keyboard, call, effect, calls,
               moves>>

Rungs == {"background", "focus", "map", "element", "classify", "pixelflux", "pointer",
          "uinput", "emit", "portal", "portal_start", "portal_refocus", "portal_send",
          "ydotool", "chord", "text", "wtype", "pin", "keyboard_start",
          "keyboard_refocus", "keyboard_send", "command"}
Answers == {"sent", "not_sent", "may_have", "error"}
Routes == {"background", "atspi", "pixelflux", "xdotool", "uinput", "portal", "ydotool",
           "wtype"}

NoRequest == [tool |-> "drag", target |-> NoWindow, on |-> "point", kind |-> "plain"]
NoEffect == [routes |-> {}, windows |-> {}, whole |-> FALSE, argv |-> FALSE]

RouteInit ==
    /\ host \in Hosts
    /\ front \in Windows
    /\ daemon \in BOOLEAN
    /\ device = "none"
    /\ space = FALSE
    /\ pointer = "none"
    /\ keyboard = "none"
    /\ call = [at |-> "idle", request |-> NoRequest, aim |-> NoWindow, mode |-> "none",
               answer |-> "sent"]
    /\ effect = NoEffect
    /\ calls = 0
    /\ moves = 0

At(rung) == call.at = rung
Tool == call.request.tool
Target == call.request.target
On == call.request.on
Kind == call.request.kind
HasPoint == On # "nothing"

Go(rung) == call' = [call EXCEPT !.at = rung]
AnswerWith(a) == call' = [call EXCEPT !.at = "done", !.answer = a]
\* A step that reaches neither the desktop nor a session.
Only(step) == step /\ UNCHANGED <<effect, sessionVars, deskVars, boundVars>>
Prompted == IF ScreenshotPrompts THEN front' \in Windows ELSE UNCHANGED front

(***************************************************************************)
(* Policy: which routes a host prefers.                                    *)
(***************************************************************************)

Wayland == host.session = "wayland"
Forced(route) == host.force = route
Desktop(name) == Wayland /\ host.desktop = name

PreferXdotoolPointer == ~Forced("ydotool") /\ host.session = "x11"

PreferPortalPointer ==
    /\ ~Forced("ydotool")
    /\ Wayland
    /\ Forced("portal") \/ host.desktop = "cosmic" \/ ~daemon

PreferXdotoolKeyboard ==
    ~Forced("ydotool") /\ host.xdotool /\ (Forced("xdotool") \/ ~Wayland)

PreferWtype ==
    ~Forced("ydotool") /\ Wayland /\ host.desktop \in {"hyprland", "sway"} /\ host.wtype

PreferKdeClipboard == ~Forced("ydotool") /\ ~PreferXdotoolKeyboard /\ Desktop("kde")

PreferPortalText ==
    /\ ~Forced("ydotool")
    /\ ~PreferXdotoolKeyboard
    /\ Wayland
    /\ host.desktop # "kde"
    /\ Forced("portal") \/ ~PreferWtype

PreferPortalForChords ==
    /\ ~Forced("ydotool")
    /\ ~PreferXdotoolKeyboard
    /\ Wayland
    /\ keyboard = "open" \/ Forced("portal") \/ ~daemon

WtypeTextMode ==
    IF PreferXdotoolKeyboard \/ PreferKdeClipboard \/ PreferPortalText \/ ~PreferWtype
    THEN "none"
    ELSE IF host.desktop = "hyprland" THEN "argument" ELSE "stdin"

\* ensure_abs_pointer does not try where the axes would not span the desktop.
UinputDisabled ==
    \/ Desktop("cosmic")
    \/ host.session = "x11"
    \/ Forced("ydotool")
    \/ Forced("portal") /\ Wayland

\* KWin maps an element of a Wayland session onto its outputs.
MapsByKwin == Desktop("kde") /\ On \in {"element", "atspi"}

(***************************************************************************)
(* What reaches the desktop.                                               *)
(***************************************************************************)

Arrive(route, window, whole) ==
    effect' = [effect EXCEPT !.routes = @ \cup {route}, !.windows = @ \cup {window},
                             !.whole = whole,
                             !.argv = route = "wtype" /\ call.mode = "argument"]

\* A command, a write or a request that is carried out, or fails having done some or
\* none of it and is answered so.
Emit(route, window, failed) ==
    \/ Arrive(route, window, TRUE) /\ AnswerWith("sent")
    \/ Arrive(route, window, FALSE) /\ AnswerWith(failed)
    \/ UNCHANGED effect /\ AnswerWith(failed)

\* A session the desktop has closed sends nothing.
SendBy(session, failed) ==
    \/ session = "open" /\ Emit("portal", front, failed)
    \/ session = "closed" /\ AnswerWith(failed) /\ UNCHANGED effect

Command(route) == Emit(route, front, "error") /\ UNCHANGED <<sessionVars, deskVars, boundVars>>

(***************************************************************************)
(* The call begins: background input, focus, coordinates, element.         *)
(***************************************************************************)

BackgroundApplies(r) == host.background /\ r.target # NoWindow /\ host.desktop = "hyprland"

BeginCall(r) ==
    /\ call.at \in {"idle", "done"}
    /\ calls < MaxCalls
    /\ calls' = calls + 1
    /\ call' = [at |-> IF r.tool \notin Pointer /\ BackgroundApplies(r)
                       THEN "background" ELSE "focus",
                request |-> r, aim |-> r.target, answer |-> "sent",
                mode |-> IF r.tool = "type_text" THEN WtypeTextMode ELSE "none"]
    /\ effect' = NoEffect
    /\ UNCHANGED <<sessionVars, deskVars, host, moves>>

\* Keys go to the target without focus. Text that has no US key, another keymap or a
\* window that is not found is refused; a window of another backend is focused.
SendInBackground ==
    /\ At("background")
    /\ \/ Go("focus") /\ UNCHANGED effect
       \/ AnswerWith(IF Kind = "plain" THEN "not_sent" ELSE "error") /\ UNCHANGED effect
       \/ Kind = "plain" /\ Emit("background", Target, "error")
    /\ UNCHANGED <<sessionVars, deskVars, boundVars>>

Focused ==
    CASE On = "relative" -> "map"
      [] On = "nothing" /\ Tool = "scroll" /\ Target # NoWindow -> "map"
      [] On \in {"element", "primary", "atspi"} -> "element"
      [] Tool = "type_text" -> "classify"
      [] Tool = "press_key" /\ Kind = "extra" -> "refused"
      [] OTHER -> "pixelflux"

\* focus_target_for_input: nothing without a target; else the focus is verified or
\* nothing is sent. An unsupported key is refused once the window is focused.
FocusTarget ==
    /\ At("focus")
    /\ \/ /\ IF Target = NoWindow THEN UNCHANGED front ELSE front' = Target
          /\ IF Focused = "refused" THEN AnswerWith("error") ELSE Go(Focused)
       \/ /\ Target # NoWindow
          /\ front' \in {front, Target}
          /\ AnswerWith("not_sent")
    /\ UNCHANGED <<effect, sessionVars, daemon, boundVars>>

\* focused_window_coordinate_map: a point of the window, or its centre, in the pixels
\* of a capture.
MapWindowPoint ==
    /\ At("map")
    /\ Prompted
    /\ \/ AnswerWith("error") /\ UNCHANGED space
       \/ /\ call' = [call EXCEPT !.at = "pixelflux", !.request.on = "point"]
          /\ space' = TRUE
    /\ UNCHANGED <<effect, device, pointer, keyboard, daemon, boundVars>>

\* The element is not found or is another's, or its primary action is invoked.
ResolveElement ==
    /\ At("element")
    /\ \/ AnswerWith("error") /\ UNCHANGED effect
       \/ On = "primary" /\ Emit("atspi", IF Target = NoWindow THEN front ELSE Target, "error")
       \/ /\ On = "element" /\ (Tool = "scroll" \/ ~MapsByKwin)
          /\ Go("pixelflux") /\ UNCHANGED effect
    /\ UNCHANGED <<sessionVars, deskVars, boundVars>>

\* prepare_kwin_element_click captures the desktop and caches its size.
MapKwinElement ==
    /\ At("element")
    /\ Tool = "click"
    /\ MapsByKwin
    /\ Prompted
    /\ \/ AnswerWith("not_sent") /\ UNCHANGED space
       \/ Go("pixelflux") /\ space' = TRUE
    /\ UNCHANGED <<effect, device, pointer, keyboard, daemon, boundVars>>

\* Mutant: a field AT-SPI cannot classify is taken for a plain one.
ArgumentModeTrusting(field) == IF field = "password" THEN "refused" ELSE "argument"

\* classify_wtype_field, and what remains for a field that is neither.
ArgumentMode(field) ==
    CASE field = "password" -> "refused"
      [] field = "plain" -> "argument"
      [] OTHER -> IF Kind = "long" THEN "refused" ELSE "stdin"

\* hyprland_wtype_delivery: a probe that fails or is late leaves the field ambiguous.
ClassifyField ==
    /\ At("classify")
    /\ Only(\E field \in {Field[front], "ambiguous"} :
            IF call.mode # "argument" THEN Go("pixelflux")
            ELSE IF ArgumentMode(field) = "refused" THEN AnswerWith("not_sent")
            ELSE call' = [call EXCEPT !.at = "pixelflux", !.mode = ArgumentMode(field)])

(***************************************************************************)
(* pixelflux                                                               *)
(***************************************************************************)

AfterPixelflux ==
    CASE Tool \in Pointer -> "pointer"
      [] Tool = "press_key" -> "chord"
      [] Tool = "type_text" -> "text"

\* Not configured, a button it has no action for, or unreachable: on to the others.
PassPixelflux == At("pixelflux") /\ Only(Go(AfterPixelflux))

\* Mutant: a request without an answer counts as one that was not sent.
SendToPixelfluxRetried ==
    /\ At("pixelflux")
    /\ host.pixelflux
    /\ ~(Tool = "click" /\ Kind = "extra")
    /\ \/ Emit("pixelflux", front, "may_have")
       \/ AnswerWith("error") /\ UNCHANGED effect
       \/ Arrive("pixelflux", front, TRUE) /\ Go(AfterPixelflux)
    /\ UNCHANGED <<sessionVars, deskVars, boundVars>>

\* It acts, takes the request and does not answer, or refuses it; an element it cannot
\* map is refused too.
SendToPixelflux ==
    /\ At("pixelflux")
    /\ host.pixelflux
    /\ ~(Tool = "click" /\ Kind = "extra")
    /\ \/ Emit("pixelflux", front, "may_have")
       \/ AnswerWith("error") /\ UNCHANGED effect
    /\ UNCHANGED <<sessionVars, deskVars, boundVars>>

(***************************************************************************)
(* The pointer: xdotool, uinput, portal, ydotool.                          *)
(***************************************************************************)

\* On X11 there is no other route: without xdotool nothing is sent.
PointByXdotool ==
    /\ At("pointer")
    /\ PreferXdotoolPointer
    /\ IF host.xdotool /\ ~(Tool = "click" /\ Kind = "extra")
       THEN Command("xdotool")
       ELSE Only(AnswerWith("error"))

\* A click needs a button the device has, a scroll a point and ydotool for its wheel.
TryUinput ==
    /\ At("pointer")
    /\ ~PreferXdotoolPointer
    /\ Only(Go(IF \/ Tool = "click" /\ Kind = "extra"
                  \/ Tool = "scroll" /\ ~(HasPoint /\ Wayland /\ daemon)
                  \/ UinputDisabled
               THEN "portal" ELSE "uinput"))

\* A device that fits is used as it is. A stale one is dropped first, and a call whose
\* device cannot be replaced is not sent.
ReplaceDevice ==
    /\ At("uinput")
    /\ \/ device = "fits" /\ Go("emit") /\ UNCHANGED device
       \/ device = "stale" /\ Go("emit") /\ device' = "fits"
       \/ device = "stale" /\ AnswerWith("not_sent") /\ device' = "none"
    /\ UNCHANGED <<effect, space, pointer, keyboard, deskVars, boundVars>>

\* Without a device one is made for a capture, that of the KWin mapping if there is one.
CreateDevice ==
    /\ At("uinput")
    /\ device = "none"
    /\ IF Tool = "click" /\ MapsByKwin THEN UNCHANGED front ELSE Prompted
    /\ \/ Go("emit") /\ device' = "fits" /\ space' = TRUE
       \/ Go("portal") /\ UNCHANGED device /\ space' \in {space, TRUE}
    /\ UNCHANGED <<effect, pointer, keyboard, daemon, boundVars>>

\* Mutant: the failed write is answered as one that was not sent.
EmitUinputUnsent ==
    /\ At("emit")
    /\ Emit("uinput", front, "not_sent")
    /\ device' = IF call'.answer = "sent" THEN device ELSE "none"
    /\ UNCHANGED <<space, pointer, keyboard, deskVars, boundVars>>

\* run_abs_pointer: a failed write drops the device.
EmitUinput ==
    /\ At("emit")
    /\ Emit("uinput", front, "may_have")
    /\ device' = IF call'.answer = "sent" THEN device ELSE "none"
    /\ UNCHANGED <<space, pointer, keyboard, deskVars, boundVars>>

\* A session that is open is used whatever the preference; one the desktop closed is
\* forgotten. Without one the preference decides.
UsePortalPointer ==
    /\ At("portal")
    /\ IF pointer = "open" /\ ~Forced("ydotool")
       THEN /\ Go("portal_send")
            /\ IF space THEN UNCHANGED front ELSE Prompted \* portal_off_screen_note
            /\ UNCHANGED pointer
       ELSE /\ Go(IF PreferPortalPointer THEN "portal_start" ELSE "ydotool")
            /\ pointer' = IF Forced("ydotool") THEN pointer ELSE "none"
            /\ UNCHANGED front
    /\ UNCHANGED <<effect, device, space, keyboard, daemon, boundVars>>

\* ensure_portal_pointer_session asks the preference again: ydotoold may have come.
PortalNoLongerPreferred ==
    At("portal_start") /\ ~PreferPortalPointer /\ Only(Go("ydotool"))

\* The dialog is open for as long as the user takes; which window has the focus after
\* it is the desktop's choice.
StartPortalPointer ==
    /\ At("portal_start")
    /\ PreferPortalPointer
    /\ front' \in Windows
    /\ \/ /\ pointer' = "open"
          /\ space' \in {space, TRUE} \* capture_space_rect
          /\ Go(IF Target # NoWindow THEN "portal_refocus" ELSE "portal_send")
       \/ /\ IF Tool = "scroll" /\ ~HasPoint /\ ~Forced("portal")
             THEN Go("ydotool") ELSE AnswerWith("not_sent")
          /\ UNCHANGED <<pointer, space>>
    /\ UNCHANGED <<effect, device, keyboard, daemon, boundVars>>

\* Mutant: the window is not focused again after the dialog.
RefocusSkipped(rung, next) == At(rung) /\ Only(Go(next))

\* The window the call is for is focused again after the dialog, or nothing is sent.
Refocus(rung, next) ==
    /\ At(rung)
    /\ \/ front' = call.aim /\ Go(next)
       \/ front' \in {front, call.aim} /\ AnswerWith("not_sent")
    /\ UNCHANGED <<effect, sessionVars, daemon, boundVars>>

RefocusForPointer == Refocus("portal_refocus", "portal_send")

\* A point that no shared monitor has ends the session, as does a failed request.
SendByPortalPointer ==
    /\ At("portal_send")
    /\ \/ SendBy(pointer, "may_have")
       \/ HasPoint /\ AnswerWith("not_sent") /\ UNCHANGED effect
    /\ pointer' = IF call'.answer = "sent" THEN pointer ELSE "none"
    /\ UNCHANGED <<device, space, keyboard, deskVars, boundVars>>

\* ydotool warps the pointer through a corner: not to a point of a Wayland desktop.
PointByYdotool ==
    /\ At("ydotool")
    /\ IF HasPoint /\ Wayland THEN Only(AnswerWith("not_sent"))
       ELSE IF daemon THEN Command("ydotool")
       ELSE Only(AnswerWith("error"))

(***************************************************************************)
(* The keyboard: portal, wtype, KDE's clipboard, xdotool, ydotool.         *)
(***************************************************************************)

\* The portal gives way to wtype only where its absence is certain.
ChordRoute ==
    /\ At("chord")
    /\ Only(\/ ~PreferPortalForChords /\ Go("command")
            \/ PreferPortalForChords /\ Go("pin")
            \/ /\ PreferPortalForChords
               /\ keyboard # "open" /\ ~Forced("portal") /\ PreferWtype /\ ~host.portal
               /\ Go("wtype"))

TextRoute ==
    /\ At("text")
    /\ Only(\/ (PreferKdeClipboard \/ PreferPortalText) /\ Go("pin")
            \/ PreferPortalText /\ Kind = "unicode" /\ AnswerWith("not_sent")
            \/ /\ ~PreferKdeClipboard /\ ~PreferPortalText
               /\ Go(IF call.mode # "none" /\ ~PreferXdotoolKeyboard
                     THEN "wtype" ELSE "command"))

\* portal_keyboard_target: the window of the call, or the one with the focus, which the
\* consent must not change; it may be unknown.
PinKeyboardTarget ==
    /\ At("pin")
    /\ Only(\/ /\ Target = NoWindow
               /\ \/ AnswerWith("not_sent")
                  \/ call' = [call EXCEPT !.at = "keyboard_start", !.aim = front]
            \/ Target # NoWindow /\ Go("keyboard_start"))

StartPortalKeyboard ==
    /\ At("keyboard_start")
    /\ \/ keyboard = "open" /\ UNCHANGED <<front, keyboard>> /\ Go("keyboard_refocus")
       \/ /\ keyboard # "open"
          /\ front' \in Windows
          /\ \/ keyboard' = "open" /\ Go("keyboard_refocus")
             \/ keyboard' = "none" /\ AnswerWith("not_sent")
    /\ UNCHANGED <<effect, device, space, pointer, daemon, boundVars>>

RefocusForKeyboard == Refocus("keyboard_refocus", "keyboard_send")

\* The chord, the keysyms, or the shortcut that pastes KDE's clipboard.
SendByPortalKeyboard ==
    /\ At("keyboard_send")
    /\ SendBy(keyboard, "error")
    /\ keyboard' = IF call'.answer = "sent" THEN keyboard ELSE "none"
    /\ UNCHANGED <<device, space, pointer, deskVars, boundVars>>

\* Klipper does not answer: the text is typed by ydotool instead. Its answer to the
\* replacement is lost: the text is not typed, the session stays.
PasteNotSent ==
    /\ At("keyboard_send")
    /\ Tool = "type_text"
    /\ PreferKdeClipboard
    /\ Only(Go("command") \/ AnswerWith("error"))

\* wtype is run, or never starts and text goes to ydotool.
TypeByWtype ==
    /\ At("wtype")
    /\ \/ Arrive("wtype", front, TRUE) /\ AnswerWith("sent")
       \/ Arrive("wtype", front, FALSE) /\ AnswerWith("error")
       \/ Tool = "type_text" /\ Go("command") /\ UNCHANGED effect
    /\ UNCHANGED <<sessionVars, deskVars, boundVars>>

\* xdotool, if the session prefers it and it starts; else ydotool, which has only the
\* keys of a US layout.
TypeByXdotool == At("command") /\ PreferXdotoolKeyboard /\ Command("xdotool")

TypeByYdotool ==
    /\ At("command")
    /\ IF Kind = "unicode" THEN Only(AnswerWith("not_sent"))
       ELSE IF daemon THEN Command("ydotool")
       ELSE Only(AnswerWith("error"))

(***************************************************************************)
(* What changes around a call, and the specification.                      *)
(***************************************************************************)

\* ydotoold starts or stops, the desktop closes a portal session, another tool caches a
\* capture of another size.
Surroundings ==
    /\ moves < MaxMoves
    /\ moves' = moves + 1
    /\ \/ daemon' = ~daemon /\ UNCHANGED <<device, pointer, keyboard>>
       \/ /\ pointer = "open" /\ pointer' = "closed"
          /\ UNCHANGED <<daemon, device, keyboard>>
       \/ /\ keyboard = "open" /\ keyboard' = "closed"
          /\ UNCHANGED <<daemon, device, pointer>>
       \/ /\ device = "fits" /\ device' = "stale"
          /\ UNCHANGED <<daemon, pointer, keyboard>>
    /\ UNCHANGED <<host, front, space, call, effect, calls>>

StartOfCall ==
    \/ SendInBackground \/ FocusTarget \/ MapWindowPoint \/ ResolveElement
    \/ MapKwinElement \/ ClassifyField \/ PassPixelflux \/ SendToPixelflux

PointerStep ==
    \/ PointByXdotool \/ TryUinput \/ ReplaceDevice \/ CreateDevice \/ EmitUinput
    \/ UsePortalPointer \/ PortalNoLongerPreferred \/ StartPortalPointer
    \/ RefocusForPointer \/ SendByPortalPointer \/ PointByYdotool

KeyboardStep ==
    \/ ChordRoute \/ TextRoute \/ PinKeyboardTarget \/ StartPortalKeyboard
    \/ RefocusForKeyboard \/ SendByPortalKeyboard \/ PasteNotSent \/ TypeByWtype
    \/ TypeByXdotool \/ TypeByYdotool

CallStep == StartOfCall \/ PointerStep \/ KeyboardStep
RouteNext == (\E r \in Requests : BeginCall(r)) \/ CallStep \/ Surroundings
RouteSpec == RouteInit /\ [][RouteNext]_routeVars

\* Every rung waits with a time limit: a command, a request, a dialog.
RouteFairSpec == RouteSpec /\ WF_routeVars(CallStep)

(***************************************************************************)
(* Properties                                                              *)
(***************************************************************************)

\* Types of the variables.
RouteTypeOK ==
    /\ host \in Hosts
    /\ front \in Windows
    /\ daemon \in BOOLEAN
    /\ device \in {"none", "fits", "stale"}
    /\ space \in BOOLEAN
    /\ pointer \in {"none", "open", "closed"}
    /\ keyboard \in {"none", "open", "closed"}
    /\ call \in [at : Rungs \cup {"idle", "done"}, request : Request,
                 aim : Windows \cup {NoWindow}, mode : {"none", "argument", "stdin"},
                 answer : Answers]
    /\ effect \in [routes : SUBSET Routes, windows : SUBSET Windows,
                   whole : BOOLEAN, argv : BOOLEAN]
    /\ calls \in 0..MaxCalls
    /\ moves \in 0..MaxMoves

\* A call reaches the desktop by one route at most: no step that may have done
\* something is followed by another way of doing it ("input was not replayed through
\* another backend").
OneRouteActs == \A r, s \in effect.routes : r = s

\* The answer that nothing was sent, or that the action was, is so, whatever failed on
\* the way to it.
AnswerIsTrue ==
    At("done") => /\ call.answer = "not_sent" => effect.routes = {}
                  /\ call.answer = "sent" => effect.routes # {} /\ effect.whole

\* What a call for a window does, or a portal call for the window that had the focus,
\* it does in that window, whichever consent dialogs open on the way.
ReachesAim == call.aim # NoWindow => effect.windows \subseteq {call.aim}

\* Text appears in the arguments of wtype, which every process of the user can read,
\* only if it is for a field known to hold no secret.
SecretStaysPrivate == effect.argv => \A w \in effect.windows : Field[w] = "plain"

\* A call acts by one route, and answers for it.
AnswersForItsRoute == OneRouteActs /\ AnswerIsTrue
=============================================================================
