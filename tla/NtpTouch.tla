------------------------------ MODULE NtpTouch ------------------------------
(***************************************************************************)
(* The touch listeners of the mobile New Tab Page (mobile_ntp.js).         *)
(*                                                                         *)
(* Pressed-state feedback (addActiveTouchListener): touchstart on an item  *)
(* starts the ACTIVE_ITEM_DELAY_MS timer (one for the whole page,          *)
(* activeItemDelayTimerId) that gives the item its active class and makes *)
(* it activeItem; touchend on the item clears that timer, shows the class *)
(* and removes it again in a setTimeout(0); the document's touchcancel     *)
(* listener clears the timer and removes the class from activeItem.        *)
(*                                                                         *)
(* Footer section buttons (addMainSection): touchstart on a button marks   *)
(* it focused and shows its bubble; the body's touchend listener of every *)
(* focused button, run for a touchend anywhere, unfocuses it, selects its  *)
(* section and starts the auto-hide; a click selects, shows and starts the *)
(* auto-hide.  The auto-hide is two timeouts on the one page-wide         *)
(* footerBubbleAnimation_: add the hidden class, then set display none;    *)
(* showing a bubble cancels it and hides every other bubble at once.       *)
(*                                                                         *)
(* Each finger touches one item or one button and touchend goes to where  *)
(* it started; one touchcancel event may end several fingers, and ends a  *)
(* finger on a button only when ButtonCancels.  A 0 ms timeout runs before *)
(* a 100 ms one scheduled earlier that is still pending.  Buttons are      *)
(* 1..NumButtons in the order addMainSection registered their listeners.  *)
(* Class names, what selectSection does to panes and history, and the      *)
(* bubbles' positions are left out; the bubbles start hidden.              *)
(***************************************************************************)
EXTENDS Integers, FiniteSets

CONSTANTS
    Items,         \* the items given a touch listener
    None,          \* null / undefined
    NumButtons,    \* footer section buttons
    MaxFingers,    \* fingers on the screen at once
    MaxTouches,    \* bound on touchstart and click events
    ButtonCancels  \* whether a touch on a footer button may be cancelled

ASSUME TouchAssumption ==
    /\ None \notin Items /\ Items \cap Int = {} /\ IsFiniteSet(Items)
    /\ NumButtons \in Nat \ {0} /\ MaxFingers \in Nat /\ MaxTouches \in Nat
    /\ ButtonCancels \in BOOLEAN

Buttons == 1..NumButtons

NoTimer == [stage |-> "none", b |-> 0]

VARIABLES
    down,         \* items and buttons with a finger on them
    active,       \* item -> it has its active class
    noDelay,      \* item -> it has the 'no-active-delay' class
    activeItem,   \* activeItem
    delayTimer,   \* the item whose delay timer is pending, or None
    zeroTimers,   \* items whose setTimeout(0) removal is pending
    focused,      \* buttons with the 'focused' class
    hidden,       \* button -> its bubble has 'footer-bubble-hidden'
    displayed,    \* button -> its bubble's display is not 'none'
    bubbleTimer,  \* footerBubbleAnimation_: stage "hide" or "display"
    selections,   \* the selectSection calls of the last step
    touches

itemVars == <<active, noDelay, activeItem, delayTimer, zeroTimers>>
bubbleVars == <<focused, hidden, displayed, bubbleTimer>>
vars == <<down, itemVars, bubbleVars, selections, touches>>

Init ==
    /\ down = {}
    /\ active = [i \in Items |-> FALSE]
    /\ noDelay = [i \in Items |-> FALSE]
    /\ activeItem = None
    /\ delayTimer = None
    /\ zeroTimers = {}
    /\ focused = {}
    /\ hidden = [b \in Buttons |-> TRUE]
    /\ displayed = [b \in Buttons |-> FALSE]
    /\ bubbleTimer = NoTimer
    /\ selections = {}
    /\ touches = 0

(* The values each variable can take.                                       *)
TypeOK ==
    /\ down \subseteq Items \cup Buttons
    /\ active \in [Items -> BOOLEAN] /\ noDelay \in [Items -> BOOLEAN]
    /\ activeItem \in Items \cup {None} /\ delayTimer \in Items \cup {None}
    /\ zeroTimers \subseteq Items
    /\ focused \subseteq Buttons
    /\ hidden \in [Buttons -> BOOLEAN] /\ displayed \in [Buttons -> BOOLEAN]
    /\ bubbleTimer \in {NoTimer} \cup [stage : {"hide", "display"}, b : Buttons]
    /\ selections \subseteq [button : Buttons, pressedOn : Items \cup Buttons \cup {0}]
    /\ touches \in 0..MaxTouches

-----------------------------------------------------------------------------
(* A variant of showSectionBubble that leaves the other bubbles alone.     *)
ShowSectionBubbleKeepsOthers(b) ==
    /\ hidden' = [hidden EXCEPT ![b] = FALSE]
    /\ displayed' = [displayed EXCEPT ![b] = TRUE]

(* showSectionBubble(b): cancel the auto-hide, hide every other bubble,    *)
(* show b's.                                                                *)
ShowSectionBubble(b) ==
    /\ hidden' = [c \in Buttons |-> c # b]
    /\ displayed' = [c \in Buttons |-> c = b]

(* triggerAutoHideSectionBubble for the buttons bs, in order, with the     *)
(* bubbles' hidden classes h: a button whose bubble is hidden returns      *)
(* early; the others each restart the timer, so the last one keeps it.     *)
TriggerAutoHide(bs, h) ==
    LET started == {b \in bs : ~h[b]}
    IN  \/ started = {} /\ UNCHANGED bubbleTimer
        \/ \E last \in started :
              /\ \A c \in started : c <= last
              /\ bubbleTimer' = [stage |-> "hide", b |-> last]

(* A finger goes down on x, an item or a button.                            *)
FingerDown(x) ==
    /\ x \notin down /\ Cardinality(down) < MaxFingers /\ touches < MaxTouches
    /\ down' = down \cup {x}
    /\ touches' = touches + 1
    /\ selections' = {}

(* PRESS_START_EVT on item i: clear the pending delay timer, start one for *)
(* i.                                                                       *)
TouchStart(i) ==
    /\ FingerDown(i)
    /\ delayTimer' = i
    /\ UNCHANGED <<active, noDelay, activeItem, zeroTimers, bubbleVars>>

(* PRESS_START_EVT on button b: focus it and show its bubble.              *)
PressStart(b) ==
    /\ FingerDown(b)
    /\ focused' = focused \cup {b}
    /\ ShowSectionBubble(b)
    /\ bubbleTimer' = NoTimer
    /\ UNCHANGED itemVars

(* A variant of the item's touchend listener that leaves activeItem set.   *)
ItemPressStopKeepsActiveItem(i) ==
    /\ delayTimer' = None
    /\ active' = [active EXCEPT ![i] = TRUE]
    /\ noDelay' = [noDelay EXCEPT ![i] = TRUE]
    /\ zeroTimers' = zeroTimers \cup {i}
    /\ UNCHANGED activeItem

(* PRESS_STOP_EVT on item i: clear the delay timer, show the class (with  *)
(* no-active-delay) and remove both in a 0 ms timeout; activeItem = null.  *)
ItemPressStop(i) ==
    /\ delayTimer' = None
    /\ active' = [active EXCEPT ![i] = TRUE]
    /\ noDelay' = [noDelay EXCEPT ![i] = TRUE]
    /\ zeroTimers' = zeroTimers \cup {i}
    /\ activeItem' = None

(* The body's PRESS_STOP_EVT listeners for a touch that started on x:      *)
(* every focused button is unfocused, selects its section and triggers    *)
(* the auto-hide of its bubble.                                            *)
FooterPressStop(x) ==
    /\ focused' = {}
    /\ selections' = {[button |-> b, pressedOn |-> x] : b \in focused}
    /\ TriggerAutoHide(focused, hidden)
    /\ UNCHANGED <<hidden, displayed>>

(* touchend of the finger on x: the item's own listener, then the body's.  *)
TouchEnd(x) ==
    /\ x \in down
    /\ down' = down \ {x}
    /\ IF x \in Items THEN ItemPressStop(x) ELSE UNCHANGED itemVars
    /\ FooterPressStop(x)
    /\ UNCHANGED touches

(* The delay timer fires: the item gets its active class and becomes      *)
(* activeItem.                                                              *)
DelayTimerFires ==
    /\ delayTimer # None /\ zeroTimers = {}
    /\ active' = [active EXCEPT ![delayTimer] = TRUE]
    /\ activeItem' = delayTimer
    /\ delayTimer' = None
    /\ selections' = {}
    /\ UNCHANGED <<down, noDelay, zeroTimers, bubbleVars, touches>>

(* The 0 ms timeout of a touchend on item i.                               *)
ZeroTimeoutFires(i) ==
    /\ i \in zeroTimers
    /\ zeroTimers' = zeroTimers \ {i}
    /\ active' = [active EXCEPT ![i] = FALSE]
    /\ noDelay' = [noDelay EXCEPT ![i] = FALSE]
    /\ selections' = {}
    /\ UNCHANGED <<down, activeItem, delayTimer, bubbleVars, touches>>

(* touchcancel ending the fingers on c: window.touchCancelListener clears  *)
(* the delay timer and, if there is an activeItem, removes its class and   *)
(* forgets it; the footer buttons have no touchcancel listener.            *)
TouchCancel(c) ==
    /\ c # {} /\ c \subseteq down /\ (ButtonCancels \/ c \subseteq Items)
    /\ down' = down \ c
    /\ delayTimer' = None
    /\ IF activeItem # None
         THEN /\ active' = [active EXCEPT ![activeItem] = FALSE]
              /\ activeItem' = None
         ELSE UNCHANGED <<active, activeItem>>
    /\ selections' = {}
    /\ UNCHANGED <<noDelay, zeroTimers, bubbleVars, touches>>

(* A click on button b: select, show, trigger the auto-hide.               *)
Click(b) ==
    /\ down = {} /\ touches < MaxTouches
    /\ touches' = touches + 1
    /\ selections' = {[button |-> b, pressedOn |-> 0]}
    /\ ShowSectionBubble(b)
    /\ TriggerAutoHide({b}, hidden')
    /\ UNCHANGED <<down, focused, itemVars>>

(* A variant of the auto-hide timeout that does not start the second one.  *)
HideTimerNoDisplayStage ==
    /\ bubbleTimer.stage = "hide"
    /\ hidden' = [hidden EXCEPT ![bubbleTimer.b] = TRUE]
    /\ bubbleTimer' = NoTimer
    /\ selections' = {}
    /\ UNCHANGED <<down, focused, displayed, itemVars, touches>>

(* The auto-hide timeout: add the hidden class, then start the timeout    *)
(* that sets display none once the opacity animation is over.              *)
HideTimerFires ==
    /\ bubbleTimer.stage = "hide"
    /\ hidden' = [hidden EXCEPT ![bubbleTimer.b] = TRUE]
    /\ bubbleTimer' = [stage |-> "display", b |-> bubbleTimer.b]
    /\ selections' = {}
    /\ UNCHANGED <<down, focused, displayed, itemVars, touches>>

(* The second timeout: display none.                                       *)
DisplayTimerFires ==
    /\ bubbleTimer.stage = "display"
    /\ displayed' = [displayed EXCEPT ![bubbleTimer.b] = FALSE]
    /\ bubbleTimer' = NoTimer
    /\ selections' = {}
    /\ UNCHANGED <<down, focused, hidden, itemVars, touches>>

(* Every touch has ended and every timer has run.                          *)
Finished ==
    /\ touches = MaxTouches /\ down = {}
    /\ delayTimer = None /\ zeroTimers = {} /\ bubbleTimer = NoTimer
    /\ UNCHANGED vars

Next ==
    \/ \E i \in Items : TouchStart(i) \/ ZeroTimeoutFires(i)
    \/ \E b \in Buttons : PressStart(b) \/ Click(b)
    \/ \E x \in down : TouchEnd(x)
    \/ \E c \in SUBSET down : TouchCancel(c)
    \/ DelayTimerFires
    \/ HideTimerFires
    \/ DisplayTimerFires
    \/ Finished

(* The browser runs a pending timeout, and a touch eventually ends.        *)
Fairness ==
    /\ WF_vars(DelayTimerFires) /\ WF_vars(HideTimerFires)
    /\ WF_vars(DisplayTimerFires)
    /\ \A i \in Items : WF_vars(ZeroTimeoutFires(i))
    /\ WF_vars(\E x \in down : TouchEnd(x) \/ TouchCancel({x}))

Spec == Init /\ [][Next]_vars /\ Fairness

-----------------------------------------------------------------------------
(* activeItem always shows its active class: the touchend listener forgets *)
(* the item whose class its 0 ms timeout will remove, and the delay timer  *)
(* cannot mark an item while such a removal is pending.                    *)
ActiveItemShown ==
    activeItem # None => active[activeItem]

(* A section is selected only by a click on its button or by lifting the   *)
(* finger that pressed its button, never by a touchend of a finger that   *)
(* began on an item or on another button.                                  *)
SelectOnlyByOwnPress ==
    \A s \in selections : s.pressedOn \in {0, s.button}

(* With no finger down, every bubble that is displayed eventually gets    *)
(* display none: the auto-hide always runs to its second timeout.          *)
BubbleEventuallyRemoved ==
    \A b \in Buttons : (displayed[b] /\ down = {}) ~> ~displayed[b]

(* The footer bubbles as FooterBubble sees them: display none is hidden,  *)
(* displayed with the hidden class (fading out by its opacity transition)  *)
(* is fading, displayed without it is shown.                                *)
BubbleState(b) ==
    IF ~displayed[b] THEN "hidden" ELSE IF hidden[b] THEN "fading" ELSE "shown"

Abstract == INSTANCE FooterBubble WITH bubble <- [b \in Buttons |-> BubbleState(b)]

(* The listeners and the two auto-hide timeouts implement FooterBubble: a *)
(* bubble is shown only by showSectionBubble, which hides every other one; *)
(* the first timeout fades only the bubble on screen and the second       *)
(* removes only the bubble the first one faded.                            *)
FooterBubbleRefined == Abstract!Spec

=============================================================================
