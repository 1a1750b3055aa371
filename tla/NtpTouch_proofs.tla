-------------------------- MODULE NtpTouch_proofs --------------------------
(***************************************************************************)
(* Proofs about the touch listeners of the mobile New Tab Page, for every  *)
(* set of items, number of buttons and bound on touches.                   *)
(***************************************************************************)
EXTENDS NtpTouch, FiniteSetTheorems, TLAPS

(* The items are not numbers, so no item is a footer button.              *)
LEMMA ItemsNotButtons == Items \cap Buttons = {}
BY TouchAssumption DEF Buttons

(* The set of fingers on the screen is finite.                             *)
LEMMA DownFinite == TypeOK => IsFiniteSet(down)
<1> SUFFICES ASSUME TypeOK PROVE IsFiniteSet(down)
  OBVIOUS
<1>1. IsFiniteSet(Buttons)
  BY TouchAssumption, FS_Interval DEF Buttons
<1>2. IsFiniteSet(Items \cup Buttons)
  BY <1>1, TouchAssumption, FS_Union
<1>3. QED
  BY <1>2, FS_Subset DEF TypeOK

-----------------------------------------------------------------------------
(* Every listener and every timeout keeps each variable in its type: the  *)
(* auto-hide timer names a footer button and a selection names a button   *)
(* and the item or button its touch began on.                              *)
-----------------------------------------------------------------------------

LEMMA InitTypeOK == Init => TypeOK
BY TouchAssumption DEF Init, TypeOK, NoTimer

LEMMA NextTypeOK == TypeOK /\ [Next]_vars => TypeOK'
<1> SUFFICES ASSUME TypeOK, [Next]_vars PROVE TypeOK'
  OBVIOUS
<1> USE TouchAssumption DEF itemVars, bubbleVars
<1>1. ASSUME NEW i \in Items, TouchStart(i) PROVE TypeOK'
  BY <1>1 DEF TouchStart, FingerDown, TypeOK
<1>2. ASSUME NEW i \in Items, ZeroTimeoutFires(i) PROVE TypeOK'
  BY <1>2 DEF ZeroTimeoutFires, TypeOK
<1>3. ASSUME NEW b \in Buttons, PressStart(b) PROVE TypeOK'
  BY <1>3 DEF PressStart, FingerDown, ShowSectionBubble, TypeOK, NoTimer
<1>4. ASSUME NEW b \in Buttons, Click(b) PROVE TypeOK'
  <2>1. bubbleTimer' \in {NoTimer} \cup [stage : {"hide", "display"}, b : Buttons]
    BY <1>4 DEF Click, TriggerAutoHide, TypeOK
  <2>2. QED
    BY <1>4, <2>1 DEF Click, ShowSectionBubble, TypeOK
<1>5. ASSUME NEW x \in down, TouchEnd(x) PROVE TypeOK'
  <2>1. bubbleTimer' \in {NoTimer} \cup [stage : {"hide", "display"}, b : Buttons]
    BY <1>5 DEF TouchEnd, FooterPressStop, TriggerAutoHide, TypeOK
  <2>2. down' \subseteq Items \cup Buttons
    BY <1>5 DEF TouchEnd, TypeOK
  <2>3. selections' \subseteq [button : Buttons, pressedOn : Items \cup Buttons \cup {0}]
    BY <1>5 DEF TouchEnd, FooterPressStop, TypeOK
  <2>4. /\ focused' \subseteq Buttons /\ touches' \in 0..MaxTouches
        /\ hidden' \in [Buttons -> BOOLEAN] /\ displayed' \in [Buttons -> BOOLEAN]
    BY <1>5 DEF TouchEnd, FooterPressStop, TypeOK
  <2>5. CASE x \in Items
    <3>1. /\ active' = [active EXCEPT ![x] = TRUE]
          /\ noDelay' = [noDelay EXCEPT ![x] = TRUE]
          /\ activeItem' = None /\ delayTimer' = None
          /\ zeroTimers' = zeroTimers \cup {x}
      BY <1>5, <2>5 DEF TouchEnd, ItemPressStop
    <3>2. QED
      BY <2>1, <2>2, <2>3, <2>4, <2>5, <3>1 DEF TypeOK
  <2>6. CASE x \notin Items
    BY <1>5, <2>1, <2>2, <2>3, <2>4, <2>6 DEF TouchEnd, TypeOK
  <2>7. QED
    BY <2>5, <2>6
<1>6. ASSUME NEW c \in SUBSET down, TouchCancel(c) PROVE TypeOK'
  BY <1>6 DEF TouchCancel, TypeOK
<1>7. CASE DelayTimerFires
  BY <1>7 DEF DelayTimerFires, TypeOK
<1>8. CASE HideTimerFires
  BY <1>8 DEF HideTimerFires, TypeOK, NoTimer
<1>9. CASE DisplayTimerFires
  BY <1>9 DEF DisplayTimerFires, TypeOK, NoTimer
<1>10. CASE Finished
  BY <1>10 DEF Finished, vars, TypeOK
<1>11. CASE UNCHANGED vars
  BY <1>11 DEF vars, TypeOK
<1>12. QED
  BY <1>1, <1>2, <1>3, <1>4, <1>5, <1>6, <1>7, <1>8, <1>9, <1>10, <1>11 DEF Next

(* Every reachable state is well typed.                                    *)
THEOREM TypeCorrect == Spec => []TypeOK
BY InitTypeOK, NextTypeOK, PTL DEF Spec

-----------------------------------------------------------------------------
(* ActiveItemShown is not inductive by itself: a 0 ms timeout removes the *)
(* class of its item, which could be activeItem.  It holds because the    *)
(* touchend listener that starts such a timeout also sets activeItem to   *)
(* null, and the delay timer, the only step that sets activeItem, waits   *)
(* for the pending 0 ms timeouts (a 0 ms timeout runs before it).         *)
-----------------------------------------------------------------------------

ActiveKept == activeItem # None => active[activeItem] /\ zeroTimers = {}

ActiveInv == TypeOK /\ ActiveKept

LEMMA InitActiveInv == Init => ActiveInv
BY InitTypeOK DEF Init, ActiveInv, ActiveKept

LEMMA NextActiveInv == ActiveInv /\ [Next]_vars => ActiveInv'
<1> SUFFICES ASSUME ActiveInv, [Next]_vars PROVE ActiveKept'
  BY NextTypeOK DEF ActiveInv
<1> USE TouchAssumption DEF ActiveInv, ActiveKept, itemVars, bubbleVars
<1>1. ASSUME NEW i \in Items, TouchStart(i) PROVE ActiveKept'
  BY <1>1 DEF TouchStart
<1>2. ASSUME NEW i \in Items, ZeroTimeoutFires(i) PROVE ActiveKept'
  BY <1>2 DEF ZeroTimeoutFires
<1>3. ASSUME NEW b \in Buttons, PressStart(b) \/ Click(b) PROVE ActiveKept'
  BY <1>3 DEF PressStart, Click
<1>4. ASSUME NEW x \in down, TouchEnd(x) PROVE ActiveKept'
  BY <1>4 DEF TouchEnd, ItemPressStop
<1>5. ASSUME NEW c \in SUBSET down, TouchCancel(c) PROVE ActiveKept'
  BY <1>5 DEF TouchCancel
<1>6. CASE DelayTimerFires
  BY <1>6 DEF DelayTimerFires, TypeOK
<1>7. CASE HideTimerFires \/ DisplayTimerFires \/ Finished \/ UNCHANGED vars
  BY <1>7 DEF HideTimerFires, DisplayTimerFires, Finished, vars
<1>8. QED
  BY <1>1, <1>2, <1>3, <1>4, <1>5, <1>6, <1>7 DEF Next

(* activeItem always has its active class, whatever the order of touches, *)
(* cancels and timeouts: no 0 ms timeout of an earlier touchend removes   *)
(* the class of the item the delay timer marked later.                     *)
THEOREM ActiveItemAlwaysShown == Spec => []ActiveItemShown
<1>1. ActiveInv => ActiveItemShown
  BY DEF ActiveInv, ActiveKept, ActiveItemShown
<1>2. QED
  BY <1>1, InitActiveInv, NextActiveInv, PTL DEF Spec

-----------------------------------------------------------------------------
(* The refinement of FooterBubble.  Under the mapping, a step of the      *)
(* auto-hide timeouts is a Fade or a Remove only if the timer's button is *)
(* still shown, or still fading, when the timeout fires; showing a bubble *)
(* clears the timer, so that holds.  BubbleInv says it, together with the  *)
(* fact that a bubble without the hidden class is displayed.               *)
-----------------------------------------------------------------------------

BubbleKept ==
    /\ \A b \in Buttons : ~hidden[b] => displayed[b]
    /\ bubbleTimer.stage = "hide" =>
           displayed[bubbleTimer.b] /\ ~hidden[bubbleTimer.b]
    /\ bubbleTimer.stage = "display" =>
           displayed[bubbleTimer.b] /\ hidden[bubbleTimer.b]

BubbleInv == TypeOK /\ BubbleKept

(* The abstract state under the refinement mapping.                        *)
bubbleBar == [b \in Buttons |-> BubbleState(b)]

LEMMA InitBubbleInv == Init => BubbleInv
BY InitTypeOK DEF Init, BubbleInv, BubbleKept, NoTimer

LEMMA NextBubbleInv == BubbleInv /\ [Next]_vars => BubbleInv'
<1> SUFFICES ASSUME BubbleInv, [Next]_vars PROVE BubbleKept'
  BY NextTypeOK DEF BubbleInv
<1> USE DEF BubbleInv, BubbleKept, NoTimer, itemVars, bubbleVars
<1>1. ASSUME NEW b \in Buttons, ShowSectionBubble(b) PROVE \A c \in Buttons : ~hidden'[c] => displayed'[c]
  BY <1>1 DEF ShowSectionBubble
<1>2. ASSUME NEW b \in Buttons, PressStart(b) PROVE BubbleKept'
  BY <1>1, <1>2 DEF PressStart
<1>3. ASSUME NEW b \in Buttons, Click(b) PROVE BubbleKept'
  <2>1. hidden'[b] = FALSE /\ displayed'[b] = TRUE
    BY <1>3 DEF Click, ShowSectionBubble
  <2>2. bubbleTimer' = [stage |-> "hide", b |-> b]
    BY <1>3, <2>1 DEF Click, TriggerAutoHide
  <2>3. QED
    BY <1>1, <1>3, <2>1, <2>2 DEF Click
<1>4. ASSUME NEW x \in down, TouchEnd(x) PROVE BubbleKept'
  <2>1. focused \subseteq Buttons
    BY DEF TypeOK
  <2>2. QED
    BY <1>4, <2>1 DEF TouchEnd, FooterPressStop, TriggerAutoHide, TypeOK
<1>5. CASE HideTimerFires
  BY <1>5 DEF HideTimerFires, TypeOK
<1>6. CASE DisplayTimerFires
  BY <1>6 DEF DisplayTimerFires, TypeOK
<1>7. CASE \/ \E i \in Items : TouchStart(i) \/ ZeroTimeoutFires(i)
           \/ \E c \in SUBSET down : TouchCancel(c)
           \/ DelayTimerFires \/ Finished \/ UNCHANGED vars
  BY <1>7 DEF TouchStart, ZeroTimeoutFires, TouchCancel, DelayTimerFires,
              Finished, vars
<1>8. QED
  BY <1>2, <1>3, <1>4, <1>5, <1>6, <1>7 DEF Next

(* The bubbles of a step that leaves the classes and the display of every *)
(* bubble alone look the same to FooterBubble.                             *)
LEMMA BubbleStutter ==
  ASSUME UNCHANGED <<hidden, displayed>>
  PROVE  bubbleBar' = bubbleBar
BY DEF bubbleBar, BubbleState

LEMMA InitRefines == Init => Abstract!Init
BY DEF Init, Abstract!Init, BubbleState

LEMMA NextRefines ==
  BubbleInv /\ [Next]_vars => [Abstract!Next]_bubbleBar
<1> SUFFICES ASSUME BubbleInv, [Next]_vars PROVE [Abstract!Next]_bubbleBar
  OBVIOUS
<1> USE DEF BubbleInv, BubbleKept, NoTimer, itemVars, bubbleVars
<1>1. ASSUME NEW b \in Buttons, ShowSectionBubble(b) PROVE Abstract!Show(b)
  BY <1>1 DEF ShowSectionBubble, Abstract!Show, BubbleState
<1>2. ASSUME NEW b \in Buttons, PressStart(b) \/ Click(b) PROVE Abstract!Next
  <2>1. ShowSectionBubble(b)
    BY <1>2 DEF PressStart, Click
  <2>2. QED
    BY <1>1, <2>1 DEF Abstract!Next
<1>3. CASE HideTimerFires
  <2> DEFINE k == bubbleTimer.b
  <2>1. k \in Buttons /\ displayed[k] /\ ~hidden[k]
    BY <1>3 DEF HideTimerFires, TypeOK
  <2>2. Abstract!Fade(k)
    BY <1>3, <2>1 DEF HideTimerFires, Abstract!Fade, BubbleState, TypeOK
  <2>3. QED
    BY <2>1, <2>2 DEF Abstract!Next
<1>4. CASE DisplayTimerFires
  <2> DEFINE k == bubbleTimer.b
  <2>1. k \in Buttons /\ displayed[k] /\ hidden[k]
    BY <1>4 DEF DisplayTimerFires, TypeOK
  <2>2. Abstract!Remove(k)
    BY <1>4, <2>1 DEF DisplayTimerFires, Abstract!Remove, BubbleState, TypeOK
  <2>3. QED
    BY <2>1, <2>2 DEF Abstract!Next
<1>5. CASE \/ \E i \in Items : TouchStart(i) \/ ZeroTimeoutFires(i)
           \/ \E x \in down : TouchEnd(x)
           \/ \E c \in SUBSET down : TouchCancel(c)
           \/ DelayTimerFires \/ Finished \/ UNCHANGED vars
  <2>1. UNCHANGED <<hidden, displayed>>
    BY <1>5 DEF TouchStart, ZeroTimeoutFires, TouchEnd, FooterPressStop,
                TouchCancel, DelayTimerFires, Finished, vars
  <2>2. QED
    BY <2>1, BubbleStutter
<1>6. QED
  BY <1>2, <1>3, <1>4, <1>5 DEF Next

(* The footer bubbles implement FooterBubble: whatever the order of       *)
(* touches, clicks and the two auto-hide timeouts, at most one bubble is  *)
(* on screen, a bubble is shown only by showSectionBubble, and the        *)
(* timeouts fade a bubble only while it is shown and remove it only after *)
(* it has faded.                                                            *)
THEOREM Refinement == Spec => FooterBubbleRefined
<1>1. BubbleInv /\ [Next]_vars => [Abstract!Next]_bubbleBar
  BY NextRefines
<1>2. QED
  BY <1>1, InitRefines, InitBubbleInv, NextBubbleInv, PTL
  DEF Spec, FooterBubbleRefined, Abstract!Spec, bubbleBar

========================================================================
