---------------------------- MODULE FooterBubble ----------------------------
(***************************************************************************)
(* What the footer section bubbles of the mobile New Tab Page promise,    *)
(* without timers or listeners: each bubble is hidden, shown or fading.   *)
(* Showing a bubble hides every other one at once; a shown bubble may      *)
(* start to fade, and a fading one may disappear.  So at most one bubble   *)
(* is ever on screen, and a bubble disappears only after it has faded.     *)
(***************************************************************************)
CONSTANT Buttons

VARIABLE bubble   \* button -> "hidden", "shown" or "fading"

States == {"hidden", "shown", "fading"}

Init == bubble = [b \in Buttons |-> "hidden"]

Show(b) == bubble' = [c \in Buttons |-> IF c = b THEN "shown" ELSE "hidden"]

Fade(b) ==
    /\ bubble[b] = "shown"
    /\ bubble' = [bubble EXCEPT ![b] = "fading"]

Remove(b) ==
    /\ bubble[b] = "fading"
    /\ bubble' = [bubble EXCEPT ![b] = "hidden"]

Next == \E b \in Buttons : Show(b) \/ Fade(b) \/ Remove(b)

Spec == Init /\ [][Next]_bubble

(* At most one bubble is shown or fading.                                  *)
OneBubble ==
    \A b, c \in Buttons : bubble[b] # "hidden" /\ bubble[c] # "hidden" => b = c

=============================================================================
