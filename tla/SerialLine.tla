----------------------------- MODULE SerialLine -----------------------------
(***************************************************************************)
(* What a serial line promises: the characters shown are those sent, in    *)
(* order, none lost in the middle, none twice and none invented, and at    *)
(* most Lag of them are still under way when the next one is accepted.     *)
(* The receiver stops at the first End, which it does not show; what is    *)
(* sent from then on nobody sees.                                          *)
(***************************************************************************)
EXTENDS Integers, Sequences

CONSTANTS Chars, Lag, End

VARIABLES
  sent, shown,
  open         (* the receiver has not stopped                             *)

vars == <<sent, shown, open>>

Init == sent = <<>> /\ shown = <<>> /\ open = TRUE

Send(c) ==
  /\ open => Len(sent) - Len(shown) <= Lag
  /\ sent' = Append(sent, c) /\ UNCHANGED <<shown, open>>

(* The receiver has got its next character.                                *)
Gets(c) == open /\ Len(shown) < Len(sent) /\ c = sent[Len(shown) + 1]

Show ==
  \E c \in Chars \ {End} : Gets(c) /\ shown' = Append(shown, c) /\ UNCHANGED <<sent, open>>

Stop == Gets(End) /\ open' = FALSE /\ UNCHANGED <<sent, shown>>

Next == Show \/ Stop \/ \E c \in Chars : Send(c)

Spec == Init /\ [][Next]_vars
=============================================================================
