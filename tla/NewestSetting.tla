---------------------------- MODULE NewestSetting ----------------------------
(***************************************************************************)
(* What a reload promises: Settings are offered one after the other, and   *)
(* the engine is given the newest one that was offered.  It is never given *)
(* an older Setting after a newer one and never the same one twice; one    *)
(* that was superseded in time may be skipped.  After the register is      *)
(* closed, as the program ends, it promises nothing any more.              *)
(***************************************************************************)
EXTENDS Naturals

VARIABLES
  offered,   \* number of the newest Setting offered, 0 for none
  given,     \* number of the Setting the engine was given last, 0 for none
  closed

vars == <<offered, given, closed>>

Init == offered = 0 /\ given = 0 /\ closed = FALSE

Offer ==
  /\ ~closed
  /\ offered' \in Nat /\ offered' > offered
  /\ UNCHANGED <<given, closed>>

Give ==
  /\ ~closed
  /\ given < offered
  /\ given' = offered
  /\ UNCHANGED <<offered, closed>>

\* the register is closed, or was: whatever happens now
Close == closed'

Next == Offer \/ Give \/ Close

Spec == Init /\ [][Next]_vars

\* a Setting that was offered is given, unless the register is closed first
FairSpec == Spec /\ WF_vars(Give)
=============================================================================
