------------------------------ MODULE MCTimer ------------------------------
(* One hard timer, a periodic and a one-shot soft timer, and the timer of the    *)
(* timer thread; ten tick values, so that the counter wraps.                      *)
EXTENDS Timer, TLC

CONSTANTS h1, s1, s2

MCFirstInit == h1 :> 1 @@ s1 :> 1 @@ s2 :> 2

\* The timeout of a timer outside the lists is read only through a stale n or after
\* it was computed for the insertion that follows.
Read == Linked \cup {n} \cup {t \in Hard \cup Soft : op[t] = "insert"}

View == <<tick, isr, hard, soft, [t \in Read \ {None} |-> due[t]], [t \in Read \ {None} |-> left[t]],
          [t \in Hard \cup Soft |-> init[t]], active, periodic, op, thread, stopped>>
=============================================================================
