------------------------------- MODULE FlowMeter -------------------------------
(***************************************************************************)
(* What /dev/ipflow promises its users: a meter that counts packets of     *)
(* each pair.  A reset takes all that is held.  A read with a reset takes  *)
(* time: it takes all that was held when it began, and of what came since  *)
(* any part, unless another reset or another array meets it on the way.    *)
(***************************************************************************)
EXTENDS Integers

CONSTANTS
    Pairs,      \* (source, destination) pairs
    Readers     \* processes that read with a reset

VARIABLES
    held,       \* packets counted since the last reset
    gone,       \* packets a reset has taken
    lost,       \* packets the meter had no room for
    reading,    \* reads under way
    whole,      \* of these, the ones nobody has disturbed
    since       \* since[r]: what was held when r, in whole, began

Init == /\ held = [k \in Pairs |-> 0]
        /\ gone = [k \in Pairs |-> 0]
        /\ lost = [k \in Pairs |-> 0]
        /\ reading = {} /\ whole = {}
        /\ since = [r \in Readers |-> [k \in Pairs |-> 0]]

Disturbed == whole' = {} /\ since' = [r \in Readers |-> [k \in Pairs |-> 0]]
Emptied   == held' = [k \in Pairs |-> 0]

\* One pair counts more packets, in the meter or as lost.
Grows(now, next, k) == next[k] >= now[k] /\ \A j \in Pairs \ {k} : next[j] = now[j]

Count == /\ \E k \in Pairs : \/ Grows(held, held', k) /\ UNCHANGED lost
                             \/ Grows(lost, lost', k) /\ UNCHANGED held
         /\ UNCHANGED <<gone, reading, whole, since>>

TakeAll == /\ gone' = [k \in Pairs |-> gone[k] + held[k]]
           /\ Emptied /\ Disturbed
           /\ UNCHANGED <<lost, reading>>

Begin(r) == /\ r \notin reading /\ reading' = reading \cup {r}
            /\ whole' = whole \cup {r} /\ since' = [since EXCEPT ![r] = held]
            /\ UNCHANGED <<held, gone, lost>>

Fail(r) == /\ r \in reading /\ reading' = reading \ {r}
           /\ whole' = whole \ {r}
           /\ since' = [since EXCEPT ![r] = [k \in Pairs |-> 0]]
           /\ UNCHANGED <<held, gone, lost>>

End(r) == /\ r \in reading /\ reading' = reading \ {r}
          /\ r \in whole => \A k \in Pairs : gone'[k] - gone[k] \in since[r][k] .. held[k]
          /\ Emptied /\ Disturbed
          /\ UNCHANGED lost

NewArray == Disturbed /\ UNCHANGED <<held, gone, lost, reading>>

MeterSpec == Init /\ [][\/ Count \/ TakeAll \/ NewArray
                        \/ \E r \in Readers : Begin(r) \/ Fail(r) \/ End(r)
                       ]_<<held, gone, lost, reading, whole, since>>
===============================================================================
