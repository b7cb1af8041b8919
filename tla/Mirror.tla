------------------------------- MODULE Mirror -------------------------------
(***************************************************************************)
(* What the change listing promises a desktop that keeps a copy of the     *)
(* plans: every change marks what it changed as stale for everyone, in the *)
(* moment it happens, and a mark goes only when the desktop reads again.   *)
(***************************************************************************)
CONSTANTS
    Items,      \* the parts of the plans
    Desktops

VARIABLES
    data,       \* what the server holds of each part
    copy,       \* what each desktop holds
    stale       \* what each desktop will read again

vars == <<data, copy, stale>>

Init ==
    /\ DOMAIN data = Items
    /\ copy = [d \in Desktops |-> data]
    /\ stale = [d \in Desktops |-> Items]

Change(changed) ==
    /\ DOMAIN data' = Items
    /\ \A x \in Items \ changed : data'[x] = data[x]
    /\ stale' = [d \in Desktops |-> stale[d] \cup changed]
    /\ UNCHANGED copy

\* A desktop reads some parts again, or is told of some: a part that is not stale
\* afterwards was read, or was not stale before and was left alone.
Refresh(d) ==
    /\ \A o \in Desktops \ {d} : copy'[o] = copy[o] /\ stale'[o] = stale[o]
    /\ \A x \in Items \ stale'[d] :
          \/ copy'[d][x] = data[x]
          \/ x \notin stale[d] /\ copy'[d][x] = copy[d][x]
    /\ UNCHANGED data

Next == (\E changed \in SUBSET Items : Change(changed)) \/ \E d \in Desktops : Refresh(d)

Spec == Init /\ [][Next]_vars
=============================================================================
