--------------------------- MODULE MonitorPromise ---------------------------
(***************************************************************************)
(* What `verify_build continuous` promises, without a process, a file or a *)
(* crash: a log publishes checkpoints of growing size, leaves of the log   *)
(* are checked one at a time, and a frontier moves to a published size     *)
(* once every leaf below it (from the operator's start index) has been     *)
(* checked.  Monitor.tla is shown to implement this specification.         *)
(***************************************************************************)
EXTENDS Naturals

CONSTANT StartIndex   \* --start_index: leaves below it are not asked for

VARIABLES published,  \* the sizes of the checkpoints the log has published
          checked,    \* the leaves a reproducible build was decided for
          frontier    \* the size up to which the monitor claims to be done

pvars == <<published, checked, frontier>>

Done(n) == \A k \in StartIndex .. n - 1 : k \in checked

PInit == /\ \E n \in published : published = {n}
         /\ checked = {}
         /\ frontier = 0

\* The log only ever grows.
PPublish == /\ \E n \in published' : /\ \A m \in published : m < n
                                     /\ published' = published \cup {n}
            /\ UNCHANGED <<checked, frontier>>

\* A leaf is checked only once some checkpoint commits to it.
PCheck == /\ \E n \in published : \E k \in 0 .. n - 1 :
                checked' = checked \cup {k}
          /\ UNCHANGED <<published, frontier>>

\* The frontier never claims an unchecked leaf and never moves back.
PAdvance == /\ \E n \in published : /\ n >= frontier
                                    /\ Done(n)
                                    /\ frontier' = n
            /\ UNCHANGED <<published, checked>>

PNext == PPublish \/ PCheck \/ PAdvance

PSpec == PInit /\ [][PNext]_pvars
=============================================================================
