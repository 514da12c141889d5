---------------------------- MODULE AbstractCube ----------------------------
(***************************************************************************)
(* What one cube promises its clients across failures and restarts: a       *)
(* single register.  The value readers see changes only to the outcome of   *)
(* an attempted change, and a crash leaves the value readers saw or the     *)
(* outcome of an attempt that has not been answered Ok and not been undone; *)
(* an answered change settles everything before it.                         *)
(***************************************************************************)
CONSTANT Contents    \* the contents a cube can have

VARIABLES val,        \* what readers see; when stopped, what a restart will serve
          maybe       \* what a crash may leave instead

absVars == <<val, maybe>>

AbsInit == val \in Contents /\ maybe = {val}

\* A client submits a change with these possible outcomes.
Attempt == /\ maybe \subseteq maybe'
           /\ maybe' \subseteq Contents
           /\ UNCHANGED val

\* An attempted outcome becomes what readers see, or what survives a crash.
Settle == \E outcome \in maybe : val' = outcome /\ maybe' = {outcome}

\* An attempt was rejected before, or undone after, it reached the disk.
Discard == /\ maybe' \subseteq maybe
           /\ val \in maybe'
           /\ UNCHANGED val

AbsNext == Attempt \/ Settle \/ Discard

AbsSpec == AbsInit /\ [][AbsNext]_absVars

=============================================================================
