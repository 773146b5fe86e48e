----------------------------- MODULE Leadership -----------------------------
(***************************************************************************)
(* What the election promises to the rest of the program, in the words of  *)
(* main.go: one process at a time has the callback OnStartedLeading run    *)
(* for it, and the context it gets is cancelled some time after it has     *)
(* stopped leading.  Until then the process may go on working, while       *)
(* another one leads.                                                      *)
(***************************************************************************)
CONSTANTS Processes, None

VARIABLES
  leader,   \* the process that leads, or None
  mayWork   \* the processes whose OnStartedLeading runs, not yet cancelled

lvars == <<leader, mayWork>>

LInit == leader = None /\ mayWork = {}

(* OnStartedLeading(ctx) is called; ctx may be done already. *)
Elect(p) ==
  /\ leader = None /\ p \notin mayWork
  /\ leader' = p
  /\ mayWork' \in {mayWork, mayWork \cup {p}}

(* The lease is lost or about to be released. *)
Depose(p) ==
  /\ leader = p
  /\ leader' = None
  /\ UNCHANGED mayWork

(* The context is cancelled: by SIGTERM, or once the elector has returned. *)
Cancel(p) ==
  /\ p \in mayWork
  /\ mayWork' = mayWork \ {p}
  /\ UNCHANGED leader

(* The process is gone. *)
Die(p) ==
  /\ p = leader \/ p \in mayWork
  /\ leader' = IF leader = p THEN None ELSE leader
  /\ mayWork' = mayWork \ {p}

LNext == \E p \in Processes : Elect(p) \/ Depose(p) \/ Cancel(p) \/ Die(p)

LSpec == LInit /\ [][LNext]_lvars
=============================================================================
