------------------------------ MODULE Lifecycle ------------------------------
(***************************************************************************)
(* What the reminder system promises its owner, with no workers, leases,   *)
(* clocks or retries in sight: how an occurrence and the notifications     *)
(* that belong to it may change, and which changes come together.          *)
(* Reminders shows that the program implements it.                         *)
(***************************************************************************)
EXTENDS Naturals, Sequences

CONSTANT Slot

VARIABLES
  occ,       \* status of each occurrence, "none" before it exists
  rows,      \* its notifications: occurrence, kind and status of each
  stopped    \* occurrences the owner has reacted to

vars == <<occ, rows, stopped>>

Init ==
  /\ occ = [o \in Slot |-> "none"]
  /\ rows = << >>
  /\ stopped = {}

NewRow(o, kind) == [occ |-> o, kind |-> kind, status |-> "pending"]

Open(o) == occ[o] \in {"pending", "missed"}

\* What is left of a plan when the pending rows of o are withdrawn.
Withdrawn(o) ==
  [n \in DOMAIN rows |->
     IF rows[n].occ = o /\ rows[n].status = "pending"
       THEN [rows[n] EXCEPT !.status = "cancelled"] ELSE rows[n]]

\* old becomes new when plan is scheduled: signals of its occurrences are
\* added or brought back, repeats and everything else stay as they are.
Planned(old, new, plan) ==
  LET Scheduled(row) ==
        row.occ \in plan /\ row.kind # "repeat" /\ row.status = "pending"
  IN  /\ DOMAIN old \subseteq DOMAIN new
      /\ \A n \in DOMAIN old :
           \/ new[n] = old[n]
           \/ /\ old[n].status = "cancelled" /\ Scheduled(new[n])
              /\ new[n] = [old[n] EXCEPT !.status = "pending"]
      /\ \A n \in DOMAIN new \ DOMAIN old : Scheduled(new[n])

\* Occurrences appear and get their signals.  One the owner completed or moved
\* gets none; one that was skipped at that very moment may.
Plan ==
  /\ \A o \in Slot : occ'[o] = occ[o] \/ (occ[o] = "none" /\ occ'[o] = "pending")
  /\ DOMAIN occ' = Slot
  /\ Planned(rows, rows', {o \in Slot : occ'[o] \in {"pending", "missed", "skipped"}})
  /\ UNCHANGED stopped

\* A notification is given up.  Its occurrence is missed with its main signal,
\* and only while the owner had not closed it.
GiveUp(n) ==
  LET o == rows[n].occ
  IN  /\ rows[n].status = "pending"
      /\ \E status \in {"cancelled", "missed", "failed"} :
           /\ rows' = [rows EXCEPT ![n].status = status]
           /\ status = "missed" => occ[o] = "pending"
           /\ occ' = IF status = "missed" /\ rows[n].kind = "main"
                       THEN [occ EXCEPT ![o] = "missed"] ELSE occ
      /\ UNCHANGED stopped

\* A notification has been sent, which is true whatever was recorded before.
\* A repeat may follow while nobody has reacted.
Send(n) ==
  LET o    == rows[n].occ
      sent == [rows EXCEPT ![n].status = "sent"]
  IN  /\ \/ rows' = sent
         \/ /\ rows[n].kind # "pre" /\ occ[o] = "pending" /\ o \notin stopped
            /\ rows' = Append(sent, NewRow(o, "repeat"))
      /\ UNCHANGED <<occ, stopped>>

\* The owner reacts: the repeats stop at once and for good.
React(o) ==
  /\ occ[o] # "none"
  /\ rows' = [n \in DOMAIN rows |->
                IF rows[n].occ = o /\ rows[n].kind = "repeat" /\ rows[n].status = "pending"
                  THEN [rows[n] EXCEPT !.status = "cancelled"] ELSE rows[n]]
  /\ stopped' = stopped \cup {o}
  /\ UNCHANGED occ

\* The owner is done with the occurrence, and so is the system.
Close(o) ==
  /\ Open(o)
  /\ \E status \in {"done", "skipped"} : occ' = [occ EXCEPT ![o] = status]
  /\ rows' = Withdrawn(o)
  /\ stopped' \in {stopped, stopped \cup {o}}

\* The owner wants it later: one signal instead of the plan, which also
\* reopens a missed occurrence.
Snooze(o) ==
  /\ Open(o)
  /\ occ' = [occ EXCEPT ![o] = "pending"]
  /\ \/ rows' = Append(Withdrawn(o), NewRow(o, "main"))
     \/ \E n \in DOMAIN rows :
          /\ rows[n].occ = o /\ rows[n].kind = "main"
          /\ Withdrawn(o)[n].status = "cancelled"
          /\ rows' = [Withdrawn(o) EXCEPT ![n].status = "pending"]
  /\ stopped' = stopped \cup {o}

\* The owner moves it: the plan goes over to a new occurrence.
Move(o, target) ==
  /\ Open(o) /\ occ[target] = "none"
  /\ occ' = [occ EXCEPT ![o] = "moved", ![target] = "pending"]
  /\ Planned(Withdrawn(o), rows', {target})
  /\ stopped' = stopped \cup {o}

Next ==
  \/ Plan
  \/ \E n \in DOMAIN rows : GiveUp(n) \/ Send(n)
  \/ \E o \in Slot : React(o) \/ Close(o) \/ Snooze(o)
  \/ \E o, target \in Slot : Move(o, target)

Spec == Init /\ [][Next]_vars
=============================================================================
