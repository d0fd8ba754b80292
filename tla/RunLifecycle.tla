---------------------------- MODULE RunLifecycle ----------------------------
(***************************************************************************)
(* What one collection run promises to the rest of the app: it drives the  *)
(* browser between one session_begin and one session_end, puts only wanted *)
(* keys into the vault and only while it drives, fixes its outcome when it *)
(* stops, and publishes that outcome once, after the browser is released.  *)
(* Runner implements it; Runs starts runs that behave like it.             *)
(***************************************************************************)
CONSTANT Wanted   \* the key types a collection asks for

VARIABLES
  phase,          \* how far the run is
  stored,         \* key types the run put into the vault
  outcome         \* the RunOutcome, once it is fixed

runVars == <<phase, stored, outcome>>

Outcome == {"Success", "Partial", "Failed", "Aborted"}

Init ==
  /\ phase = "queued"
  /\ stored = {}
  /\ outcome = "none"

\* session_begin is sent to the extension.
Begin ==
  /\ phase = "queued"
  /\ phase' = "driving"
  /\ UNCHANGED <<stored, outcome>>

\* A rotation is refused without touching the browser.
Refuse ==
  /\ phase = "queued"
  /\ phase' = "released"
  /\ outcome' = "Failed"
  /\ UNCHANGED stored

Store(k) ==
  /\ phase = "driving"
  /\ stored' = stored \cup {k}
  /\ UNCHANGED <<phase, outcome>>

\* run_inner returns.
Stop(o) ==
  /\ phase = "driving"
  /\ o = "Success" => stored = Wanted
  /\ phase' = "ending"
  /\ outcome' = o
  /\ UNCHANGED stored

\* session_end was answered or failed.
Release ==
  /\ phase = "ending"
  /\ phase' = "released"
  /\ UNCHANGED <<stored, outcome>>

\* RunEvent::Finished.
Finish ==
  /\ phase = "released"
  /\ phase' = "finished"
  /\ UNCHANGED <<stored, outcome>>

Next ==
  \/ Begin
  \/ Refuse
  \/ \E k \in Wanted : Store(k)
  \/ \E o \in Outcome : Stop(o)
  \/ Release
  \/ Finish

Spec == Init /\ [][Next]_runVars

=============================================================================
