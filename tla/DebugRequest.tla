---------------------------- MODULE DebugRequest ----------------------------
(***************************************************************************)
(* What a debug request promises to the admin: a plan is a cached one,     *)
(* served after discovery, or one made from a diagnosis that passed the     *)
(* sanity check; a diagnosis is made only after discovery; a request whose  *)
(* diagnosis failed the check is refused; each request ends once, with at   *)
(* most one plan.  Pipeline is shown to implement this module.             *)
(***************************************************************************)
CONSTANT Requests

VARIABLES
  grounded,      \* requests whose discovery is complete
  sound,         \* requests whose diagnosis passed the sanity check
  plan,          \* the plan each client was given
  outcome        \* how each request ended

vars == <<grounded, sound, plan, outcome>>

Init ==
  /\ grounded = {}
  /\ sound = {}
  /\ plan = [r \in Requests |-> "none"]
  /\ outcome = [r \in Requests |-> "none"]

Open(r) == outcome[r] = "none"

Ground(r) ==
  /\ Open(r)
  /\ grounded' = grounded \cup {r}
  /\ UNCHANGED <<sound, plan, outcome>>

Diagnose(r) ==
  /\ Open(r) /\ r \in grounded
  /\ sound' = sound \cup {r}
  /\ UNCHANGED <<grounded, plan, outcome>>

(* A cached plan, if the cached entry has one that can be read. *)
Serve(r) ==
  /\ Open(r) /\ r \in grounded \ sound
  /\ \E p \in {"cached", "none"} : plan' = [plan EXCEPT ![r] = p]
  /\ outcome' = [outcome EXCEPT ![r] = "cached"]
  /\ UNCHANGED <<grounded, sound>>

(* A generated plan: the request ends with it, or fails right afterwards. *)
Propose(r) ==
  /\ Open(r) /\ r \in sound
  /\ plan' = [plan EXCEPT ![r] = "generated"]
  /\ \E how \in {"diagnosed", "failed"} : outcome' = [outcome EXCEPT ![r] = how]
  /\ UNCHANGED <<grounded, sound>>

(* It ends without a plan. *)
End(r) ==
  /\ Open(r)
  /\ \E how \in {"diagnosed", "refused", "unaided", "failed"} :
       /\ how = "diagnosed" => r \in sound
       /\ how = "refused" => r \in grounded \ sound
       /\ outcome' = [outcome EXCEPT ![r] = how]
  /\ UNCHANGED <<grounded, sound, plan>>

Next ==
  \E r \in Requests : Ground(r) \/ Diagnose(r) \/ Serve(r) \/ Propose(r) \/ End(r)

Spec == Init /\ [][Next]_vars
=============================================================================
