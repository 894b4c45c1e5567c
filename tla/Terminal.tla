------------------------------ MODULE Terminal ------------------------------
(***************************************************************************)
(* The terminal application (ui/App.tsx): which surface has the keyboard,   *)
(* what Esc does, the live session and the replay that share the center     *)
(* panel, and history requests that answer late, composed with the panel of *)
(* the live session (LivePanel).                                           *)
(*                                                                         *)
(* Ink calls every registered handler for every key.  So a key is one       *)
(* action, in which the handlers of the application, of the panels and of   *)
(* the open gate all take part.                                            *)
(***************************************************************************)
EXTENDS LivePanel

CONSTANTS
  Prompts,       \* what may be debugged
  Past,          \* sessions that can be replayed
  None,
  Compact        \* whether the entity panel is an overlay

ASSUME TerminalAssumption == None \notin Prompts \cup Past /\ Compact \in BOOLEAN

VARIABLES
  prompt,        \* activePrompt
  replay,        \* replaySession
  panel,         \* activePanel
  overlays,      \* the overlays that are shown
  fetching,      \* sessions whose history was requested and not answered
  reported       \* dpevStatus.collapsible: what the panel last told the application

appVars == <<prompt, replay, panel, overlays, fetching, reported>>
vars == <<panelVars, appVars>>

Panel == {"left", "center", "right"}
Key == {"esc", "tab", "enter", "y", "n", "s", "g", "up", "down"}

Init ==
  /\ PanelInit
  /\ prompt = None /\ replay = None
  /\ panel = "center" /\ overlays = {} /\ fetching = {} /\ reported = FALSE

-----------------------------------------------------------------------------
(* Keyboard arbitration. *)

(* resolveKeyboardOwner: modals, then the focused side panel, then the      *)
(* session, then the command line.                                         *)
KeyboardOwner ==
  CASE "status" \in overlays -> "status-overlay"
    [] "status" \notin overlays /\ "entity" \in overlays -> "entity-overlay"
    [] overlays = {} /\ panel = "left" -> "session-panel"
    [] overlays = {} /\ panel = "right" -> "entity-panel"
    [] overlays = {} /\ panel = "center" /\ prompt # None -> "dpev-panel"
    [] OTHER -> "command-input"

(* Mutant: the phase under the cursor counts as expanded while it streams. *)
EscapeCountsActive ==
  CASE "status" \in overlays -> "dismiss-status-overlay"
    [] "status" \notin overlays /\ "entity" \in overlays -> "dismiss-entity-overlay"
    [] overlays = {} /\ replay # None -> "exit-replay"
    [] overlays = {} /\ replay = None /\ prompt # None ->
         IF KeyboardOwner = "dpev-panel" /\ view.phases # <<>>
         THEN "collapse-phase" ELSE "exit-session"
    [] OTHER -> "none"

(* resolveEscapeAction.  Whether there is a phase to collapse is what the     *)
(* panel reported.                                                         *)
EscapeAction ==
  CASE "status" \in overlays -> "dismiss-status-overlay"
    [] "status" \notin overlays /\ "entity" \in overlays -> "dismiss-entity-overlay"
    [] overlays = {} /\ replay # None -> "exit-replay"
    [] overlays = {} /\ replay = None /\ prompt # None ->
         IF KeyboardOwner = "dpev-panel" /\ reported
         THEN "collapse-phase" ELSE "exit-session"
    [] OTHER -> "none"

-----------------------------------------------------------------------------
(* The handlers of a key. *)

Toggle(o) == overlays' = (overlays \cup {o}) \ (overlays \cap {o})

Modal == KeyboardOwner \in {"status-overlay", "entity-overlay"}

(* The overlays: Esc dismisses the top one; s and g toggle theirs for an    *)
(* overlay, the session, and the command line while it is empty.           *)
OverlayKey(key) ==
  CASE key = "esc" /\ EscapeAction = "dismiss-status-overlay" -> Toggle("status")
    [] key = "esc" /\ EscapeAction = "dismiss-entity-overlay" -> Toggle("entity")
    [] key = "s" /\ (Modal \/ KeyboardOwner \in {"dpev-panel", "command-input"})
         -> Toggle("status")
    [] key = "g" /\ Compact /\ (Modal \/ KeyboardOwner \in {"dpev-panel", "command-input"})
         -> Toggle("entity")
    [] OTHER -> UNCHANGED overlays

NextPanel == [left |-> "center", center |-> "right", right |-> "left"]

CyclePanel(key) ==
  panel' = IF key = "tab" /\ ~Modal THEN NextPanel[panel] ELSE panel

ExitReplay(key) ==
  replay' = IF key = "esc" /\ EscapeAction = "exit-replay" THEN None ELSE replay

(* Enter in the session panel asks for the history of the selected session. *)
SelectSession(key) ==
  IF key = "enter" /\ KeyboardOwner = "session-panel"
  THEN \E s \in Past : fetching' = fetching \cup {s}
  ELSE UNCHANGED fetching

(* The open gate takes y, n and Enter; the panel's own handler takes the    *)
(* keys of the accordion when no gate is open.                             *)
GateTakes(key) ==
  /\ key \in {"y", "n", "enter"}
  /\ gate.kind \in {"cache", "plan", "write"} /\ ~gate.answered

PhaseTakes == KeyboardOwner = "dpev-panel" /\ PhaseInputActive(view)

PanelKey(key) ==
  \/ /\ GateTakes(key)
     /\ Answer(key # "n")
     /\ UNCHANGED <<srv, sse, view, lost, overtaken>>
  \/ /\ ~GateTakes(key)
     /\ view' = IF PhaseTakes THEN PhaseKey(view, key) ELSE view
     /\ UNCHANGED <<srv, sse, posts, gate, lost, overtaken>>

ExitSession ==
  /\ EscapeAction = "exit-session"
  /\ prompt' = None /\ reported' = FALSE
  /\ Unmount
  /\ UNCHANGED <<replay, panel, overlays, fetching>>

Press(key) ==
  /\ ~(key = "esc" /\ EscapeAction = "exit-session")
  /\ OverlayKey(key) /\ CyclePanel(key) /\ ExitReplay(key) /\ SelectSession(key)
  /\ PanelKey(key)
  /\ UNCHANGED <<prompt, reported>>

(* The effect of the panel that reports a change to the application runs     *)
(* after the render (DPEVPanel.tsx:473): keys may come in between.           *)
Report ==
  /\ prompt # None /\ reported # CanCollapse(view)
  /\ reported' = CanCollapse(view)
  /\ UNCHANGED <<panelVars, prompt, replay, panel, overlays, fetching>>

(* ApprovalDestructive: the target is typed and confirmed.  Nothing refuses. *)
TypeTarget ==
  /\ gate.kind = "destructive"
  /\ Answer(TRUE)
  /\ UNCHANGED <<srv, sse, view, lost, overtaken, appVars>>

-----------------------------------------------------------------------------
(* Commands and history. *)

(* handleCommand: debug. *)
Debug(p) ==
  /\ KeyboardOwner = "command-input"
  /\ prompt' = p /\ replay' = None /\ reported' = FALSE
  /\ Mount
  /\ UNCHANGED <<panel, overlays, fetching>>

StatusCommand ==
  /\ KeyboardOwner = "command-input"
  /\ overlays' = overlays \cup {"status"}
  /\ UNCHANGED <<panelVars, prompt, replay, panel, fetching, reported>>

HistoryCommand ==
  /\ KeyboardOwner = "command-input"
  /\ panel' = "left"
  /\ UNCHANGED <<panelVars, prompt, replay, overlays, fetching, reported>>

ResumeCommand(s) ==
  /\ KeyboardOwner = "command-input"
  /\ fetching' = fetching \cup {s}
  /\ UNCHANGED <<panelVars, prompt, replay, panel, overlays, reported>>

(* handleSessionSelect after its await: whatever is live by now makes way.  *)
HistoryArrives(s) ==
  /\ s \in fetching
  /\ fetching' = fetching \ {s}
  /\ replay' = s /\ prompt' = None /\ panel' = "center" /\ reported' = FALSE
  /\ Unmount
  /\ UNCHANGED overlays

HistoryFails(s) ==
  /\ s \in fetching
  /\ fetching' = fetching \ {s}
  /\ UNCHANGED <<panelVars, prompt, replay, panel, overlays, reported>>

Next ==
  \/ (Server \/ Wire) /\ UNCHANGED appVars
  \/ \E key \in Key : Press(key)
  \/ ExitSession \/ TypeTarget \/ Report
  \/ \E p \in Prompts : Debug(p)
  \/ StatusCommand \/ HistoryCommand
  \/ \E s \in Past : ResumeCommand(s) \/ HistoryArrives(s) \/ HistoryFails(s)

Spec == Init /\ [][Next]_vars

(* The server's awaits end, connections deliver, and an admin who is asked  *)
(* answers sooner or later.                                                *)
Deliver ==
  Receive \/ \E p \in posts : AnswerConfirmed(p) \/ AnswerFailed(p)

AnswerGate ==
  (\E key \in {"y", "n", "enter"} : GateTakes(key) /\ Press(key)) \/ TypeTarget

FairSpec ==
  Spec /\ WF_vars(Server /\ UNCHANGED appVars) /\ WF_vars(Deliver /\ UNCHANGED appVars)
       /\ WF_vars(AnswerGate)
-----------------------------------------------------------------------------
(* Properties. *)

TypeOK ==
  /\ srv \in [at : {"off", "pipeline", "cacheGate", "planGate", "running", "stepGate",
                    "verifying", "ended"},
              k : 0..NumSteps, started : 0..EarlyPhases, open : BOOLEAN, hit : BOOLEAN,
              how : Outcome]
  /\ sse \in Seq(Event)
  /\ posts \subseteq [kind : {"cache", "plan", "write", "destructive"}, k : 0..NumSteps,
                      sid : BOOLEAN, yes : BOOLEAN, st : {"sent", "ok", "failed"}]
  /\ gate \in Gate
  /\ view.status \in {"idle", "streaming", "awaiting-approval", "plan-approval",
                      "executing", "complete", "error"}
  /\ view.focus \in 0..Len(view.phases) /\ view.expanded \subseteq DOMAIN view.phases
  /\ lost \in 0..MaxLost /\ overtaken \in BOOLEAN
  /\ prompt \in Prompts \cup {None} /\ replay \in Past \cup {None}
  /\ panel \in Panel /\ overlays \subseteq {"status", "entity"} /\ fetching \subseteq Past
  /\ reported \in BOOLEAN

(* Nothing is on its way between the panel and the server. *)
Quiet == sse = <<>> /\ posts = {}

(* Once everything sent has arrived, the panel shows what the server waits  *)
(* for and can answer it, or shows the end of an ended request.  It gets    *)
(* out of step in two ways only: a POST failed and its gate takes no second *)
(* key, or a response was overtaken by a later event and undid it.  A gate  *)
(* for a cache hit is shown, and then cannot be answered.                   *)
InStep ==
  Quiet /\ lost = 0 /\ ~overtaken =>
    /\ srv.at = "cacheGate" => gate.kind = "cache"
    /\ srv.at = "planGate" => gate.kind = "plan" /\ ~gate.answered
    /\ srv.at = "stepGate" =>
         gate.kind \in {"write", "destructive"} /\ gate.k = srv.k /\ ~gate.answered
    /\ srv.at = "ended" => Final(view)

(* Esc does something on screen (App.tsx:84-88): it never leaves a replay     *)
(* that a session covers, no session leaves a report behind for the next one, *)
(* and when the application leaves Esc to the panel to collapse a phase, the   *)
(* panel's handler is on and has one to collapse.  Except at an open gate,     *)
(* which switches that handler off, and for the moment in which a change of    *)
(* the panel is not reported yet.                                            *)
EscapeIsVisible ==
  /\ EscapeAction = "exit-replay" => prompt = None
  /\ prompt = None => ~reported
  /\ EscapeAction = "collapse-phase" /\ reported = CanCollapse(view) =>
       \/ PhaseTakes /\ CanCollapse(view) /\ ~CanCollapse(PhaseKey(view, "esc"))
       \/ ~PhaseInputActive(view)

(* A session on screen reaches its end, is left, or is stuck for one of the *)
(* three reasons there are: a POST failed, an overtaken response, a cache   *)
(* hit that cannot be answered.  Whatever other keys are pressed meanwhile. *)
WatchedEnds ==
  prompt # None ~>
    (prompt = None \/ Final(view) \/ lost > 0 \/ overtaken \/ srv.at = "cacheGate")
=============================================================================
