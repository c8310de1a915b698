----------------------------- MODULE OAuthSetup -----------------------------
(***************************************************************************)
(* Connecting a Google Drive or OneDrive account: the rclone child that    *)
(* waits for the browser, the two tables of AppState that hold a setup     *)
(* between calls, and the destination selector of the frontend, which      *)
(* begins a setup, polls it every two seconds, and may cancel it.          *)
(*                                                                         *)
(* Every call of the frontend is asynchronous, and the state it finds when *)
(* the answer comes may not be the one it left.  A setup is numbered in    *)
(* the order of the calls; rclone's questions are reduced to how they end. *)
(***************************************************************************)
EXTENDS Naturals

CONSTANTS
    MaxSetups,  \* bound: setups begun
    NoId,
    Habits      \* what the user may do besides: see the guards that name them

Ids   == 1..MaxSetups
Kinds == {"local", "google", "onedrive"}

ASSUME OAuthConstants ==
    /\ MaxSetups \in Nat \ {0} /\ NoId \notin Ids
    /\ Habits \subseteq {"hasty", "switch", "cross", "leave"}

VARIABLES
    setup,      \* what there is of each setup in the backend
    begun,      \* setups begun so far
    task,       \* the frontend's task of each setup: where it is
    pick,       \* the select_oauth_drive call of each setup
    cancels,    \* cancel_oauth_setup calls under way
    kind,       \* the kind of destination selected in the form
    flow,       \* OAuthFlowState
    chosen      \* the setup whose configuration the form holds; 0, a local folder

setupVars == <<setup, begun, task, pick, cancels, kind, flow, chosen>>

NoSetup == [provider |-> NoId, child |-> "none", conf |-> "none", place |-> "none",
            old |-> FALSE, left |-> FALSE]
NoFlow  == [st |-> "idle", id |-> NoId]
Flow(st, i) == [st |-> st, id |-> i]

(* OAuthFlowState, as the form disables its button by it.                  *)
FlowPending == flow.st \in {"starting", "waiting", "selecting", "finishing"}

SetupInit ==
    /\ setup = [i \in Ids |-> NoSetup]
    /\ begun = 0
    /\ task = [i \in Ids |-> "none"]
    /\ pick = [i \in Ids |-> "none"]
    /\ cancels = {}
    /\ kind = "local" /\ flow = NoFlow /\ chosen = 0

(* cleanup_oauth_temp, complete_oauth_setup and cancel_oauth_setup all end *)
(* with the setup in no table, its child killed and its conf removed; a    *)
(* failure to kill or to remove is at most logged.  "left" remembers what  *)
(* failed.                                                                  *)
Gone(s) == {[s EXCEPT !.child = c, !.conf = f, !.place = "gone",
                      !.left = @ \/ c = "running" \/ f # "none"] :
               c \in {"none", s.child}, f \in {"none", s.conf}}
Ended(i) == \E s \in Gone(setup[i]) : setup' = [setup EXCEPT ![i] = s]

-----------------------------------------------------------------------------
(* The destination selector.                                               *)

(* Mutant of CancelOnSwitch: turning to another kind cancels nothing.      *)
CancelOnSwitchNone == {}

(* Only a setup that waits for the browser is cancelled when the user      *)
(* turns to another kind; its poll may be past the table by then.          *)
CancelOnSwitch == IF flow.st = "waiting" THEN {flow.id} ELSE {}

Unhurried(i) == "cross" \in Habits \/ task[i] = "sleep"

SelectKind(k) ==
    /\ k # kind
    /\ "switch" \notin Habits => flow.st \notin {"starting", "selecting", "finishing"}
    /\ flow.st = "waiting" => Unhurried(flow.id)
    /\ cancels' = cancels \cup CancelOnSwitch
    /\ flow' = NoFlow /\ kind' = k
    /\ chosen' = IF k = "local" THEN 0 ELSE chosen
    /\ UNCHANGED <<setup, begun, task, pick>>

(* The Connect button.                                                     *)
Connect ==
    /\ kind # "local" /\ flow.st \in {"idle", "failed"} /\ begun < MaxSetups
    /\ "hasty" \notin Habits => \A i \in Ids : task[i] \in {"none", "ended"}
    /\ begun' = begun + 1
    /\ flow' = Flow("starting", NoId)
    /\ task' = [task EXCEPT ![begun'] = "begin"]
    /\ setup' = [setup EXCEPT ![begun'] = [@ EXCEPT !.provider = kind]]
    /\ UNCHANGED <<pick, cancels, kind, chosen>>

(* The Cancel button, while waiting and at the drive chooser.              *)
CancelSetup ==
    /\ flow.st \in {"waiting", "selecting"}
    /\ flow.st = "waiting" => Unhurried(flow.id)
    /\ cancels' = cancels \cup {flow.id}
    /\ flow' = NoFlow
    /\ UNCHANGED <<setup, begun, task, pick, kind, chosen>>

(* The form is left: its signals are gone, and so are its tasks.           *)
LeavePage ==
    /\ "leave" \notin Habits => ~FlowPending
    /\ kind' = "local" /\ flow' = NoFlow /\ chosen' = 0
    /\ task' = [i \in Ids |-> IF i <= begun THEN "ended" ELSE "none"]
    /\ pick' = [i \in Ids |-> "none"]
    /\ UNCHANGED <<setup, begun, cancels>>

-----------------------------------------------------------------------------
(* Beginning a setup.                                                      *)

(* begin_oauth_setup: config create writes the conf, the child serves the  *)
(* sign-in page.  Failing, it leaves the conf, which has no token yet, and *)
(* when the child was spawned already (no address read from its stderr),   *)
(* the child too: dropping it does not kill it.                             *)
Started(s) == [s EXCEPT !.conf = "bare", !.child = "running"]
Refused(s) == {[s EXCEPT !.conf = c] : c \in {"none", "bare"}}
              \cup {[Started(s) EXCEPT !.left = TRUE]}

(* The command around it puts the handle into the table of setups.         *)
BeginSetup(i, provider) ==
    /\ task[i] = "begin" /\ setup[i].provider = provider
    /\ \/ /\ setup' = [setup EXCEPT ![i] = [Started(@) EXCEPT !.place = "setups"]]
          /\ task' = [task EXCEPT ![i] = "began"]
       \/ /\ \E s \in Refused(setup[i]) : setup' = [setup EXCEPT ![i] = s]
          /\ task' = [task EXCEPT ![i] = "refused"]
    /\ UNCHANGED <<begun, pick, cancels, kind, flow, chosen>>

BeginGoogleDrive(i) == BeginSetup(i, "google")
BeginOneDrive(i)    == BeginSetup(i, "onedrive")

(* Whatever the form shows by now, it waits for this setup.                *)
BeginAnswer(i) ==
    /\ \/ task[i] = "began" /\ flow' = Flow("waiting", i)
                            /\ task' = [task EXCEPT ![i] = "sleep"]
       \/ task[i] = "refused" /\ flow' = Flow("failed", NoId)
                              /\ task' = [task EXCEPT ![i] = "ended"]
    /\ UNCHANGED <<setup, begun, pick, cancels, kind, chosen>>

(* rclone in the browser: the token is in the conf, or the child gave up.  *)
Browser(i) ==
    /\ setup[i].child = "running"
    /\ \/ setup' = [setup EXCEPT ![i] = [@ EXCEPT !.child = "done", !.conf = "token"]]
       \/ setup' = [setup EXCEPT ![i] = [@ EXCEPT !.child = "failed"]]
    /\ UNCHANGED <<begun, task, pick, cancels, kind, flow, chosen>>

(* 180 seconds have passed since the setup was begun.                      *)
GrowOld(i) ==
    /\ setup[i].place = "setups" /\ ~setup[i].old
    /\ setup' = [setup EXCEPT ![i] = [@ EXCEPT !.old = TRUE]]
    /\ UNCHANGED <<begun, task, pick, cancels, kind, flow, chosen>>

-----------------------------------------------------------------------------
(* Polling it.                                                             *)

(* Mutant of Wake: a loop that never looks at the form.                    *)
WakeAlways(i) ==
    /\ task[i] = "sleep"
    /\ task' = [task EXCEPT ![i] = "poll"]
    /\ UNCHANGED <<setup, begun, pick, cancels, kind, flow, chosen>>

(* The loop goes on as long as the form waits for the browser, for         *)
(* whichever setup that is.  Its own limit of 150 polls is never met: they *)
(* take 300 seconds, and after 180 no poll is answered with "pending".     *)
Wake(i) ==
    /\ task[i] = "sleep"
    /\ task' = [task EXCEPT ![i] = IF flow.st = "waiting" THEN "poll" ELSE "ended"]
    /\ UNCHANGED <<setup, begun, pick, cancels, kind, flow, chosen>>

(* Mutant of TimedOut: a poll that never gives up.                         *)
TimedOutNever(i) == FALSE

(* A child that still waits after its time is killed.                      *)
TimedOut(i) == setup[i].old /\ setup[i].child = "running"

(* poll_oauth_setup up to the child's exit: the setup leaves the table     *)
(* before rclone's remaining questions are answered.  When the child's     *)
(* state cannot be read the setup stays there, and nobody polls it again.  *)
Poll(i) ==
    LET s == setup[i] IN
    /\ task[i] = "poll"
    /\ \/ /\ s.place # "setups"
          /\ task' = [task EXCEPT ![i] = "not_found"] /\ UNCHANGED setup
       \/ /\ s.place = "setups" /\ (TimedOut(i) \/ s.child = "failed")
          /\ task' = [task EXCEPT ![i] = "failed"]
          /\ Ended(i)
       \/ /\ s.place = "setups"
          /\ task' = [task EXCEPT ![i] = "failed"]
          /\ setup' = [setup EXCEPT ![i] = [@ EXCEPT !.left = TRUE]]
       \/ /\ s.place = "setups" /\ s.child = "running" /\ ~TimedOut(i)
          /\ task' = [task EXCEPT ![i] = "pending"] /\ UNCHANGED setup
       \/ /\ s.place = "setups" /\ s.child = "done"
          /\ task' = [task EXCEPT ![i] = "config"]
          /\ setup' = [setup EXCEPT ![i] = [@ EXCEPT !.place = "taken"]]
    /\ UNCHANGED <<begun, pick, cancels, kind, flow, chosen>>

(* rclone's remaining questions get its own defaults, at most 32 of them;  *)
(* only which of several OneDrive drives to take is for the user.          *)
MultipleDrives(i) == setup[i].provider = "onedrive"

(* drive_config_after_browser.                                             *)
Configure(i) ==
    /\ task[i] = "config"
    /\ \/ task' = [task EXCEPT ![i] = "completed"] /\ Ended(i)
       \/ /\ MultipleDrives(i)
          /\ task' = [task EXCEPT ![i] = "drives"]
          /\ setup' = [setup EXCEPT ![i] = [@ EXCEPT !.place = "pending"]]
       \/ task' = [task EXCEPT ![i] = "failed"] /\ Ended(i)
    /\ UNCHANGED <<begun, pick, cancels, kind, flow, chosen>>

(* The answer of a poll, taken without another look at the form's state.   *)
PollAnswer(i) ==
    /\ \/ /\ task[i] = "pending"
          /\ task' = [task EXCEPT ![i] = "sleep"] /\ UNCHANGED <<flow, chosen>>
       \/ /\ task[i] \in {"failed", "not_found"}
          /\ task' = [task EXCEPT ![i] = "ended"]
          /\ flow' = Flow("failed", NoId) /\ UNCHANGED chosen
       \/ /\ task[i] = "drives"
          /\ task' = [task EXCEPT ![i] = "ended"]
          /\ flow' = Flow("selecting", i) /\ UNCHANGED chosen
       \/ /\ task[i] = "completed"
          /\ task' = [task EXCEPT ![i] = "ended"]
          /\ flow' = Flow("completed", NoId) /\ chosen' = i
    /\ UNCHANGED <<setup, begun, pick, cancels, kind>>

-----------------------------------------------------------------------------
(* Choosing a drive, and cancelling.                                       *)

PickDrive ==
    /\ flow.st = "selecting"
    /\ pick' = [pick EXCEPT ![flow.id] = "asked"]
    /\ flow' = Flow("finishing", flow.id)
    /\ UNCHANGED <<setup, begun, task, cancels, kind, chosen>>

(* select_oauth_drive takes the setup out of the table of paused ones.     *)
SelectDrive(i) ==
    /\ pick[i] = "asked"
    /\ IF setup[i].place = "pending"
       THEN /\ setup' = [setup EXCEPT ![i] = [@ EXCEPT !.place = "taken"]]
            /\ pick' = [pick EXCEPT ![i] = "config"]
       ELSE pick' = [pick EXCEPT ![i] = "failed"] /\ UNCHANGED setup
    /\ UNCHANGED <<begun, task, cancels, kind, flow, chosen>>

(* resume_oauth_with_selected_drive: the conf goes however it ends.        *)
FinishDrive(i) ==
    /\ pick[i] = "config"
    /\ \E end \in {"completed", "failed"} : pick' = [pick EXCEPT ![i] = end]
    /\ Ended(i)
    /\ UNCHANGED <<begun, task, cancels, kind, flow, chosen>>

PickAnswer(i) ==
    /\ \/ pick[i] = "completed" /\ flow' = Flow("completed", NoId) /\ chosen' = i
       \/ pick[i] = "failed" /\ flow' = Flow("failed", NoId) /\ UNCHANGED chosen
    /\ pick' = [pick EXCEPT ![i] = "none"]
    /\ UNCHANGED <<setup, begun, task, cancels, kind>>

(* cancel_oauth_setup finds a paused setup, or one whose child still runs; *)
(* one that a poll or a choice has taken is in neither table.              *)
Cancellable(i) == setup[i].place \in {"pending", "setups"}

(* The child is killed and the conf removed.                               *)
Cancel(i) ==
    /\ i \in cancels
    /\ cancels' = cancels \ {i}
    /\ IF Cancellable(i) THEN Ended(i) ELSE UNCHANGED setup
    /\ UNCHANGED <<begun, task, pick, kind, flow, chosen>>

SetupNext ==
    \/ \E k \in Kinds : SelectKind(k)
    \/ Connect \/ CancelSetup \/ LeavePage \/ PickDrive
    \/ \E i \in Ids :
          \/ BeginGoogleDrive(i) \/ BeginOneDrive(i) \/ BeginAnswer(i)
          \/ Browser(i) \/ GrowOld(i)
          \/ Wake(i) \/ Poll(i) \/ Configure(i) \/ PollAnswer(i)
          \/ SelectDrive(i) \/ FinishDrive(i) \/ PickAnswer(i) \/ Cancel(i)

SetupSpec == SetupInit /\ [][SetupNext]_setupVars

(* Tasks of the runtime run, calls are answered, the two-second sleep ends *)
(* and the clock moves on; the user and the browser owe nothing.           *)
Fairness ==
    \A i \in Ids :
        /\ WF_setupVars(BeginGoogleDrive(i)) /\ WF_setupVars(BeginOneDrive(i))
        /\ WF_setupVars(BeginAnswer(i)) /\ WF_setupVars(GrowOld(i))
        /\ WF_setupVars(Wake(i)) /\ WF_setupVars(Poll(i)) /\ WF_setupVars(Configure(i))
        /\ WF_setupVars(PollAnswer(i)) /\ WF_setupVars(SelectDrive(i))
        /\ WF_setupVars(FinishDrive(i)) /\ WF_setupVars(PickAnswer(i)) /\ WF_setupVars(Cancel(i))

FairSpec == SetupSpec /\ Fairness

-----------------------------------------------------------------------------
Live(i) == setup[i].child = "running" \/ setup[i].conf = "token"

Watched(i) ==
    \/ i \in cancels
    \/ flow.id = i /\ FlowPending
    \/ flow.st = "starting" /\ task[i] = "began"

(* A child that serves the sign-in page, or a conf that holds a token, is  *)
(* never forgotten: the form still waits for that setup or is cancelling   *)
(* it, so that it will be polled, resumed or removed (state.rs: "must be   *)
(* cleaned up on either path").  Excepted is what a begin that failed      *)
(* after the spawn, a poll that could not read the child's state, or a     *)
(* failed kill or removal left behind.                                      *)
NothingAbandoned == \A i \in Ids : Live(i) /\ ~setup[i].left => Watched(i)

(* A connection changes the form only while the form waits for it: not     *)
(* after a Cancel, and not after the user turned to another kind.          *)
CompletionWanted ==
    [][chosen' # chosen /\ chosen' \in Ids => flow.id = chosen' /\ FlowPending]_setupVars

(* The wait for the browser ends, if by nothing else then by the timeout   *)
(* of poll_oauth_setup.                                                    *)
WaitEnds == \A i \in Ids : flow = Flow("waiting", i) ~> flow # Flow("waiting", i)

(* A setup paused at the drive chooser is removed in the end: what the     *)
(* comment on PendingDriveSelection::started_at says the field is for.     *)
PauseEnds == \A i \in Ids : setup[i].place = "pending" ~> setup[i].place # "pending"

(* What the form would submit is of the kind it shows as selected.         *)
FormMatches ==
    ~FlowPending => IF chosen \in Ids THEN setup[chosen].provider = kind ELSE kind = "local"
=============================================================================
