---------------------------- MODULE CopilotPanel ----------------------------
(***************************************************************************)
(* SUE5MCPCopilotPanel, the tab in which the person at the editor reads    *)
(* the plan that awaits a decision and decides it.                         *)
(*                                                                         *)
(* The panel copies the pending plan's rows when the service tells it that *)
(* something changed, and the Approve button carries no plan id: it        *)
(* approves whatever awaits a decision when it is pressed.  Between the    *)
(* moment a person reads the rows and the moment the button goes down,     *)
(* clients submit plans and the editor moves on.                           *)
(***************************************************************************)
EXTENDS EditorService

VARIABLES
    open,   \* the tab is open: the panel is constructed and subscribed
    rows,   \* PlanRows: the plan whose actions are listed, or NoPlan
    aim     \* history: the plan the person read and means to approve, or NoPlan

panelVars == <<open, rows, aim>>
wholeVars == <<vars, panelVars>>

\* What RefreshFromService lists.
PendingRows == IF HasPendingPlan THEN CurrentPlanId ELSE NoPlan

\* IsApprovalAvailable: a plan that was validated before it took the slot has actions.
IsApproveEnabled == HasPendingPlan

\* As SaysNothing would be if no refusal were broadcast.
SaysNothingOfRefusals == reply'.code # "none"

\* A handler that refuses without leaving a record returns before it broadcasts.
SaysNothing == reply'.plan = NoPlan /\ reply'.code # "none"

\* OnStateChanged, at the end of every other handler of the service.
OnStateChanged ==
    rows' = IF open /\ ~SaysNothing THEN PendingRows' ELSE rows

Construct ==
    /\ ~open
    /\ open' = TRUE
    /\ rows' = PendingRows
    /\ UNCHANGED <<vars, aim>>

\* The destructor unsubscribes.
Destruct ==
    /\ open
    /\ open' = FALSE
    /\ rows' = NoPlan
    /\ aim' = NoPlan
    /\ UNCHANGED vars

\* The person reads the rows and makes up their mind.
ReadRows ==
    /\ open /\ rows # NoPlan
    /\ IsApproveEnabled
    /\ aim' = rows
    /\ UNCHANGED <<vars, open, rows>>

OnGeneratePlanClicked ==
    /\ open
    /\ Len(plans) < MaxPlans
    /\ GeneratePanelFolderPlan
    /\ OnStateChanged
    /\ aim' = NoPlan
    /\ UNCHANGED open

\* The button was enabled when it was last painted; the plan may be gone since.
OnApproveClicked ==
    /\ open
    /\ ApproveCurrentPlan
    /\ OnStateChanged
    /\ aim' = NoPlan
    /\ UNCHANGED open

OnClearClicked ==
    /\ open
    /\ ClearCurrentPlan
    /\ OnStateChanged
    /\ aim' = NoPlan
    /\ UNCHANGED open

\* A client's plan reaches the service by way of the bridge.
BridgeCall ==
    /\ Len(plans) < MaxPlans
    /\ \E r \in Requests : \/ SubmitPlanRequest(r, "Bridge")
                           \/ PreviewPlanRequest(r)
                           \/ SubmitExternalPlan(r)
    /\ OnStateChanged
    /\ UNCHANGED <<open, aim>>

\* The editor and the settings change under the panel, which is not told.
ElsewhereInTheEditor == Environment /\ UNCHANGED panelVars

PanelInit ==
    /\ Init
    /\ open = FALSE
    /\ rows = NoPlan
    /\ aim = NoPlan

PanelNext ==
    \/ Construct \/ Destruct \/ ReadRows
    \/ OnGeneratePlanClicked \/ OnApproveClicked \/ OnClearClicked
    \/ BridgeCall
    \/ ElsewhereInTheEditor

PanelSpec == PanelInit /\ [][PanelNext]_wholeVars

-----------------------------------------------------------------------------
(***************************************************************************)
(* Properties.                                                             *)
(***************************************************************************)
\* The rows on screen are those of the plan a click would approve, and the
\* screen is empty exactly when a click would approve nothing: no path through
\* the service changes the slot, or pushes its plan out, without telling the panel.
RowsAreThePendingPlan == open => rows = PendingRows

\* A click runs the plan that is listed when the button goes down, and that is the
\* plan the person had read: whatever was submitted, refused or previewed since, no
\* other has come in its place, unless MaxRecords younger plans have pushed it out.
ClickRunsWhatWasRead ==
    [][\A id \in PlanIds :
          plans'[id].gate = "click" /\ plans[id].runs = 0 =>
              /\ id = rows
              /\ aim \in {NoPlan, id} \/ aim + MaxRecords <= Len(plans)]_wholeVars

=============================================================================
