----------------------------- MODULE RadioGroup -----------------------------
(***************************************************************************)
(* A GWM radio group and its buttons (src/libgwm/radio.c): the group's     *)
(* doubly linked button list (first/last, prev/next), each button's value, *)
(* disabled flag and pointer state, the group's value, and what each       *)
(* button last drew: the check mark (value = group value) and the image    *)
(* row (its state, or DISABLED).  Buttons are model values standing for    *)
(* GWMRadioData blocks, which malloc may hand out again after a free.      *)
(* The parent's answer to the COMMAND event is a free choice: DEFAULT lets *)
(* the button select itself, anything else means the parent handled it.   *)
(* Text, pens, sizes and positions are left out.                           *)
(***************************************************************************)
EXTENDS Naturals, Sequences, FiniteSets

CONSTANTS
  Btn,      \* GWMRadioData blocks
  Values,   \* small set of int values
  NULL

VARIABLES
  first, last,  \* group->first, group->last
  next, prev,   \* data->next, data->prev
  alive,        \* the buttons that exist
  value,        \* data->value
  disabled,     \* data->flags & GWM_RADIO_DISABLED
  state,        \* data->state: "normal", "hover", "pressed"
  groupValue,   \* group->value
  groupAlive,   \* the group is not destroyed
  shownOn,      \* the check mark the button last drew
  shownRow,     \* the image row the button last drew
  posted,       \* events posted to the parent by the last step
  fault         \* "none", or "assert" when gwmDestroyRadioGroup aborts

vars == <<first, last, next, prev, alive, value, disabled, state, groupValue,
          groupAlive, shownOn, shownRow, posted, fault>>

RECURSIVE Walk(_, _)
Walk(b, s) == IF b = NULL \/ Len(s) > Cardinality(Btn) THEN s
              ELSE Walk(next[b], Append(s, b))

\* The buttons gwmRedrawRadioGroup visits, from first along next.
Members == Walk(first, <<>>)

-----------------------------------------------------------------------------
(* gwmRedrawRadio (lines 84-117), the part that depends on the model.      *)
Row(b) == IF disabled[b] THEN "disabled" ELSE state[b]

RedrawOne(b) ==
  /\ shownOn' = [shownOn EXCEPT ![b] = (value'[b] = groupValue')]
  /\ shownRow' = [shownRow EXCEPT ![b] = Row(b)']

\* gwmRedrawRadioGroup (lines 119-126): every button from first along next.
RedrawGroup ==
  LET vis == {Members[i] : i \in 1..Len(Members)} IN
  /\ shownOn' = [b \in Btn |-> IF b \in vis THEN value'[b] = groupValue'
                                            ELSE shownOn[b]]
  /\ shownRow' = [b \in Btn |-> IF b \in vis THEN Row(b)' ELSE shownRow[b]]

-----------------------------------------------------------------------------
(* gwmCreateRadioGroup (lines 69-76), then no buttons.                     *)
Init ==
  /\ first = NULL /\ last = NULL
  /\ next = [b \in Btn |-> NULL] /\ prev = [b \in Btn |-> NULL]
  /\ alive = {}
  /\ value = [b \in Btn |-> CHOOSE v \in Values : TRUE]
  /\ disabled = [b \in Btn |-> FALSE]
  /\ state = [b \in Btn |-> "normal"]
  /\ groupValue \in Values
  /\ groupAlive = TRUE
  /\ shownOn = [b \in Btn |-> FALSE] /\ shownRow = [b \in Btn |-> "normal"]
  /\ posted = <<>>
  /\ fault = "none"

\* Mutant: data->prev = group->last (line 224) left out.
CreateRadioButtonNoPrev(b, v, dis) ==
  /\ groupAlive /\ b \notin alive
  /\ alive' = alive \cup {b}
  /\ value' = [value EXCEPT ![b] = v]
  /\ disabled' = [disabled EXCEPT ![b] = dis]
  /\ state' = [state EXCEPT ![b] = "normal"]
  /\ IF last = NULL
     THEN first' = b /\ next' = [next EXCEPT ![b] = NULL]
     ELSE next' = [next EXCEPT ![last] = b, ![b] = NULL] /\ UNCHANGED first
  /\ last' = b
  /\ posted' = <<>>
  /\ UNCHANGED <<prev, groupValue, groupAlive, fault>>
  /\ RedrawOne(b)

(* gwmCreateRadioButton (lines 213-246): fill in the data, append it to    *)
(* the group's list, draw it.                                              *)
CreateRadioButton(b, v, dis) ==
  /\ groupAlive /\ b \notin alive
  /\ alive' = alive \cup {b}
  /\ value' = [value EXCEPT ![b] = v]
  /\ disabled' = [disabled EXCEPT ![b] = dis]
  /\ state' = [state EXCEPT ![b] = "normal"]
  /\ prev' = [prev EXCEPT ![b] = last]
  /\ IF last = NULL
     THEN first' = b /\ next' = [next EXCEPT ![b] = NULL]
     ELSE next' = [next EXCEPT ![last] = b, ![b] = NULL] /\ UNCHANGED first
  /\ last' = b
  /\ posted' = <<>>
  /\ UNCHANGED <<groupValue, groupAlive, fault>>
  /\ RedrawOne(b)

\* A freed GWMRadioData is never read again, and gwmCreateRadioButton sets
\* every field it holds; its contents are reset to one representative.
Forget(b) ==
  /\ value' = [value EXCEPT ![b] = CHOOSE v \in Values : TRUE]
  /\ disabled' = [disabled EXCEPT ![b] = FALSE]
  /\ state' = [state EXCEPT ![b] = "normal"]
  /\ shownOn' = [shownOn EXCEPT ![b] = FALSE]
  /\ shownRow' = [shownRow EXCEPT ![b] = "normal"]

\* Mutant: the group->last update of lines 283-286 left out.
DestroyRadioButtonKeepLast(b) ==
  /\ groupAlive /\ b \in alive
  /\ alive' = alive \ {b}
  /\ first' = IF first = b THEN next[b] ELSE first
  /\ next' = [n \in Btn |-> CASE n = b       -> NULL
                               [] n = prev[b] -> next[b]
                               [] OTHER       -> next[n]]
  /\ prev' = [n \in Btn |-> CASE n = b       -> NULL
                               [] n = next[b] -> prev[b]
                               [] OTHER       -> prev[n]]
  /\ Forget(b)
  /\ posted' = <<>>
  /\ UNCHANGED <<last, groupValue, groupAlive, fault>>

(* gwmDestroyRadioButton (lines 274-300): unlink (the prev/next tests of  *)
(* lines 288-296 are the NULL cases of the CASEs), free.                   *)
DestroyRadioButton(b) ==
  /\ groupAlive /\ b \in alive
  /\ alive' = alive \ {b}
  /\ first' = IF first = b THEN next[b] ELSE first
  /\ last' = IF last = b THEN prev[b] ELSE last
  /\ next' = [n \in Btn |-> CASE n = b       -> NULL
                               [] n = prev[b] -> next[b]
                               [] OTHER       -> next[n]]
  /\ prev' = [n \in Btn |-> CASE n = b       -> NULL
                               [] n = next[b] -> prev[b]
                               [] OTHER       -> prev[n]]
  /\ Forget(b)
  /\ posted' = <<>>
  /\ UNCHANGED <<groupValue, groupAlive, fault>>

(* gwmDestroyRadioGroup (lines 78-82): assert(group->first == NULL).       *)
DestroyRadioGroup ==
  /\ groupAlive
  /\ IF first = NULL THEN groupAlive' = FALSE /\ UNCHANGED fault
                     ELSE fault' = "assert" /\ UNCHANGED groupAlive
  /\ posted' = <<>>
  /\ UNCHANGED <<first, last, next, prev, alive, value, disabled, state,
                 groupValue, shownOn, shownRow>>

(* gwmSetRadioGroupValue (lines 133-137).                                  *)
SetRadioGroupValue(v) ==
  /\ groupAlive
  /\ groupValue' = v
  /\ posted' = <<>>
  /\ UNCHANGED <<first, last, next, prev, alive, value, disabled, state,
                 groupAlive, fault>>
  /\ RedrawGroup

(* gwmSetRadioButtonValue (lines 253-258).                                 *)
SetRadioButtonValue(b, v) ==
  /\ b \in alive
  /\ value' = [value EXCEPT ![b] = v]
  /\ posted' = <<>>
  /\ UNCHANGED <<first, last, next, prev, alive, disabled, state, groupValue,
                 groupAlive, fault>>
  /\ RedrawOne(b)

-----------------------------------------------------------------------------
(* gwmRadioHandler (lines 139-196).                                        *)

\* GWM_EVENT_ENTER: hover, redraw.  FOCUS_OUT and LEAVE: normal, redraw.
\* DOWN with the left button: pressed, redraw.  RETHEME: redraw.
PointerEvent(b, st) ==
  /\ b \in alive
  /\ state' = [state EXCEPT ![b] = st]
  /\ posted' = <<>>
  /\ UNCHANGED <<first, last, next, prev, alive, value, disabled, groupValue,
                 groupAlive, fault>>
  /\ RedrawOne(b)

Retheme(b) ==
  /\ b \in alive
  /\ posted' = <<>>
  /\ UNCHANGED <<first, last, next, prev, alive, value, disabled, state,
                 groupValue, groupAlive, fault>>
  /\ RedrawOne(b)

(* gwmSetRadioButtonLabel (lines 260-266) and radioPosition (lines        *)
(* 205-211): the label text and the geometry are not modelled; what is     *)
(* left of each is the redraw of the one button.                           *)
SetRadioButtonLabel(b) == Retheme(b)

radioPosition(b) == Retheme(b)

\* Mutant: the selection redraws the clicked button only.
UpSelectRedrawSelf(b) ==
  /\ groupValue' = value[b]
  /\ posted' = <<"command", "toggled">>
  /\ RedrawOne(b)

\* Lines 175-185: the parent let COMMAND through, so the button's value
\* becomes the group's, the group is redrawn, and TOGGLED is posted.
UpSelect(b) ==
  /\ groupValue' = value[b]
  /\ posted' = <<"command", "toggled">>
  /\ RedrawGroup

(* GWM_EVENT_UP with the left button (lines 161-189).  A press released   *)
(* on the button becomes hover without a redraw of its own; an enabled     *)
(* button posts COMMAND and, if the parent returns DEFAULT, selects.       *)
LeftUp(b) ==
  /\ b \in alive
  /\ state[b] = "pressed"
  /\ state' = [state EXCEPT ![b] = "hover"]
  /\ UNCHANGED <<first, last, next, prev, alive, value, disabled, groupAlive,
                 fault>>
  /\ \/ /\ disabled[b]
        /\ posted' = <<>>
        /\ UNCHANGED <<groupValue, shownOn, shownRow>>
     \/ /\ ~disabled[b]
        /\ posted' = <<"command">>
        /\ UNCHANGED <<groupValue, shownOn, shownRow>>
     \/ /\ ~disabled[b]
        /\ UpSelect(b)

Next ==
  \/ \E b \in Btn, v \in Values, dis \in BOOLEAN : CreateRadioButton(b, v, dis)
  \/ \E b \in Btn : DestroyRadioButton(b)
  \/ DestroyRadioGroup
  \/ \E v \in Values : SetRadioGroupValue(v)
  \/ \E b \in Btn, v \in Values : SetRadioButtonValue(b, v)
  \/ \E b \in Btn, st \in {"normal", "hover", "pressed"} : PointerEvent(b, st)
  \/ \E b \in Btn : Retheme(b)
  \/ \E b \in Btn : SetRadioButtonLabel(b)
  \/ \E b \in Btn : radioPosition(b)
  \/ \E b \in Btn : LeftUp(b)

Spec == Init /\ [][fault = "none" /\ Next]_vars

-----------------------------------------------------------------------------
TypeOK ==
  /\ first \in alive \cup {NULL} /\ last \in alive \cup {NULL}
  /\ next \in [Btn -> Btn \cup {NULL}] /\ prev \in [Btn -> Btn \cup {NULL}]
  /\ alive \subseteq Btn
  /\ value \in [Btn -> Values] /\ disabled \in [Btn -> BOOLEAN]
  /\ state \in [Btn -> {"normal", "hover", "pressed"}]
  /\ groupValue \in Values /\ groupAlive \in BOOLEAN
  /\ shownOn \in [Btn -> BOOLEAN]
  /\ shownRow \in [Btn -> {"normal", "hover", "pressed", "disabled"}]
  /\ posted \in Seq({"command", "toggled"})
  /\ fault \in {"none", "assert"}

(* Creation appends and destruction unlinks so that the list walked from   *)
(* first along next holds every live button once, ends at last, and prev   *)
(* mirrors next: the redraw of the group reaches every button.             *)
GroupListWellFormed ==
  LET m == Members IN
  /\ {m[i] : i \in 1..Len(m)} = alive
  /\ Len(m) = Cardinality(alive)
  /\ last = IF m = <<>> THEN NULL ELSE m[Len(m)]
  /\ \A i \in 1..Len(m) : prev[m[i]] = IF i = 1 THEN NULL ELSE m[i - 1]

(* Every live button shows the check mark exactly when its value is the    *)
(* group's value, after any selection, value change or list edit.         *)
SelectionShown ==
  \A b \in alive : shownOn[b] = (value[b] = groupValue)

(* Every live button shows the image of its current pointer state (or the  *)
(* disabled image): each change of data->state is followed by a redraw.  *)
StateShown ==
  \A b \in alive : shownRow[b] = Row(b)
=============================================================================
