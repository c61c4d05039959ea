------------------------------- MODULE Forms --------------------------------
(***************************************************************************)
(* A form whose fields are validated while they are edited: FieldStore,    *)
(* FormStore and useShowError in packages/front/src/utils/forms.ts, with   *)
(* the component Field and the views that submit a form.                   *)
(*                                                                         *)
(* A field may have validations that take a while, on a server say: they   *)
(* start a little after the last change, and what was changed meanwhile    *)
(* must not get the verdict on what it was before.                         *)
(***************************************************************************)
CONSTANTS
    Field, Value, Empty, NoRun,   \* NoRun is no value: no validation is under way
    Required,     \* fields that must not be empty
    Checked,      \* fields with validations, ...
    Async,        \* and with asynchronous ones
    Bad, AsyncBad, \* pairs of a field and a value that fail them
    Mode          \* when errors of a field are shown

ASSUME FormsAssumption == Empty \in Value /\ NoRun \notin Value

VARIABLES
    form,      \* each field's state: of the store, and of the hook of its component;
               \* `meddled`, that an error was set or cleared by hand since the last
               \* verdict, is history
    sending    \* has the form been submitted, with no answer yet?

formsVars == <<form, sending>>

FieldState == [value: Value, disabled: BOOLEAN, valid: BOOLEAN,
               error: {"none", "required", "validation", "external"},
               validating: BOOLEAN, due: BOOLEAN, run: Value \cup {NoRun},
               focused: BOOLEAN, touched: BOOLEAN, show: BOOLEAN, meddled: BOOLEAN]

FormsTypeOK == form \in [Field -> FieldState] /\ sending \in BOOLEAN

-----------------------------------------------------------------------------
(* Validation *)

ShouldShow(f, p) ==
    LET mode == IF p.error = "external" THEN "onChange" ELSE Mode[f][p.error] IN
    /\ ~p.valid /\ p.error # "none"
    /\ \/ mode = "onChange"
       \/ mode = "onChangeTouched" /\ p.touched
       \/ mode = "onBlur" /\ ~p.focused
       \/ mode = "onBlurTouched" /\ ~p.focused /\ p.touched

\* What listeners to "validate" do: the hook decides anew.
Emit(f, p) == [p EXCEPT !.show = ShouldShow(f, p)]

Verdict(f, p, error) ==
    Emit(f, [p EXCEPT !.valid = error = "none", !.error = error, !.meddled = FALSE])

\* Mutant of CancelValidation: a validation that has begun is let go on.
CancelTimer(p) == IF p.validating THEN [p EXCEPT !.due = FALSE, !.validating = FALSE] ELSE p

CancelValidation(p) ==
    IF p.validating THEN [p EXCEPT !.due = FALSE, !.run = NoRun, !.validating = FALSE] ELSE p

\* Asynchronous validations are looked at only where there are others too.
Validate(f, p) ==
    LET q == CancelValidation(p) IN
    IF q.value = Empty THEN Verdict(f, q, IF f \in Required THEN "required" ELSE "none")
    ELSE IF f \in Checked /\ <<f, q.value>> \in Bad THEN Verdict(f, q, "validation")
    ELSE IF f \in Checked /\ f \in Async THEN [q EXCEPT !.validating = TRUE, !.due = TRUE]
    ELSE Verdict(f, q, "none")

Put(f, p) == form' = [form EXCEPT ![f] = p] /\ UNCHANGED sending

Change(f, v) == Put(f, Validate(f, [form[f] EXCEPT !.value = v]))

\* The debounced function runs; several validations in turn are taken for one.
AsyncValidate(f) ==
    /\ form[f].due
    /\ Put(f, [form[f] EXCEPT !.due = FALSE, !.run = form[f].value])

AsyncAnswer(f) ==
    LET p == form[f] IN
    /\ p.run # NoRun
    /\ Put(f, Verdict(f, [p EXCEPT !.run = NoRun, !.validating = FALSE],
                      IF <<f, p.run>> \in AsyncBad THEN "validation" ELSE "none"))

\* A validation that fails to answer leaves the field validating, until it changes.
AsyncFails(f) ==
    /\ form[f].run # NoRun
    /\ Put(f, [form[f] EXCEPT !.run = NoRun])

-----------------------------------------------------------------------------
(* The component and the form *)

Focus(f) == Put(f, [form[f] EXCEPT !.focused = TRUE, !.touched = TRUE])

\* What is shown is decided as if the focus had gone; that it has is not kept.
Blur(f) == Put(f, [form[f] EXCEPT !.show = ShouldShow(f, [form[f] EXCEPT !.focused = FALSE])])

SetError(f) ==
    Put(f, [Emit(f, [form[f] EXCEPT !.valid = FALSE, !.error = "external"])
               EXCEPT !.meddled = TRUE])

ClearError(f) ==
    Put(f, [form[f] EXCEPT !.valid = TRUE, !.error = "none", !.meddled = TRUE])

Toggle(f) == Put(f, [form[f] EXCEPT !.disabled = ~@])

Enabled == {f \in Field : ~form[f].disabled}

FormValid == \A f \in Enabled : form[f].valid /\ ~form[f].validating

Reset ==
    /\ form' = [f \in Field |-> Validate(f, [form[f] EXCEPT !.value = Empty, !.touched = FALSE])]
    /\ UNCHANGED sending

\* The button is there only for a form that is valid and not being sent.
Submit ==
    /\ FormValid /\ ~sending
    /\ sending' = TRUE
    /\ UNCHANGED form

Sent ==
    /\ sending
    /\ sending' = FALSE
    /\ UNCHANGED form

\* The constructor changes each field to its initial value; no component is there yet.
FormsInit ==
    /\ form = [f \in Field |->
          [Validate(f, [value |-> Empty, disabled |-> FALSE, valid |-> FALSE, error |-> "none",
                        validating |-> FALSE, due |-> FALSE, run |-> NoRun,
                        focused |-> FALSE, touched |-> FALSE, show |-> FALSE,
                        meddled |-> FALSE]) EXCEPT !.show = FALSE]]
    /\ sending = FALSE

FormsNext ==
    \/ \E f \in Field :
        \/ \E v \in Value : Change(f, v)
        \/ AsyncValidate(f) \/ AsyncAnswer(f) \/ AsyncFails(f)
        \/ Focus(f) \/ Blur(f) \/ SetError(f) \/ ClearError(f) \/ Toggle(f)
    \/ Reset \/ Submit \/ Sent

FormsSpec == FormsInit /\ [][FormsNext]_formsVars

-----------------------------------------------------------------------------
(* Properties *)

\* What the validations say of a value.
Right(f, v) ==
    IF v = Empty THEN f \notin Required
    ELSE f \in Checked => <<f, v>> \notin Bad /\ (f \in Async => <<f, v>> \notin AsyncBad)

\* A field that is not being validated has the verdict on the value it has now, unless an
\* error was set or cleared by hand; what is shown is an error; and a form that may be
\* submitted has nothing in it that its validations refuse.
VerdictsCurrent ==
    /\ \A f \in Field : LET p == form[f] IN ~p.meddled =>
        /\ ~p.validating => /\ p.valid = Right(f, p.value)
                            /\ p.valid <=> p.error = "none"
        /\ p.show => p.error # "none"
    /\ FormValid => \A f \in Enabled : form[f].meddled \/ Right(f, form[f].value)
=============================================================================
