----------------------------- MODULE EntryPage -----------------------------
(***************************************************************************)
(* The page with the field for the validators in it: every change of the   *)
(* field's set is emitted, copied by updateValidatorIndexes                 *)
(* (TheMainView.vue:100-102), and seen by the page's watcher, also when it  *)
(* comes from a lookup the user started earlier. Calculate does not know   *)
(* of lookups under way.                                                   *)
(***************************************************************************)
EXTENDS MainView, ValidatorAdder

\* What the field emits is what the page may select.
ASSUME EntryAssumption == Selections = SUBSET Indexes /\ Empty = {}

entryVars == <<vars, adderVars>>

EntryInit == Init /\ AdderInit

\* ValidatorAdder's watcher fires when the set changes; the page takes a copy.
Emit ==
    IF added' # added THEN Reselect(added')
    ELSE UNCHANGED <<fields, rewardData, priceData>>

\* A patient user waits for the lookups, too, although nothing on the page says
\* that one is under way.
Allowed == patient => Underway = {}

EnterValidators ==
    /\ Allowed /\ (patient => ~Loading)
    /\ Entry /\ Emit /\ UNCHANGED user

LookupAnswers == LookupStep /\ Emit /\ UNCHANGED user

EditOthers ==
    /\ Allowed
    /\ \/ \E c \in Currencies : SelectCurrency(c)
       \/ \E r \in Ranges : SelectRange(r)
    /\ UNCHANGED adderVars

PressCalculate == Allowed /\ Calculate /\ UNCHANGED adderVars

AnswersCome == Answer /\ UNCHANGED adderVars

EntryNext ==
    /\ EnterValidators \/ LookupAnswers \/ EditOthers \/ PressCalculate \/ AnswersCome
    /\ Render

\* Every request is answered or fails; the user need not do anything.
EntrySpec == EntryInit /\ [][EntryNext]_entryVars /\ WF_entryVars(AnswersCome /\ Render)

-----------------------------------------------------------------------------
\* "Whenever the validator indexes change, reset any previously retrieved
\* rewards data" (TheMainView.vue:53-54): what is shown was calculated for the
\* validators in the field, through lookups, resets and the copies in between,
\* for a user who waits: an answer that comes after a change, or before a lookup
\* that was under way when it was asked for, is written all the same (line 140).
ShownForEntered ==
    patient /\ rewards # Nothing => rewards.validators = added
=============================================================================
