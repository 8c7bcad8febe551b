--------------------------- MODULE ValidatorAdder ---------------------------
(***************************************************************************)
(* The field for the validators                                            *)
(* (src/frontend_vue/src/components/inputs/ValidatorAdder.vue): indexes are *)
(* added at once, public keys and addresses are looked up at the API one    *)
(* after the other. The three lookups (by public key, by deposit address,  *)
(* by Rocket Pool node address) have the same loop and write into the same *)
(* set; nothing keeps the user from starting another one, or from pressing *)
(* Reset, while one is under way, and nothing shows that it is.            *)
(***************************************************************************)
EXTENDS Naturals, Sequences, FiniteSets

CONSTANTS
    Indexes,        \* validator indexes
    Blank,          \* what is not a number: nothing after a trailing comma
    Keys,           \* public keys and addresses
    Owned,          \* [Keys -> SUBSET Indexes]: what the API answers
    Inputs,         \* what may be entered: sequences of distinct keys
    Statuses,       \* HTTP statuses of a request without an answer
    MaxInputs       \* bound: things entered and resets

ASSUME AdderAssumption ==
    /\ Indexes \subseteq Nat /\ Blank \notin Indexes /\ Owned \in [Keys -> SUBSET Indexes]
    /\ Inputs \subseteq Seq(Keys) \ {<<>>}
    /\ Statuses \subseteq Nat \ {200} /\ MaxInputs \in Nat

VARIABLES
    added,      \* validatorIndexes
    lookups,    \* calls of the lookup functions: Seq of the keys still to ask for
    failed,     \* keys given up: theirs or an earlier request of the loop failed
    alerted,    \* keys whose failure the user was told of
    wanted,     \* history: indexes behind what was entered since the last reset
    hasty,      \* history: a reset was pressed while a lookup was under way
    inputs

adderVars == <<added, lookups, failed, alerted, wanted, hasty, inputs>>

Underway == {i \in DOMAIN lookups : lookups[i] # <<>>}
KeysIn(s) == {s[j] : j \in DOMAIN s}
OwnedBy(ks) == UNION {Owned[k] : k \in ks}
Awaited == UNION {KeysIn(lookups[i]) : i \in Underway}

AdderInit ==
    /\ added = {} /\ lookups = <<>> /\ failed = {} /\ alerted = {}
    /\ wanted = {} /\ hasty = FALSE /\ inputs = 0

Input == inputs < MaxInputs /\ inputs' = inputs + 1

\* parseValidatorIndexes: filter(Number) drops blanks, and the index 0.
AddIndexes(items) ==
    /\ Input
    /\ added' = added \cup (items \ {0, Blank})
    /\ wanted' = wanted \cup (items \ {0, Blank})
    /\ UNCHANGED <<lookups, failed, alerted, hasty>>

\* A lookup function up to its first await.
Submit_Replace(keys) ==
    /\ Input
    /\ lookups' = <<keys>>
    /\ wanted' = wanted \cup OwnedBy(KeysIn(keys))
    /\ UNCHANGED <<added, failed, alerted, hasty>>
Submit(keys) ==
    /\ Input
    /\ lookups' = Append(lookups, keys)
    /\ wanted' = wanted \cup OwnedBy(KeysIn(keys))
    /\ UNCHANGED <<added, failed, alerted, hasty>>

\* A 200 answer: its indexes are added, the loop asks for the next key.
Arrive(i) ==
    /\ i \in Underway
    /\ added' = added \cup Owned[Head(lookups[i])]
    /\ lookups' = [lookups EXCEPT ![i] = Tail(@)]
    /\ UNCHANGED <<failed, alerted, wanted, hasty, inputs>>

\* Any other answer ends the loop. axios resolves for the 2xx statuses only,
\* and rejects for the others: the branch with the alert is for a 2xx that is
\* not 200.
Resolves(status) == status \in 200 .. 299
Reject(i, status) ==
    /\ i \in Underway
    /\ failed' = failed \cup KeysIn(lookups[i])
    /\ alerted' = IF Resolves(status) THEN alerted \cup {Head(lookups[i])} ELSE alerted
    /\ lookups' = [lookups EXCEPT ![i] = <<>>]
    /\ UNCHANGED <<added, wanted, hasty, inputs>>

\* The button is there while the set has members; lookups go on.
Reset_Copy ==
    /\ Input /\ added # {}
    /\ wanted' = {}
    /\ hasty' = (hasty \/ Underway # {})
    /\ UNCHANGED <<added, lookups, failed, alerted>>
Reset ==
    /\ Input /\ added # {}
    /\ added' = {} /\ wanted' = {}
    /\ hasty' = (hasty \/ Underway # {})
    /\ UNCHANGED <<lookups, failed, alerted>>

Entry ==
    \/ \E items \in SUBSET (Indexes \cup {Blank}) \ {{}} : AddIndexes(items)
    \/ \E keys \in Inputs : Submit(keys)
    \/ Reset

LookupStep ==
    \E i \in DOMAIN lookups : Arrive(i) \/ \E st \in Statuses : Reject(i, st)

AdderNext == Entry \/ LookupStep

AdderSpec == AdderInit /\ [][AdderNext]_adderVars

-----------------------------------------------------------------------------
\* Types of the variables.
AdderTypeOK ==
    /\ added \subseteq Indexes /\ wanted \subseteq Indexes
    /\ lookups \in Seq(Seq(Keys))
    /\ failed \subseteq Keys /\ alerted \subseteq failed
    /\ hasty \in BOOLEAN /\ inputs \in 0 .. MaxInputs

\* However lookups overlap, what was entered since the last reset is in the
\* set, on its way, or behind a request that failed.
NothingLost == wanted \subseteq added \cup OwnedBy(Awaited) \cup OwnedBy(failed)

\* What is in the set was entered since the last reset. It takes a user who
\* resets between lookups: one under way adds its indexes after the reset.
NothingUnwanted == ~hasty => added \subseteq wanted
=============================================================================
