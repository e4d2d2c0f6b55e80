---------------------------- MODULE RatFallback ----------------------------
(***************************************************************************)
(* What the fallback between the terrestrial network (LTE-M) and the       *)
(* satellite network (NTN) promises, without events, timers or services:   *)
(*   - each wait is followed by an attempt on the RAT whose turn it is;    *)
(*   - NTN is never attempted without a position;                          *)
(*   - an NTN attach that fails keeps the turn, until MaxFailures attaches *)
(*     in a row have failed: then LTE-M has it;                            *)
(*   - a lost or degraded link gives the turn to the other RAT;            *)
(*   - from NTN the device returns to LTE-M through a probe or after       *)
(*     losing NTN, never otherwise.                                        *)
(***************************************************************************)
EXTENDS Naturals

CONSTANT MaxFailures     \* at least 1

VARIABLES
    phase,      \* what the device is doing
    due,        \* the RAT whose turn it is after a wait
    located,    \* whether a position is known
    failures    \* NTN attaches failed in a row

fallbackVars == <<phase, due, located, failures>>

Phase == {"start", "waiting", "ltem_attach", "ntn_attach", "ltem", "locating",
          "ntn", "probing"}

FallbackTypeOK ==
    /\ phase \in Phase
    /\ due \in {"LTEM", "NTN"}
    /\ located \in BOOLEAN
    /\ failures \in 0..(MaxFailures - 1)

Init ==
    /\ phase = "start"
    /\ due = "LTEM"
    /\ located = FALSE
    /\ failures = 0

(* From a phase in `from' to `to', which gives rat the turn.               *)
Go(from, to, rat) == phase \in from /\ phase' = to /\ due' = rat

AttachLtem ==
    /\ due = "LTEM"
    /\ Go({"start", "waiting"}, "ltem_attach", "LTEM")
    /\ UNCHANGED <<located, failures>>

LtemAttached == Go({"ltem_attach"}, "ltem", due) /\ UNCHANGED <<located, failures>>
LtemFails == Go({"ltem_attach"}, "waiting", "NTN") /\ UNCHANGED <<located, failures>>

(* LTE-M is lost, or degrades with a position at hand...                   *)
LtemLost == Go({"ltem"}, "waiting", "NTN") /\ UNCHANGED <<located, failures>>

(* ...or without one, which is then looked for first.                      *)
LtemDegrades ==
    /\ Go({"ltem"}, "locating", "NTN")
    /\ located' = FALSE
    /\ UNCHANGED failures

(* The cloud cannot be reached: LTE-M is set up again.                     *)
LtemUseless == Go({"ltem"}, "waiting", due) /\ UNCHANGED <<located, failures>>

(* A position is looked for while LTE-M serves, or because NTN needs one.  *)
Locate == Go({"ltem"}, "locating", due) /\ UNCHANGED <<located, failures>>

LocateForNtn ==
    /\ due = "NTN"
    /\ Go({"waiting"}, "locating", "NTN")
    /\ located' = FALSE
    /\ UNCHANGED failures

Located ==
    /\ Go({"locating"}, "ltem", due) \/ Go({"locating"}, "ntn_attach", due)
    /\ located' = TRUE
    /\ UNCHANGED failures

NotLocated ==
    /\ Go({"locating"}, "ltem", due) \/ Go({"locating"}, "waiting", due)
    /\ UNCHANGED <<located, failures>>

LostWhileLocating ==
    /\ \E rat \in {"LTEM", "NTN"} : Go({"locating"}, "waiting", rat)
    /\ UNCHANGED <<located, failures>>

AttachNtn ==
    /\ due = "NTN" /\ located
    /\ Go({"waiting"}, "ntn_attach", "NTN")
    /\ UNCHANGED <<located, failures>>

NtnAttached ==
    /\ Go({"ntn_attach"}, "ntn", due)
    /\ failures' = 0
    /\ UNCHANGED located

NtnFails ==
    /\ failures + 1 < MaxFailures
    /\ Go({"ntn_attach"}, "waiting", "NTN")
    /\ failures' = failures + 1
    /\ UNCHANGED located

NtnExhausted ==
    /\ failures + 1 = MaxFailures
    /\ Go({"ntn_attach"}, "waiting", "LTEM")
    /\ failures' = 0
    /\ UNCHANGED located

Probe == Go({"ntn"}, "probing", due) /\ UNCHANGED <<located, failures>>

ProbeSucceeds ==
    /\ Go({"probing"}, "ltem", "LTEM") \/ Go({"probing"}, "ltem_attach", "LTEM")
    /\ UNCHANGED <<located, failures>>

(* NTN is resumed, or attached again when it cannot be.                    *)
ProbeFails ==
    /\ Go({"probing"}, "ntn", due) \/ Go({"ntn", "probing"}, "ntn_attach", "NTN")
    /\ UNCHANGED <<located, failures>>

NtnLost == Go({"ntn"}, "waiting", "LTEM") /\ UNCHANGED <<located, failures>>

(* Every step is a change of phase.                                         *)
Next ==
    /\ phase' # phase
    /\ \/ AttachLtem \/ LtemAttached \/ LtemFails
       \/ LtemLost \/ LtemDegrades \/ LtemUseless
       \/ Locate \/ LocateForNtn \/ Located \/ NotLocated \/ LostWhileLocating
       \/ AttachNtn \/ NtnAttached \/ NtnFails \/ NtnExhausted
       \/ Probe \/ ProbeSucceeds \/ ProbeFails \/ NtnLost

Spec == Init /\ [][Next]_fallbackVars
=============================================================================
