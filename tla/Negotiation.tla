----------------------------- MODULE Negotiation -----------------------------
(***************************************************************************)
(* What class Observer promises to the browser it talks to.  Every offer   *)
(* starts a negotiation that replaces the one before, whose answer may be  *)
(* sent at that moment at the latest.  A negotiation sends its answer at   *)
(* most once, and its ICE candidates at most once and only after the       *)
(* answer.  It may fail before the answer, and end at any time.            *)
(***************************************************************************)
EXTENDS Naturals, Sequences

VARIABLES offers,  \* how many offers there were
          phase,   \* of the negotiation of the last offer
          out      \* what was sent to the browser

vars == <<offers, phase, out>>

Phases == {"none", "offered", "answered", "complete"}

Init ==
    /\ offers = 0
    /\ phase = "none"
    /\ out = <<>>

Offer ==
    /\ offers' = offers + 1
    /\ phase' \in {"offered", "none"}
    /\ \/ UNCHANGED out
       \/ phase = "offered" /\ out' = Append(out, <<"SDP", offers>>)

Answer ==
    /\ phase = "offered"
    /\ phase' = "answered"
    /\ out' = Append(out, <<"SDP", offers>>)
    /\ UNCHANGED offers

Fail ==
    /\ phase = "offered"
    /\ phase' = "none"
    /\ UNCHANGED <<offers, out>>

Complete ==
    /\ phase = "answered"
    /\ phase' = "complete"
    /\ out' = Append(out, <<"ICE", offers>>)
    /\ UNCHANGED offers

Next == Offer \/ Answer \/ Fail \/ Complete

Spec == Init /\ [][Next]_vars
=============================================================================
