------------------------------- MODULE Once -------------------------------
(***************************************************************************)
(* What the control API promises of a mutation sent under an               *)
(* Idempotency-Key (README.md, "Mutations require an Idempotency-Key"):    *)
(* however often it is sent, and whatever is lost on the way, a key takes  *)
(* effect at most once, and everyone who hears that it was accepted hears  *)
(* the outcome of that one effect, for the request they made.              *)
(* Module Commands is shown to implement this specification.               *)
(***************************************************************************)
EXTENDS Sequences, Integers

VARIABLES
  effects,  \* the outcomes that took effect, in order: records with a key
  heard     \* the outcomes that have been acknowledged to some client

Init == effects = <<>> /\ heard = {}

Done(k) == \E i \in DOMAIN effects : effects[i].key = k

\* An effect may be acknowledged by the very step that brings it about.
Apply(o) ==
  /\ ~Done(o.key)
  /\ effects' = Append(effects, o)
  /\ heard' = heard \/ heard' = heard \cup {o}

Acknowledge(o) ==
  /\ heard' = heard \cup {o}
  /\ UNCHANGED effects

Next ==
  \/ \E i \in DOMAIN effects' : Apply(effects'[i])
  \/ \E i \in DOMAIN effects : Acknowledge(effects[i])

Spec == Init /\ [][Next]_<<effects, heard>>
============================================================================
