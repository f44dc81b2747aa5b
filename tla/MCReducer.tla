------------------------------ MODULE MCReducer ------------------------------
(***************************************************************************)
(* What the reducer asks of one step: the body that assigns the state      *)
(* (Alternatives) or the guards and the fixtures they name (Fixtures); the *)
(* initial state picks the one.                                            *)
(***************************************************************************)
EXTENDS MCAlternatives, MCFixtures

VARIABLE part \* "body" or "guards"

BodyAtRest ==
  /\ body = [guard |-> "false"]
  /\ reached = Nothing /\ observed = Nothing /\ captured = Nothing /\ merged = Nothing
  /\ verdict = "open"

GuardsAtRest ==
  /\ call = [params |-> <<>>, body |-> Bool(FALSE), args |-> <<>>]
  /\ state = NoNames /\ guards = <<>> /\ fixtures = NoNames /\ values = NoNames /\ json = NoNames
  /\ phase = "source" /\ outcome = "none"

MCInit ==
  \/ part = "body" /\ AlternativesInit /\ GuardsAtRest
  \/ part = "guards" /\ FixturesInit /\ BodyAtRest

MCNext ==
  /\ \/ part = "body" /\ AlternativesNext /\ UNCHANGED fixturesVars
     \/ part = "guards" /\ FixturesNext /\ UNCHANGED alternativesVars
  /\ UNCHANGED part

MCSpec == MCInit /\ [][MCNext]_<<alternativesVars, fixturesVars, part>>
==============================================================================
