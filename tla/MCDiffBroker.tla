---------------------------- MODULE MCDiffBroker ----------------------------
(***************************************************************************)
(* Small instances of DiffBroker for TLC: one socket and one session.      *)
(***************************************************************************)
EXTENDS DiffBroker

CONSTANTS a, b, c, socket, session, file, tabA, tabB

Owners == [r \in Requests |-> IF r = c THEN session ELSE socket]
OneFile == [r \in Requests |-> file]
TwoNames == [r \in Requests |-> IF r = a THEN tabA ELSE tabB]

Case(made, may) == [calls |-> made, may |-> may]

Mixed == {Case({a, c}, {"withdraw", "answer", "cancel"}),
          Case({a, c}, {"session", "socket", "project"}),
          Case({a, c}, {"closeTab", "closePane", "answer", "project"}),
          Case({a, b, c}, {"closeTab"}),
          Case({a, b}, {"withdraw", "socket"}),
          Case({a, c}, {"quit", "withdraw"})}
=============================================================================
