----------------------------- MODULE FirmwareLog ------------------------------
(***************************************************************************)
(* What the firmware log promises to those who install from it: artefacts  *)
(* and entries are never taken back, and an entry is acceptable and has    *)
(* everything it needs stored when it appears.                             *)
(***************************************************************************)
CONSTANTS
  Entries,   \* entries an installer accepts
  Needs      \* [Entries -> artefacts an entry names]

VARIABLES artefacts, log

LInit == artefacts = {} /\ log = {}

Store ==
  /\ artefacts \subseteq artefacts'
  /\ UNCHANGED log

Appear ==
  /\ log \subseteq log'
  /\ \A e \in log' \ log : e \in Entries /\ Needs[e] \subseteq artefacts
  /\ UNCHANGED artefacts

LSpec == LInit /\ [][Store \/ Appear]_<<artefacts, log>>
=============================================================================
