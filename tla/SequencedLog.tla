---------------------------- MODULE SequencedLog ----------------------------
(***************************************************************************)
(* What the realtime store promises to its readers: one append-only log in *)
(* which an event occurs once, whose positions are the public sequence     *)
(* numbers, and of which readers see a growing prefix.  Nothing about      *)
(* crashes, files or checkpoints is visible at this level.                 *)
(***************************************************************************)
EXTENDS Naturals, Sequences, Functions, SequencesExt

CONSTANT LogEvents

VARIABLES
    log,       \* the accepted events, in the order of their sequence numbers
    visible    \* the length of the prefix readers have been shown

logVars == <<log, visible>>

LogInit == log = <<>> /\ visible = 0

(* A frame is accepted; some of the log, perhaps none of it, is shown.     *)
Accept ==
    /\ \E n \in 0..Len(log') :
          /\ log = SubSeq(log', 1, n)
          /\ \A i \in DOMAIN log' : log'[i] \in LogEvents
          /\ IsInjective(log')
    /\ visible' \in visible..Len(log')

LogNext == Accept

LogSpec == LogInit /\ [][LogNext]_logVars
=============================================================================
