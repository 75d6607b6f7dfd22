--------------------------------- MODULE Saves -------------------------------
(***************************************************************************)
(* What RegistryFile promises depends on whether saves overlap, as the code*)
(* has no lock around one.  A history variable keeps whether two requests  *)
(* that save have ever been in progress at once; until then the promises   *)
(* hold, whatever crashes, fails or disappears.                            *)
(***************************************************************************)
EXTENDS RegistryFile

VARIABLE overlapped  \* history: two requests have been in progress at once

HistInit == Init /\ overlapped = FALSE

HistNext ==
  /\ Next
  /\ overlapped' = (overlapped \/ \E t, u \in Request :
                                    t # u /\ pc'[t] # "idle" /\ pc'[u] # "idle")

(* For model checking: once requests have overlapped, what was pulled and what
   was removed before makes no difference to any property or step. *)
Remembered ==
  <<registry, onDisk, files, locals, warned, overlapped,
    IF overlapped THEN <<>> ELSE history>>

HistSpec == HistInit /\ [][HistNext]_<<vars, overlapped>>
-----------------------------------------------------------------------------
(* One request at a time: the registry file always parses. *)
AloneNeverCorrupt == ~overlapped => NeverCorrupt

(* One request at a time: what was pulled is on file. *)
AlonePullsRemembered == ~overlapped => PullsRemembered

(* One request at a time: what was removed is not. *)
AloneRemovalsStick == ~overlapped => RemovalsStick

(* One request at a time: with its steps, crashes and failures SaveRegistry is
   the atomic save of DurableRegistry. *)
AloneDurable ==
  Durable!DurInit /\ [][overlapped' \/ Durable!DurNext]_<<registry, Loadable>>
=============================================================================
