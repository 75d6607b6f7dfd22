-------------------------------- MODULE Config -------------------------------
(***************************************************************************)
(* The configuration file: what a process that starts makes of it, and who *)
(* changes it, a user with an editor or `otelma config init`.  Of the six  *)
(* settings two are kept, the ones that have to agree with one another:    *)
(* serve_addr, where a server listens, and client_base_url, where a command*)
(* looks for it.                                                           *)
(***************************************************************************)
EXTENDS Naturals

CONSTANTS Addr,         \* addresses of the loopback interface
          DefaultAddr,  \* the one that is built in
          Version,      \* the files that a user may save
          Missing,      \* there is no file
          Unreadable,   \* the file is truncated, or no JSON
          None,         \* a setting that the file does not have
          Mistyped,     \* a setting whose JSON value has the wrong type
          MaxEdits      \* bound: how often users change the file

Key     == {"serve", "client"}
Setting == [Key -> Addr \cup {None, Mistyped}]

ASSUME ConfigAssumption ==
  /\ DefaultAddr \in Addr
  /\ Version \subseteq Setting
  /\ {None, Mistyped} \cap Addr = {}
  /\ {Missing, Unreadable} \cap Setting = {}
  /\ MaxEdits \in Nat

VARIABLES file,   \* what config.json holds
          edits   \* how often users have changed it

config == <<file, edits>>

ConfigInit == file \in Version \cup {Missing} /\ edits = 0

Default == [k \in Key |-> DefaultAddr]

(* json.Unmarshal onto the defaults: what is missing, or mistyped, keeps its
   default value. *)
Merged(s) == [k \in Key |-> IF s[k] \in Addr THEN s[k] ELSE Default[k]]

(* Mutant: what could be read of a file with an error is used. *)
LoadPartial(f) == IF f \in {Missing, Unreadable} THEN Default ELSE Merged(f)

(* config.Load, and what Run does with its error: a file that cannot be read
   in full counts for nothing. *)
Load(f) ==
  IF f \in {Missing, Unreadable} \/ \E k \in Key : f[k] = Mistyped
  THEN Default
  ELSE Merged(f)

(* A user saves the file, or an editor has just opened it for writing. *)
Edit ==
  /\ edits < MaxEdits /\ edits' = edits + 1
  /\ file' \in (Version \cup {Missing, Unreadable}) \ {file}

(* os.WriteFile truncates the file and then writes it. *)
Truncate     == file' = Unreadable /\ UNCHANGED edits
WriteDefault == file' = Default /\ UNCHANGED edits
=============================================================================
