------------------------------- MODULE KeyFile -------------------------------
(***************************************************************************)
(* A key file and the processes that share its path: load_or_create_keys,  *)
(* load_keys and save_keys of src/fg_agent_id/keyfile.py, over the two     *)
(* formats of KeyPair (keys.py).                                           *)
(*                                                                         *)
(* Every call to the file system is a step, and a process may stop between *)
(* any two. The bytes of a key fit one write, which happens or does not;   *)
(* but opening the file truncates it first, and two writers write over     *)
(* each other.                                                             *)
(***************************************************************************)
CONSTANTS
  Processes,
  Keys,          \* key pairs that are ever generated
  MagicKeys,     \* key pairs whose private bytes begin with "FGID"
  Passphrases,
  None           \* no passphrase

ASSUME MagicKeysAssumption == MagicKeys \subseteq Keys
ASSUME NoPassphraseAssumption == None \notin Passphrases

VARIABLES
  file,        \* what lies at the path
  private,     \* whether its mode is 0600
  process,     \* the call each process is in, or the key it returned
  generated,   \* auxiliary: keys that have been generated
  returned,    \* auxiliary: keys that load_or_create_keys has ever returned
  overlapped,  \* auxiliary: whether two saves were ever under way at once
  interrupted  \* auxiliary: whether a process ever stopped in a save

vars == <<file, private, process, generated, returned, overlapped, interrupted>>

\* What a key is saved with.
Seals == Passphrases \cup {None}

-----------------------------------------------------------------------------
(* The contents of the file                                                *)

Absent == [format |-> "absent"]
Empty == [format |-> "empty"]

\* The 64 bytes of a plain key over the first of the 113 of a sealed one.
Torn == [format |-> "torn"]

Plain(key) == [format |-> "plain", key |-> key]
Sealed(key, passphrase) ==
  [format |-> "sealed", key |-> key, passphrase |-> passphrase]

\* KeyPair.to_encrypted_bytes or to_bytes.
Bytes(key, seal) == IF seal = None THEN Plain(key) ELSE Sealed(key, seal)

\* What the file holds after a write at its start.
Overwritten(old, new) ==
  IF new.format = "plain" /\ old.format \in {"sealed", "torn"} THEN Torn ELSE new

\* KeyPair.from_encrypted_bytes.
Unseals(passphrase) == file.format = "sealed" /\ file.passphrase = passphrase

\* Whether load_keys returns a key, given a passphrase or none. It takes a plain
\* key that happens to begin with the magic of the other format for sealed.
Loads(seal) ==
  \/ seal = None /\ file.format = "plain" /\ file.key \notin MagicKeys
  \/ seal # None /\ Unseals(seal)

-----------------------------------------------------------------------------
(* load_or_create_keys                                                     *)

Idle == [pc |-> "idle"]
Saving(key, seal) == [pc |-> "save", key |-> key, seal |-> seal]

\* Processes that have generated a key or begun to save one, and are not done.
Savers == {p \in Processes : process[p].pc \in {"save", "opened", "written"}}

Step(p, call) == process' = [process EXCEPT ![p] = call]

Return(p, key) ==
  /\ Step(p, [pc |-> "holding", key |-> key])
  /\ returned' = returned \cup {key}

Init ==
  /\ file = Absent
  /\ private = FALSE
  /\ process = [p \in Processes |-> Idle]
  /\ generated = {}
  /\ returned = {}
  /\ overlapped = FALSE
  /\ interrupted = FALSE

\* The file exists, and is to be read next.
Find(p, seal) ==
  /\ process[p] = Idle
  /\ file # Absent
  /\ Step(p, [pc |-> "load", seal |-> seal])
  /\ UNCHANGED <<file, private, generated, returned, overlapped, interrupted>>

\* Mutant: whether the file exists is not asked.
Generate_Always(p, key, seal) ==
  /\ process[p] = Idle
  /\ key \notin generated
  /\ generated' = generated \cup {key}
  /\ Step(p, Saving(key, seal))
  /\ overlapped' = (overlapped \/ Savers # {})
  /\ UNCHANGED <<file, private, returned, interrupted>>

\* It does not exist, and a key is generated to be saved next.
Generate(p, key, seal) ==
  /\ process[p] = Idle
  /\ file = Absent
  /\ key \notin generated
  /\ generated' = generated \cup {key}
  /\ Step(p, Saving(key, seal))
  /\ overlapped' = (overlapped \/ Savers # {})
  /\ UNCHANGED <<file, private, returned, interrupted>>

\* load_keys: it reads the file at once and returns the key in it, or raises.
Load(p) ==
  /\ process[p].pc = "load"
  /\ IF Loads(process[p].seal) THEN Return(p, file.key)
                               ELSE Step(p, Idle) /\ UNCHANGED returned
  /\ UNCHANGED <<file, private, generated, overlapped, interrupted>>

-----------------------------------------------------------------------------
(* save_keys                                                               *)

\* A process saves the key it has again, with another passphrase perhaps.
SaveAgain(p, seal) ==
  /\ process[p].pc = "holding"
  /\ Step(p, Saving(process[p].key, seal))
  /\ overlapped' = (overlapped \/ Savers # {})
  /\ UNCHANGED <<file, private, generated, returned, interrupted>>

\* Mutant: an old file is not truncated.
Open_Update(p) ==
  /\ process[p].pc = "save"
  /\ file' = IF file = Absent THEN Empty ELSE file
  /\ Step(p, [process[p] EXCEPT !.pc = "opened"])
  /\ UNCHANGED <<private, generated, returned, overlapped, interrupted>>

\* A new file gets the mode the umask leaves, an old one keeps its own.
Open(p) ==
  /\ process[p].pc = "save"
  /\ file' = Empty
  /\ Step(p, [process[p] EXCEPT !.pc = "opened"])
  /\ UNCHANGED <<private, generated, returned, overlapped, interrupted>>

Write(p) ==
  /\ process[p].pc = "opened"
  /\ file' = Overwritten(file, Bytes(process[p].key, process[p].seal))
  /\ Step(p, [process[p] EXCEPT !.pc = "written"])
  /\ UNCHANGED <<private, generated, returned, overlapped, interrupted>>

\* Mutant: the mode is left as it is.
Chmod_No(p) ==
  /\ process[p].pc = "written"
  /\ Return(p, process[p].key)
  /\ UNCHANGED <<file, private, generated, overlapped, interrupted>>

Chmod(p) ==
  /\ process[p].pc = "written"
  /\ private' = TRUE
  /\ Return(p, process[p].key)
  /\ UNCHANGED <<file, generated, overlapped, interrupted>>

-----------------------------------------------------------------------------

\* The process stops, wherever it is.
Stop(p) ==
  /\ Step(p, Idle)
  /\ interrupted' = (interrupted \/ p \in Savers)
  /\ UNCHANGED <<file, private, generated, returned, overlapped>>

Next ==
  \E p \in Processes :
    \/ \E seal \in Seals :
         \/ Find(p, seal)
         \/ SaveAgain(p, seal)
         \/ \E key \in Keys : Generate(p, key, seal)
    \/ Load(p)
    \/ Open(p)
    \/ Write(p)
    \/ Chmod(p)
    \/ Stop(p)

Spec == Init /\ [][Next]_vars

-----------------------------------------------------------------------------
(* Properties                                                              *)

Contents ==
  {Absent, Empty, Torn} \cup [format : {"plain"}, key : Keys]
    \cup [format : {"sealed"}, key : Keys, passphrase : Passphrases]

Calls ==
  [pc : {"load"}, seal : Seals]
    \cup [pc : {"save", "opened", "written"}, key : Keys, seal : Seals]
    \cup [pc : {"holding"}, key : Keys]
    \cup {Idle}

\* A key that lies in the file or in a process has been generated, what a
\* process holds was returned to it, and only two saves at once tear the file.
TypeOK ==
  /\ file \in Contents
  /\ process \in [Processes -> Calls]
  /\ returned \subseteq generated /\ generated \subseteq Keys
  /\ {private, overlapped, interrupted} \subseteq BOOLEAN
  /\ "key" \in DOMAIN file => file.key \in generated
  /\ \A p \in Processes :
       /\ "key" \in DOMAIN process[p] => process[p].key \in generated
       /\ process[p].pc = "holding" => process[p].key \in returned
  /\ file = Torn => overlapped

\* "Created on first run, reloaded ever after (same address every time)"
\* (README): as long as no two saves were under way at once, only one key is
\* ever returned, and it is the one in the file or about to be written there.
\* A save that is cut short may leave nothing of it, but no other key.
SameKeyEveryTime ==
  ~overlapped =>
    \A key \in returned :
      /\ returned = {key}
      /\ \A p \in Savers : process[p].key = key
      /\ \/ "key" \in DOMAIN file /\ file.key = key
         \/ file = Empty /\ (interrupted \/ Savers # {})

\* "Write a keypair to path (mode 0600)" (save_keys): when nobody is saving
\* and no save was cut short or disturbed, the file is a whole key that only
\* its owner can read, or is not there yet.
WholeAndPrivate ==
  ~overlapped /\ ~interrupted /\ Savers = {} =>
    file = Absent \/ (private /\ "key" \in DOMAIN file)
=============================================================================
