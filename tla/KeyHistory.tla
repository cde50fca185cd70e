------------------------------ MODULE KeyHistory ------------------------------
(***************************************************************************)
(* What a registry of rotating identities promises its caller, with none   *)
(* of the tables it keeps to deliver it.                                   *)
(*                                                                         *)
(* For each identity a verifier holds one history, a sequence of record    *)
(* digests, and a verdict. The history only grows, at its end; nothing     *)
(* already in it is replaced; the verdict "compromised" is final. Only a   *)
(* restart goes back, and no further than what was saved.                  *)
(***************************************************************************)
EXTENDS Naturals, Sequences, SequencesExt

CONSTANTS Verifiers, Identities

VARIABLES
  history,       \* [Verifiers -> [Identities -> sequence of digests]]
  compromised,   \* [Verifiers -> SUBSET Identities]
  saved          \* [Verifiers -> the same two, as last persisted]

vars == <<history, compromised, saved>>

Current(v) == [history |-> history[v], compromised |-> compromised[v]]

Init ==
  /\ history = [v \in Verifiers |-> [id \in Identities |-> <<>>]]
  /\ compromised = [v \in Verifiers |-> {}]
  /\ saved = [v \in Verifiers |-> Current(v)]

OthersKeep(f, v) == \A w \in Verifiers \ {v} : f'[w] = f[w]

\* A longer history of one identity is adopted: it continues the one held.
Advance(v, id) ==
  /\ IsStrictPrefix(history[v][id], history'[v][id])
  /\ \A other \in Identities \ {id} : history'[v][other] = history[v][other]
  /\ OthersKeep(history, v)
  /\ UNCHANGED <<compromised, saved>>

\* A contradiction is met: it is remembered, and the history stays as it is.
Brand(v, id) ==
  /\ history[v][id] # <<>>
  /\ compromised' = [compromised EXCEPT ![v] = @ \cup {id}]
  /\ UNCHANGED <<history, saved>>

Save(v) ==
  /\ saved' = [saved EXCEPT ![v] = Current(v)]
  /\ UNCHANGED <<history, compromised>>

Restart(v) ==
  /\ history' = [history EXCEPT ![v] = saved[v].history]
  /\ compromised' = [compromised EXCEPT ![v] = saved[v].compromised]
  /\ UNCHANGED saved

Next ==
  \E v \in Verifiers :
    \/ \E id \in Identities : Advance(v, id) \/ Brand(v, id)
    \/ Save(v)
    \/ Restart(v)

Spec == Init /\ [][Next]_vars
=============================================================================
