------------------------------ MODULE OnceStore ------------------------------
(***************************************************************************)
(* What every challenge store promises, as ChallengeStoreBase of           *)
(* src/fg_agent_id/challenge_store.py states it: a challenge that has been *)
(* handed to one consumer is never handed to another. A store may forget   *)
(* what it holds at any step, for a challenge expires; forgetting is not   *)
(* handing out.                                                            *)
(***************************************************************************)
EXTENDS Naturals

CONSTANT ChallengeIds

VARIABLES
  open,    \* challenges that may still be handed out
  handed   \* how often each has been

Init ==
  /\ open = {}
  /\ handed = [id \in ChallengeIds |-> 0]

\* In each action, `kept' is what the store does not forget on the way.

Issue(id, kept) ==
  /\ id \notin open
  /\ handed[id] = 0
  /\ open' = kept \cup {id}
  /\ UNCHANGED handed

Hand(id, kept) ==
  /\ id \in open
  /\ id \notin kept
  /\ open' = kept
  /\ handed' = [handed EXCEPT ![id] = @ + 1]

Lapse(kept) ==
  /\ open' = kept
  /\ UNCHANGED handed

Next ==
  \E kept \in SUBSET open :
    \/ Lapse(kept)
    \/ \E id \in ChallengeIds : Issue(id, kept) \/ Hand(id, kept)

Spec == Init /\ [][Next]_<<open, handed>>
=============================================================================
