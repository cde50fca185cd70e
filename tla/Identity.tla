------------------------------- MODULE Identity -------------------------------
(***************************************************************************)
(* Who exists. A key pair, the address that certifies its signing key and  *)
(* the DID that spells the address (address.py, did.py) stand for each     *)
(* other, so all three are represented by the address. What is signed      *)
(* verifies for the key that signed it and for nothing else (signing.py).  *)
(***************************************************************************)
EXTENDS Naturals

CONSTANTS
  Addresses,     \* addresses of the key pairs that exist
  NoSignature,   \* a signature that verifies for no key
  None           \* Python's None

ASSUME NoSignatureAssumption == NoSignature \notin Addresses
ASSUME NoneAssumption == None \notin Addresses /\ None \notin Nat
=============================================================================
